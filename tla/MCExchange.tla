----------------------------- MODULE MCExchange -----------------------------
(* Exchange between two programs: one of them is started in every surrounding *)
(* of a small set and the other plainly, or both with every pair of keys.     *)
EXTENDS Exchange

NoArgs == <<>>
Nothing == [o \in {} |-> ""]
Arg(o, v) == [opt |-> o, val |-> v, joined |-> TRUE]
Apart(o, v) == [opt |-> o, val |-> v, joined |-> FALSE]
Plain == [args |-> NoArgs, environ |-> Nothing, files |-> Nothing]

UpTo2(S) == {<<>>} \cup {<<x>> : x \in S} \cup {<<x, y>> : x, y \in S}

AgentArgs == UpTo2({Arg("key", "k1"), Arg("interval", "0"), Arg("interval", "bad"),
                    Arg("config", "p1"), Arg("word", "")})
ServerArgs == UpTo2({Arg("key", "k1"), Arg("restore", "false"), Apart("restore", "false"),
                     Arg("storagePath", "flag.json"), Arg("config", "p1")})

\* Each name of S is unset or has one of its values.
Settings(choices) ==
  UNION {[D -> UNION {choices[n] : n \in D}] : D \in SUBSET DOMAIN choices}
Sensible(choices) == {f \in Settings(choices) : \A n \in DOMAIN f : f[n] \in choices[n]}

AgentEnvs == Sensible([key |-> {"", "k2"}, interval |-> {"7"}, config |-> {"p1", "p2"}])
ServerEnvs == Sensible([storagePath |-> {"", "env.json"}, STORE_FILE |-> {"", "store.json"},
                        config |-> {"p2"}])

AgentFiles == {Nothing, [f \in {"p1", "p2"} |-> IF f = "p1" THEN [interval |-> "7", key |-> "k2"]
                                                            ELSE [interval |-> "0"]]}
ServerFiles == {Nothing, [f \in {"p1", "p2"} |->
   IF f = "p1" THEN [storagePath |-> "file.json", restore |-> "false"] ELSE [key |-> "k2"]]}

Surroundings(A, E, F) == [args : A, environ : E, files : F]

KeyEnvs(keys, options) == Sensible([o \in options |-> IF o = "key" THEN {"k1", "k2"}
                                    ELSE IF o = "cryptoKey" THEN keys ELSE {"subnet", "bad"}])

Pair(a, s) == [p \in Programs |-> IF p = "agent" THEN a ELSE s]

MCInputs ==
  {Pair(a, Plain) : a \in Surroundings(AgentArgs, AgentEnvs, AgentFiles)}
  \cup {Pair(Plain, s) : s \in Surroundings(ServerArgs, ServerEnvs, ServerFiles)}
  \cup {Pair(a, s) :
         a \in Surroundings({NoArgs}, KeyEnvs({"rsa1", "rsa2", "tiny", "absent"}, {"key", "cryptoKey"}), {Nothing}),
         s \in Surroundings({NoArgs}, KeyEnvs({"rsa1", "rsa2", "absent"}, {"key", "cryptoKey", "trustedSubnet"}), {Nothing})}

MCKeySize == [k \in {"rsa1", "rsa2", "tiny"} |-> IF k = "tiny" THEN 2 ELSE 4]
=============================================================================
