------------------------ MODULE ConfigurationProofs -------------------------
(***************************************************************************)
(* parseFlags keeps ConfigInv, for any surroundings that the program can be *)
(* started in, and ConfigInv gives what the configuration promises.         *)
(***************************************************************************)
EXTENDS Configuration, WellFoundedInduction, TLAPS

-----------------------------------------------------------------------------
(* The command line *)

\* A set of numbers that is not empty has a least one.
LEMMA LeastExists ==
  ASSUME NEW T, T \subseteq Nat, T # {}
  PROVE  \E n \in T : \A m \in T : n <= m
PROOF
<1> DEFINE R == OpToRel(<, Nat)
<1> HIDE DEF R
<1>1. IsWellFoundedOn(R, Nat)
  BY NatLessThanWellFounded DEF R
<1>2. PICK n \in T : \A m \in T : ~(<<m, n>> \in R)
  BY <1>1, WFMin
<1>3. ASSUME NEW m \in T PROVE n <= m
  <2>1. n \in Nat /\ m \in Nat
    OBVIOUS
  <2>2. m < n => <<m, n>> \in R
    BY <2>1 DEF OpToRel, R
  <2> QED
    BY <1>2, <2>1, <2>2
<1> QED
  BY <1>3

\* A set of positions in a sequence that is not empty has a last one.
LEMMA MaxIsLast ==
  ASSUME NEW n \in Nat, NEW S \in SUBSET (1..n), S # {}
  PROVE  Max(S) \in S /\ \A i \in S : Max(S) >= i
PROOF
<1> DEFINE T == {n - i : i \in S}
<1>1. \A i \in S : i \in Nat /\ n - i \in Nat /\ n - i \in T
  OBVIOUS
<1>2. T \subseteq Nat /\ T # {}
  BY <1>1
<1>3. PICK x \in T : \A y \in T : x <= y
  <2> HIDE DEF T
  <2> QED
    BY <1>2, LeastExists
<1>4. PICK m \in S : x = n - m
  OBVIOUS
<1>5. ASSUME NEW i \in S PROVE m >= i
  <2>1. n - m <= n - i
    BY <1>1, <1>3, <1>4
  <2>2. m \in Nat /\ i \in Nat
    BY <1>1
  <2> QED
    BY <2>1, <2>2
<1>6. \E k \in S : \A i \in S : k >= i
  BY <1>5
<1> QED
  BY <1>6 DEF Max

\* The set of the places where a flag is given is one of positions of the command
\* line, all before the end of parsing.
LEMMA FlagsAreArguments ==
  ASSUME NEW in, NEW o, SurroundingOK(in)
  PROVE  /\ Len(in.args) \in Nat
         /\ FlagSet(in.args, o) \in SUBSET (1..Len(in.args))
         /\ FlagSet(in.args, o) \subseteq Reached(in.args)
         /\ \A i \in FlagSet(in.args, o) : in.args[i].opt = o
PROOF
<1>1. Len(in.args) \in Nat /\ DOMAIN in.args = 1..Len(in.args)
  <2> DEFINE X == [opt : STRING, val : STRING, joined : BOOLEAN]
  <2>1. in.args \in Seq(X)
    BY DEF SurroundingOK
  <2> HIDE DEF X
  <2> QED
    BY <2>1
<1> QED
  BY <1>1 DEF FlagSet, Reached

\* The last of several flags is the one that counts: FlagSays is what ParseArgs
\* takes.
LEMMA LastFlagSays ==
  ASSUME NEW p \in Programs, NEW o, SurroundingOK(input[p])
  PROVE  FlagSays(p, o) = IF FlagSet(input[p].args, o) = {} THEN {}
                          ELSE {ArgValue(input[p].args[Max(FlagSet(input[p].args, o))])}
PROOF
<1> DEFINE args == input[p].args
           S == FlagSet(args, o)
<1>1. S \in SUBSET (1..Len(args)) /\ Len(args) \in Nat
  BY FlagsAreArguments
<1>2. CASE S = {}
  BY <1>2 DEF FlagSays
<1>3. CASE S # {}
  <2>1. Max(S) \in S /\ \A i \in S : Max(S) >= i
    <3> HIDE DEF S
    <3> QED
      BY <1>1, <1>3, MaxIsLast
  <2>2. {j \in S : \A k \in S : j >= k} = {Max(S)}
    <3> HIDE DEF S
    <3> DEFINE m == Max(S)
    <3>1. m \in S /\ \A i \in S : m >= i
      BY <2>1
    <3> HIDE DEF m
    <3>2. \A i \in S : i \in Nat
      BY <1>1
    <3>3. \A j \in S : (\A k \in S : j >= k) => j = m
      BY <3>1, <3>2
    <3>4. {j \in S : \A k \in S : j >= k} = {m}
      BY <3>1, <3>3
    <3> QED
      BY <3>4 DEF m
  <2>3. FlagSays(p, o) = {ArgValue(args[i]) : i \in {Max(S)}}
    BY <2>2 DEF FlagSays
  <2> QED
    BY <1>3, <2>3
<1> QED
  BY <1>2, <1>3

\* One pass over a command line without errors: an option has what its flags say,
\* or what it had, and it is a value of the option.
LEMMA ParseArgsIs ==
  ASSUME NEW p \in Programs, SurroundingOK(input[p]), ~FlagError(p, input[p].args),
         NEW c, DOMAIN c = Options(p), NEW o \in Options(p), Parses(o, c[o])
  PROVE  /\ ParseArgs(input[p].args, c)[o] \in Otherwise(FlagSays(p, o), {c[o]})
         /\ Parses(o, ParseArgs(input[p].args, c)[o])
PROOF
<1> DEFINE args == input[p].args
           S == FlagSet(args, o)
<1>1. ParseArgs(args, c)[o] = IF S = {} THEN c[o] ELSE ArgValue(args[Max(S)])
  BY DEF ParseArgs
<1>2. FlagSays(p, o) = IF S = {} THEN {} ELSE {ArgValue(args[Max(S)])}
  BY LastFlagSays
<1>3. S # {} => Parses(o, ArgValue(args[Max(S)]))
  <2>1. SUFFICES ASSUME S # {} PROVE Parses(o, ArgValue(args[Max(S)]))
    OBVIOUS
  <2>2. /\ Len(args) \in Nat /\ S \in SUBSET (1..Len(args))
        /\ S \subseteq Reached(args) /\ \A i \in S : args[i].opt = o
    BY FlagsAreArguments
  <2>3. Max(S) \in S
    <3> HIDE DEF S, args
    <3> QED
      BY <2>1, <2>2, MaxIsLast
  <2>4. Max(S) \in Reached(args) /\ args[Max(S)].opt = o
    BY <2>2, <2>3
  <2>5. o # "word"
    BY DEF Options
  <2> HIDE DEF S
  <2> QED
    BY <2>4, <2>5 DEF FlagError
<1> QED
  BY <1>1, <1>2, <1>3 DEF Otherwise

\* The path that the first pass finds is the one that the sources name.
LEMMA PathIs ==
  ASSUME NEW p \in Programs, SurroundingOK(input[p]), NEW c, DOMAIN c = Options(p)
  PROVE  \/ PathSaid(p) = {} /\ parseConfigPath(p, c) = ""
         \/ PathSaid(p) = {parseConfigPath(p, c)}
PROOF
<1> DEFINE args == input[p].args
           S == FlagSet(args, "config")
           e == input[p].environ
           named == IF "config" \in DOMAIN e THEN e["config"] ELSE ""
           d == [c EXCEPT !.config = named]
<1>1. "config" \in Options(p)
  BY DEF Options
<1>2. DOMAIN d = DOMAIN c /\ d["config"] = named
  BY <1>1
<1>3. parseConfigPath(p, c) = IF S = {} THEN named ELSE ArgValue(args[Max(S)])
  <2> HIDE DEF S
  <2>1. ParseArgs(args, d)["config"] = IF S = {} THEN named ELSE ArgValue(args[Max(S)])
    BY <1>1, <1>2 DEF ParseArgs, S
  <2> QED
    BY <2>1 DEF parseConfigPath
<1>4. FlagSays(p, "config") = IF S = {} THEN {} ELSE {ArgValue(args[Max(S)])}
  BY LastFlagSays
<1>5. VariableSays(p, "config") = IF "config" \in DOMAIN e THEN {named} ELSE {}
  BY DEF VariableSays
<1> HIDE DEF S, e, args, named, d
<1>6. CASE S = {}
  <2>1. "config" \in DOMAIN e \/ named = ""
    BY DEF named
  <2> QED
    BY <1>3, <1>4, <1>5, <1>6, <2>1 DEF PathSaid, Otherwise
<1>7. CASE S # {}
  BY <1>3, <1>4, <1>7 DEF PathSaid, Otherwise
<1> QED
  BY <1>6, <1>7

\* What the sources say is settled by what the program is started with.
LEMMA SourcesStay ==
  ASSUME UNCHANGED input, NEW p, NEW o
  PROVE  /\ FlagSays(p, o)' = FlagSays(p, o)
         /\ PathSaid(p)' = PathSaid(p)
         /\ FileSays(p, o)' = FileSays(p, o)
         /\ FileOrDefault(p, o)' = FileOrDefault(p, o)
         /\ EnvironmentOrWeaker(p, o)' = EnvironmentOrWeaker(p, o)
         /\ Saying(p, o)' = Saying(p, o)
PROOF
BY DEF FlagSays, VariableSays, PathSaid, FileSays, FileOrDefault, EnvironmentOrWeaker, Saying

\* A program is not disturbed by what the other one does.
LEMMA OtherProgram ==
  ASSUME UNCHANGED input, NEW p, ProgramInv(p), UNCHANGED <<cfg[p], step[p]>>
  PROVE  ProgramInv(p)'
PROOF
<1>1. SurroundingOK(input[p])' /\ OptionsInv(p)' /\ PanicInv(p)'
  BY DEF ProgramInv, SurroundingOK, OptionsInv, PanicInv
<1>2. PathInv(p)'
  BY SourcesStay DEF ProgramInv, PathInv
<1>3. SourcesInv(p)'
  BY SourcesStay DEF ProgramInv, SourcesInv
<1>4. FileIntervalInv(p)'
  BY SourcesStay DEF ProgramInv, FileIntervalInv
<1> QED
  BY <1>1, <1>2, <1>3, <1>4 DEF ProgramInv

\* parseFlags starts from the defaults.
LEMMA ConfigurationInitInv == ConfigurationInit => ConfigInv
PROOF
<1> SUFFICES ASSUME ConfigurationInit PROVE ConfigInv
  OBVIOUS
<1> SUFFICES ASSUME NEW p \in Programs PROVE ProgramInv(p)
  BY DEF ConfigurationInit, ConfigInv
<1>1. cfg[p] = Default(p) /\ step[p] = "path" /\ SurroundingOK(input[p])
  BY InputsAssumption DEF ConfigurationInit
<1>2. \A o \in Options(p) : Parses(o, Default(p)[o])
  BY DEF Parses, Default, Options, Numbers
<1> QED
  BY <1>1, <1>2 DEF ProgramInv, OptionsInv, PathInv, SourcesInv, FileIntervalInv, PanicInv,
                    Steps, PathKnown, FileRead, Parsed, Default

-----------------------------------------------------------------------------
(* The stages *)

\* A stage of one program is checked for that program.
LEMMA OneProgram ==
  ASSUME ConfigInv, NEW p \in Programs, UNCHANGED input,
         NEW c, cfg' = [cfg EXCEPT ![p] = c], NEW s, step' = [step EXCEPT ![p] = s],
         ProgramInv(p)'
  PROVE  ConfigInv'
PROOF
<1>1. /\ cfg' = [q \in Programs |-> cfg'[q]]
      /\ step' = [q \in Programs |-> step'[q]]
  BY DEF ConfigInv
<1>2. ASSUME NEW q \in Programs, q # p PROVE ProgramInv(q)'
  <2>1. UNCHANGED <<cfg[q], step[q]>>
    BY <1>2 DEF ConfigInv
  <2> QED
    BY <2>1, OtherProgram DEF ConfigInv
<1> QED
  BY <1>1, <1>2 DEF ConfigInv

\* A program that gives up has the values it had.
LEMMA GivesUp ==
  ASSUME ConfigInv, NEW p \in Programs, UNCHANGED <<input, cfg>>,
         step' = [step EXCEPT ![p] = "failed"]
  PROVE  ConfigInv'
PROOF
<1>1. ProgramInv(p) /\ step'[p] = "failed" /\ cfg' = [cfg EXCEPT ![p] = cfg[p]]
  BY DEF ConfigInv
<1>2. ProgramInv(p)'
  BY <1>1 DEF ProgramInv, OptionsInv, PathInv, SourcesInv, FileIntervalInv, PanicInv,
              SurroundingOK, Steps, PathKnown, FileRead, Parsed
<1> QED
  BY <1>1, <1>2, OneProgram

\* Without a file that is named and there, no file says anything.
LEMMA NoFileSays ==
  ASSUME NEW p, PathSaid(p) \cap DOMAIN input[p].files = {}, NEW o
  PROVE  FileSays(p, o) = {}
PROOF BY DEF FileSays

\* The first pass: the path is the one that the sources name.
LEMMA FirstPassInv ==
  ASSUME ConfigInv, NEW p \in Programs, FirstPass(p)
  PROVE  ConfigInv'
PROOF
<1> DEFINE path == parseConfigPath(p, cfg[p])
           c == [cfg[p] EXCEPT !.config = path]
           s == IF path # "" THEN "file" ELSE "environment"
<1>1. ProgramInv(p) /\ step[p] = "path" /\ UNCHANGED input
  BY DEF FirstPass, ConfigInv
<1>2. CASE FlagError(p, input[p].args)
  BY <1>1, <1>2, GivesUp DEF FirstPass
<1>3. CASE ~FlagError(p, input[p].args)
  <2>1. cfg' = [cfg EXCEPT ![p] = c] /\ step' = [step EXCEPT ![p] = s]
    BY <1>3 DEF FirstPass
  <2>2. cfg'[p] = c /\ step'[p] = s
    BY <2>1 DEF ConfigInv
  <2>3. cfg[p] = Default(p) /\ DOMAIN cfg[p] = Options(p) /\ SurroundingOK(input[p])
    BY <1>1 DEF ProgramInv, SourcesInv, OptionsInv
  <2>4. \/ PathSaid(p) = {} /\ path = ""
        \/ PathSaid(p) = {path}
    BY <2>3, PathIs
  <2> HIDE DEF path
  <2>5. /\ c = [o \in Options(p) |-> c[o]]
        /\ c["config"] = path
        /\ \A o \in Options(p) \ {"config"} : c[o] = Default(p)[o]
    BY <2>3 DEF Options
  <2>6. \A o \in Options(p) : Parses(o, c[o])
    <3>1. \A o \in Options(p) : Parses(o, Default(p)[o])
      BY <1>1, <2>3 DEF ProgramInv, OptionsInv
    <3> QED
      BY <2>5, <3>1 DEF Parses
  <2> HIDE DEF c
  <2>7. s \in {"file", "environment"} /\ (s = "file" => path # "")
    OBVIOUS
  <2>8. s = "environment" => \A o : FileSays(p, o) = {}
    <3>1. SUFFICES ASSUME path = "" PROVE PathSaid(p) \cap DOMAIN input[p].files = {}
      BY NoFileSays
    <3> QED
      BY <2>3, <2>4, <3>1 DEF SurroundingOK
  <2> HIDE DEF s
  <2>9. OptionsInv(p)'
    BY <1>1, <2>2, <2>5, <2>6, <2>7 DEF OptionsInv, Steps, PathKnown, FileRead
  <2>10. PathInv(p)'
    <3>1. path \in Saying(p, "config")
      BY <2>4 DEF Saying, Otherwise
    <3>2. Saying(p, "config")' = Saying(p, "config")
      BY <1>1, SourcesStay
    <3> QED
      BY <1>1, <1>3, <2>2, <2>5, <3>1, <3>2 DEF PathInv
  <2>11. SourcesInv(p)'
    <3>1. s = "environment" => \A o \in Options(p) : Default(p)[o] \in FileOrDefault(p, o)
      BY <2>8 DEF FileOrDefault, Otherwise
    <3>2. \A o : FileOrDefault(p, o)' = FileOrDefault(p, o)
      BY <1>1, SourcesStay
    <3> QED
      BY <2>2, <2>5, <2>7, <3>1, <3>2 DEF SourcesInv, Parsed
  <2>12. FileIntervalInv(p)'
    <3>1. FileSays(p, "interval")' = FileSays(p, "interval")
      BY <1>1, SourcesStay
    <3> QED
      BY <2>2, <2>7, <2>8, <3>1 DEF FileIntervalInv, FileRead, Parsed
  <2>13. PanicInv(p)' /\ SurroundingOK(input[p])'
    BY <1>1, <2>2, <2>3, <2>7 DEF PanicInv, SurroundingOK
  <2>14. ProgramInv(p)'
    BY <2>9, <2>10, <2>11, <2>12, <2>13 DEF ProgramInv
  <2> QED
    BY <1>1, <2>1, <2>14, OneProgram
<1> QED
  BY <1>2, <1>3

\* The file: its values come over the defaults, its interval only when positive.
LEMMA ApplyFileInv ==
  ASSUME ConfigInv, NEW p \in Programs, ApplyFile(p)
  PROVE  ConfigInv'
PROOF
<1> DEFINE path == cfg[p]["config"]
           file == input[p].files[path]
           c == Override(cfg[p], file)
           ok == /\ path \in DOMAIN input[p].files
                 /\ "interval" \in DOMAIN file => DurationSeconds(file["interval"])
<1>1. ProgramInv(p) /\ step[p] = "file" /\ UNCHANGED input
  BY DEF ApplyFile, ConfigInv
<1>2. CASE ~ok
  BY <1>1, <1>2, GivesUp DEF ApplyFile
<1>3. CASE ok
  <2>1. cfg' = [cfg EXCEPT ![p] = c] /\ step' = [step EXCEPT ![p] = "environment"]
    BY <1>3 DEF ApplyFile
  <2>2. cfg'[p] = c /\ step'[p] = "environment"
    BY <2>1 DEF ConfigInv
  <2>3. /\ SurroundingOK(input[p]) /\ ~FlagError(p, input[p].args)
        /\ DOMAIN cfg[p] = Options(p) /\ path \in Saying(p, "config") /\ path # ""
        /\ \A o \in Options(p) : Parses(o, cfg[p][o])
        /\ \A o \in Options(p) \ {"config"} : cfg[p][o] = Default(p)[o]
    BY <1>1 DEF ProgramInv, SourcesInv, OptionsInv, PathInv, PathKnown
  <2>4. PathSaid(p) = {path}
    BY <2>3, PathIs DEF Saying, Otherwise
  <2>5. \A o : FileSays(p, o) = IF o \in DOMAIN file THEN {file[o]} ELSE {}
    <3>1. PathSaid(p) \cap DOMAIN input[p].files = {path}
      BY <1>3, <2>4
    <3> QED
      BY <3>1 DEF FileSays
  <2>6. /\ c = [o \in Options(p) |-> c[o]]
        /\ \A o \in Options(p) : c[o] = IF o \in DOMAIN file THEN file[o] ELSE cfg[p][o]
    BY <2>3 DEF Override
  <2>7. /\ "config" \notin DOMAIN file
        /\ "restore" \in DOMAIN file => file["restore"] \in {"true", "false"}
        /\ "interval" \in DOMAIN file => file["interval"] \in Positive
    BY <1>3, <2>3 DEF SurroundingOK, DurationSeconds
  <2>8. c["config"] = path /\ "config" \in Options(p)
    BY <2>6, <2>7 DEF Options
  <2> HIDE DEF c, file, path
  <2>9. OptionsInv(p)'
    <3>1. \A o \in Options(p) : Parses(o, c[o])
      BY <2>3, <2>6, <2>7 DEF Parses, Positive
    <3> QED
      BY <1>1, <2>2, <2>6, <3>1 DEF OptionsInv, Steps, PathKnown, FileRead
  <2>10. PathInv(p)'
    <3>1. Saying(p, "config")' = Saying(p, "config")
      BY <1>1, SourcesStay
    <3> QED
      BY <1>1, <2>2, <2>3, <2>8, <3>1 DEF PathInv
  <2>11. SourcesInv(p)'
    <3>1. \A o \in Options(p) \ {"config"} : c[o] \in FileOrDefault(p, o)
      BY <2>3, <2>5, <2>6 DEF FileOrDefault, Otherwise
    <3>2. \A o : FileOrDefault(p, o)' = FileOrDefault(p, o)
      BY <1>1, SourcesStay
    <3> QED
      BY <2>2, <3>1, <3>2 DEF SourcesInv, Parsed
  <2>12. FileIntervalInv(p)'
    <3>1. FileSays(p, "interval")' = FileSays(p, "interval")
      BY <1>1, SourcesStay
    <3> QED
      BY <2>2, <2>5, <2>7, <3>1 DEF FileIntervalInv
  <2>13. PanicInv(p)' /\ SurroundingOK(input[p])'
    BY <1>1, <2>2, <2>3 DEF PanicInv, SurroundingOK
  <2>14. ProgramInv(p)'
    BY <2>9, <2>10, <2>11, <2>12, <2>13 DEF ProgramInv
  <2> QED
    BY <1>1, <2>1, <2>14, OneProgram
<1> QED
  BY <1>2, <1>3

\* The environment: a variable comes over the file unless it is empty, STORE_FILE
\* over both.
LEMMA ApplyEnvironmentInv ==
  ASSUME ConfigInv, NEW p \in Programs, ApplyEnvironment(p)
  PROVE  ConfigInv'
PROOF
<1> DEFINE e == input[p].environ
           values == EnvValues(p)
           over == Override(cfg[p], values)
           stored == p = "server" /\ "STORE_FILE" \in DOMAIN e
           c == IF stored THEN [over EXCEPT !.storagePath = e["STORE_FILE"]] ELSE over
           bad == \E o \in DOMAIN values : ~Parses(o, values[o])
<1>1. ProgramInv(p) /\ step[p] = "environment" /\ UNCHANGED input
  BY DEF ApplyEnvironment, ConfigInv
<1>2. CASE bad
  BY <1>1, <1>2, GivesUp DEF ApplyEnvironment
<1>3. CASE ~bad
  <2>1. cfg' = [cfg EXCEPT ![p] = c] /\ step' = [step EXCEPT ![p] = "flags"]
    BY <1>3 DEF ApplyEnvironment
  <2>2. cfg'[p] = c /\ step'[p] = "flags"
    BY <2>1 DEF ConfigInv
  <2>3. /\ SurroundingOK(input[p]) /\ ~FlagError(p, input[p].args)
        /\ DOMAIN cfg[p] = Options(p) /\ cfg[p]["config"] \in Saying(p, "config")
        /\ \A o \in Options(p) : Parses(o, cfg[p][o])
        /\ \A o \in Options(p) \ {"config"} : cfg[p][o] \in FileOrDefault(p, o)
        /\ FileSays(p, "interval") \subseteq Positive
    BY <1>1 DEF ProgramInv, SourcesInv, OptionsInv, PathInv, FileIntervalInv, PathKnown, FileRead
  <2>4. \A o \in Options(p) :
          /\ o \in DOMAIN values <=> o # "config" /\ o \in DOMAIN e /\ e[o] # ""
          /\ o \in DOMAIN values => values[o] = e[o]
    BY DEF EnvValues
  <2>5. \A o \in Options(p) : over[o] = IF o \in DOMAIN values THEN values[o] ELSE cfg[p][o]
    BY <2>3 DEF Override
  <2>6. DOMAIN over = Options(p)
    BY <2>3 DEF Override
  <2>7. \A o \in Options(p) : Parses(o, over[o])
    BY <1>3, <2>3, <2>5
  <2>8. \A o \in Options(p) \ {"config"} :
          over[o] \in Otherwise(VariableSays(p, o) \ {""}, FileOrDefault(p, o))
    <3>1. SUFFICES ASSUME NEW o \in Options(p) \ {"config"}
                   PROVE  over[o] \in Otherwise(VariableSays(p, o) \ {""}, FileOrDefault(p, o))
      OBVIOUS
    <3>2. VariableSays(p, o) = IF o \in DOMAIN e THEN {e[o]} ELSE {}
      BY DEF VariableSays
    <3>3. CASE o \in DOMAIN values
      BY <2>4, <2>5, <3>1, <3>2, <3>3 DEF Otherwise
    <3>4. CASE o \notin DOMAIN values
      BY <2>3, <2>4, <2>5, <3>1, <3>2, <3>4 DEF Otherwise
    <3> QED
      BY <3>3, <3>4
  <2>9. over["config"] = cfg[p]["config"] /\ "config" \in Options(p)
    BY <2>4, <2>5 DEF Options
  <2> HIDE DEF over, values, bad
  <2>10. /\ c = [o \in Options(p) |-> c[o]]
         /\ \A o \in Options(p) :
              c[o] = IF stored /\ o = "storagePath" THEN e["STORE_FILE"] ELSE over[o]
    <3>0. over = [o \in Options(p) |-> over[o]]
      BY <2>6 DEF over, Override
    <3>1. CASE stored
      <4>1. "storagePath" \in Options(p)
        BY <3>1 DEF Options
      <4> QED
        BY <3>0, <3>1, <4>1
    <3>2. CASE ~stored
      BY <3>0, <3>2
    <3> QED
      BY <3>1, <3>2
  <2>11. VariableSays(p, "STORE_FILE") = IF "STORE_FILE" \in DOMAIN e THEN {e["STORE_FILE"]} ELSE {}
    BY DEF VariableSays
  <2> HIDE DEF c
  <2>12. OptionsInv(p)'
    <3>1. \A o \in Options(p) : Parses(o, c[o])
      BY <2>7, <2>10 DEF Parses
    <3> QED
      BY <1>1, <2>2, <2>10, <3>1 DEF OptionsInv, Steps, PathKnown, FileRead
  <2>13. PathInv(p)'
    <3>1. Saying(p, "config")' = Saying(p, "config")
      BY <1>1, SourcesStay
    <3>2. c["config"] = cfg[p]["config"]
      BY <2>9, <2>10
    <3> QED
      BY <1>1, <2>2, <2>3, <3>1, <3>2 DEF PathInv
  <2>14. SourcesInv(p)'
    <3>1. \A o \in Options(p) \ {"config"} : c[o] \in EnvironmentOrWeaker(p, o)
      BY <2>8, <2>10, <2>11 DEF EnvironmentOrWeaker, Otherwise
    <3>2. \A o : EnvironmentOrWeaker(p, o)' = EnvironmentOrWeaker(p, o)
      BY <1>1, SourcesStay
    <3> QED
      BY <2>2, <3>1, <3>2 DEF SourcesInv, Parsed
  <2>15. FileIntervalInv(p)'
    <3>1. FileSays(p, "interval")' = FileSays(p, "interval")
      BY <1>1, SourcesStay
    <3> QED
      BY <2>2, <2>3, <3>1 DEF FileIntervalInv
  <2>16. PanicInv(p)' /\ SurroundingOK(input[p])'
    BY <1>1, <2>2, <2>3 DEF PanicInv, SurroundingOK
  <2>17. ProgramInv(p)'
    BY <2>12, <2>13, <2>14, <2>15, <2>16 DEF ProgramInv
  <2> QED
    BY <1>1, <2>1, <2>17, OneProgram
<1> QED
  BY <1>2, <1>3

\* The second pass: a flag comes over everything else.
LEMMA SecondPassInv ==
  ASSUME ConfigInv, NEW p \in Programs, SecondPass(p)
  PROVE  ConfigInv'
PROOF
<1> DEFINE d == ParseArgs(input[p].args, cfg[p])
           c == IF p = "agent" THEN [d EXCEPT !.address = WithScheme(@)] ELSE d
<1>1. ProgramInv(p) /\ step[p] = "flags" /\ UNCHANGED input
  BY DEF SecondPass, ConfigInv
<1>2. cfg' = [cfg EXCEPT ![p] = c] /\ step' = [step EXCEPT ![p] = "parsed"]
  BY DEF SecondPass
<1>3. cfg'[p] = c /\ step'[p] = "parsed"
  BY <1>2 DEF ConfigInv
<1>4. /\ SurroundingOK(input[p]) /\ ~FlagError(p, input[p].args)
      /\ DOMAIN cfg[p] = Options(p) /\ cfg[p]["config"] \in Saying(p, "config")
      /\ \A o \in Options(p) : Parses(o, cfg[p][o])
      /\ \A o \in Options(p) \ {"config"} : cfg[p][o] \in EnvironmentOrWeaker(p, o)
      /\ FileSays(p, "interval") \subseteq Positive
  BY <1>1 DEF ProgramInv, SourcesInv, OptionsInv, PathInv, FileIntervalInv, PathKnown, FileRead
<1>5. \A o \in Options(p) : d[o] \in Otherwise(FlagSays(p, o), {cfg[p][o]}) /\ Parses(o, d[o])
  BY <1>4, ParseArgsIs
<1>6. \A o \in Options(p) : d[o] \in Saying(p, o)
  <2>1. SUFFICES ASSUME NEW o \in Options(p) PROVE d[o] \in Saying(p, o)
    OBVIOUS
  <2>2. d[o] \in Otherwise(FlagSays(p, o), {cfg[p][o]})
    BY <1>5
  <2> HIDE DEF d
  <2>3. CASE o = "config"
    BY <1>4, <2>2, <2>3 DEF Saying, PathSaid, Otherwise
  <2>4. CASE o # "config"
    <3>1. cfg[p][o] \in EnvironmentOrWeaker(p, o)
      BY <1>4, <2>4
    <3> QED
      BY <2>2, <2>4, <3>1 DEF Saying, Otherwise
  <2> QED
    BY <2>3, <2>4
<1>7. d = [o \in Options(p) |-> d[o]]
  BY <1>4 DEF ParseArgs
<1> HIDE DEF d
<1>8. /\ c = [o \in Options(p) |-> c[o]]
      /\ \A o \in Options(p) \ {"address"} : c[o] = d[o]
      /\ "config" \in Options(p)
  BY <1>7 DEF Options
<1> HIDE DEF c
<1>9. OptionsInv(p)'
  <2>1. \A o \in Options(p) : Parses(o, c[o])
    BY <1>5, <1>8 DEF Parses
  <2> QED
    BY <1>1, <1>3, <1>8, <2>1 DEF OptionsInv, Steps, PathKnown, FileRead, Parsed
<1>10. PathInv(p)'
  <2>1. Saying(p, "config")' = Saying(p, "config")
    BY <1>1, SourcesStay
  <2>2. c["config"] \in Saying(p, "config")
    BY <1>6, <1>8
  <2> QED
    BY <1>1, <1>3, <1>4, <2>1, <2>2 DEF PathInv
<1>11. SourcesInv(p)'
  <2>1. \A o : Saying(p, o)' = Saying(p, o)
    BY <1>1, SourcesStay
  <2> QED
    BY <1>3, <1>6, <1>8, <2>1 DEF SourcesInv
<1>12. FileIntervalInv(p)'
  <2>1. FileSays(p, "interval")' = FileSays(p, "interval")
    BY <1>1, SourcesStay
  <2> QED
    BY <1>3, <1>4, <2>1 DEF FileIntervalInv
<1>13. PanicInv(p)' /\ SurroundingOK(input[p])'
  BY <1>1, <1>3, <1>4 DEF PanicInv, SurroundingOK
<1>14. ProgramInv(p)'
  BY <1>9, <1>10, <1>11, <1>12, <1>13 DEF ProgramInv
<1> QED
  BY <1>1, <1>2, <1>14, OneProgram

\* The start changes no value; only the agent's tickers panic.
LEMMA StartInv ==
  ASSUME ConfigInv, NEW p \in Programs, Start(p)
  PROVE  ConfigInv'
PROOF
<1>1. ProgramInv(p) /\ step[p] = "parsed" /\ UNCHANGED <<input, cfg>>
  BY DEF Start, ConfigInv
<1>2. PICK s \in {"failed", "panicked", "running"} :
        /\ step' = [step EXCEPT ![p] = s]
        /\ s = "panicked" => p = "agent" /\ cfg[p]["interval"] \notin Positive
  <2> DEFINE refused == \/ cfg[p].cryptoKey \notin KeyPaths \cup {""}
                        \/ p = "server" /\ cfg[p].trustedSubnet = "bad"
             panics == p = "agent" /\ cfg[p].interval \notin Positive
             s == IF refused THEN "failed" ELSE IF panics THEN "panicked" ELSE "running"
  <2>1. step' = [step EXCEPT ![p] = s]
    BY DEF Start
  <2>2. s = "failed" \/ (s = "panicked" /\ panics) \/ s = "running"
    <3> HIDE DEF refused, panics
    <3> QED
      BY DEF s
  <2> QED
    BY <2>1, <2>2
<1>3. cfg' = [cfg EXCEPT ![p] = cfg[p]] /\ UNCHANGED cfg[p] /\ step'[p] = s
  BY <1>1, <1>2 DEF ConfigInv
<1>4. CASE s = "failed"
  BY <1>1, <1>2, <1>4, GivesUp
<1>5. CASE s # "failed"
  <2>1. OptionsInv(p)'
    BY <1>1, <1>3 DEF ProgramInv, OptionsInv, Steps, PathKnown, FileRead, Parsed
  <2>2. \A o : Saying(p, o)' = Saying(p, o) /\ FileSays(p, o)' = FileSays(p, o)
    BY <1>1, SourcesStay
  <2>3. PathInv(p)'
    BY <1>1, <1>3, <2>2 DEF ProgramInv, PathInv, PathKnown, FileRead, Parsed
  <2>4. SourcesInv(p)'
    BY <1>1, <1>3, <2>2 DEF ProgramInv, SourcesInv, Parsed
  <2>5. FileIntervalInv(p)'
    BY <1>1, <1>3, <2>2 DEF ProgramInv, FileIntervalInv, FileRead, Parsed
  <2>6. PanicInv(p)' /\ SurroundingOK(input[p])'
    BY <1>1, <1>2, <1>3 DEF ProgramInv, PanicInv, SurroundingOK
  <2>7. ProgramInv(p)'
    BY <2>1, <2>3, <2>4, <2>5, <2>6 DEF ProgramInv
  <2> QED
    BY <1>1, <1>2, <1>3, <2>7, OneProgram
<1> QED
  BY <1>4, <1>5

-----------------------------------------------------------------------------
(* What follows *)

\* Every stage of parseFlags keeps ConfigInv.
LEMMA parseFlagsInv ==
  ASSUME ConfigInv, NEW p \in Programs, parseFlags(p)
  PROVE  ConfigInv'
PROOF
BY FirstPassInv, ApplyFileInv, ApplyEnvironmentInv, SecondPassInv, StartInv DEF parseFlags

\* Each option of a program that started comes from its strongest source.
LEMMA ConfigInvSources == ConfigInv => StrongestSourceWins
PROOF
<1>1. SUFFICES ASSUME ConfigInv, NEW p \in Programs, step[p] \in {"running", "panicked"},
                      NEW o \in Options(p) \ {"address"}
               PROVE  cfg[p][o] \in Saying(p, o)
  BY DEF StrongestSourceWins
<1>2. PathInv(p) /\ SourcesInv(p)
  BY <1>1 DEF ConfigInv, ProgramInv
<1> QED
  BY <1>1, <1>2 DEF PathInv, SourcesInv, PathKnown, FileRead, Parsed

\* An interval that neither the flags nor the environment give is a file's, which is
\* checked, or the default.
LEMMA ConfigInvPanics == ConfigInv => FilesNeverPanic
PROOF
<1>1. SUFFICES ASSUME ConfigInv, step["agent"] = "panicked",
                      "interval" \notin DOMAIN input["agent"].environ,
                      FlagSet(input["agent"].args, "interval") = {}
               PROVE  FALSE
  BY DEF FilesNeverPanic
<1>2. "agent" \in Programs /\ "interval" \in Options("agent") /\ "interval" # "config"
  BY DEF Programs, Options
<1>3. ProgramInv("agent")
  BY <1>1, <1>2 DEF ConfigInv
<1>4. cfg["agent"]["interval"] \in Saying("agent", "interval")
  BY <1>1, <1>2, <1>3 DEF ProgramInv, SourcesInv, Parsed
<1>5. FlagSays("agent", "interval") = {}
  BY <1>1 DEF FlagSays
<1>6. VariableSays("agent", "interval") = {}
  BY <1>1 DEF VariableSays
<1>7. FileOrDefault("agent", "interval") \subseteq Positive
  <2>1. FileSays("agent", "interval") \subseteq Positive
    BY <1>1, <1>3 DEF ProgramInv, FileIntervalInv, FileRead, Parsed
  <2>2. Default("agent")["interval"] = "2"
    BY <1>2 DEF Default
  <2> QED
    BY <2>1, <2>2 DEF FileOrDefault, Otherwise, Positive, Numbers
<1>8. cfg["agent"]["interval"] \in Positive
  BY <1>4, <1>5, <1>6, <1>7 DEF Saying, EnvironmentOrWeaker, Otherwise
<1> QED
  BY <1>1, <1>3, <1>8 DEF ProgramInv, PanicInv
=============================================================================
