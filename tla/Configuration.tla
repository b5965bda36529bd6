--------------------------- MODULE Configuration ----------------------------
(***************************************************************************)
(* parseFlags of the agent and of the server: defaults, a JSON file, the    *)
(* environment and the command line, each over the one before; then what    *)
(* the start of the program does with the values.                           *)
(*                                                                          *)
(* Values are texts.  An option stands for all that are read the same way:  *)
(* "key" for the plain texts, "interval" for the numbers (-p of the agent,  *)
(* -i of the server); -c and -config set the same variable and are one.     *)
(***************************************************************************)
EXTENDS Integers, Sequences, FiniteSetsExt

CONSTANTS
  KeyPaths,   \* paths of files that hold an RSA key
  Inputs      \* the surroundings a pair of programs may be started in

\* A surrounding gives, for each program, its command line "args", its environment
\* "environ" and the configuration "files"; a name is either set or not.
Programs == {"agent", "server"}

\* No file has an empty path.  A file has no field for its own path, and its field
\* for -r is a boolean (fileConfig of the server).
SurroundingOK(in) ==
  /\ in.args \in Seq([opt : STRING, val : STRING, joined : BOOLEAN])
  /\ "" \notin DOMAIN in.files
  /\ \A f \in DOMAIN in.files :
       /\ "config" \notin DOMAIN in.files[f]
       /\ "restore" \in DOMAIN in.files[f] => in.files[f]["restore"] \in {"true", "false"}

ASSUME InputsAssumption == \A in \in Inputs, p \in Programs : SurroundingOK(in[p])

VARIABLES
  input,  \* what each program is started with
  cfg,    \* FlagConfig of each program
  step    \* where each program is in parseFlags, and what became of it

configVars == <<input, cfg, step>>

Options(p) ==
  {"interval", "key", "cryptoKey", "config"} \cup
  IF p = "agent" THEN {"address"} ELSE {"storagePath", "restore", "trustedSubnet"}

Default(p) ==
  [o \in Options(p) |-> CASE o = "interval"    -> IF p = "agent" THEN "2" ELSE "300"
                          [] o = "address"     -> "localhost"
                          [] o = "storagePath" -> "storage.json"
                          [] o = "restore"     -> "true"
                          [] OTHER             -> ""]

Numbers == {"0", "2", "7", "300"}
Positive == Numbers \ {"0"}

\* Does the text parse as a value of the option?
Parses(o, v) == /\ o = "interval" => v \in Numbers
                /\ o = "restore" => v \in {"true", "false"}

ConfigurationInit ==
  /\ input \in Inputs
  /\ cfg = [p \in Programs |-> Default(p)]
  /\ step = [p \in Programs |-> "path"]

-----------------------------------------------------------------------------
(* The command line.  An argument gives an option its value, in one word     *)
(* (-r=false) or in two (-r false), or is a word that belongs to no flag.    *)

\* Parsing ends at the first word; a boolean flag never takes the next word, so
\* that -r false is -r and a word.
EndsParsing(a) == a.opt = "word" \/ (a.opt = "restore" /\ ~a.joined)

Reached(args) == {i \in DOMAIN args : \A j \in 1..(i - 1) : ~EndsParsing(args[j])}

ArgValue(a) == IF EndsParsing(a) THEN "true" ELSE a.val

\* mutant: a flag's value is taken unparsed
FlagErrorUnknownOnly(p, args) ==
  \E i \in Reached(args) : args[i].opt \notin Options(p) \cup {"word"}

FlagError(p, args) ==
  \E i \in Reached(args) : /\ args[i].opt # "word"
                           /\ \/ args[i].opt \notin Options(p)
                              \/ ~Parses(args[i].opt, ArgValue(args[i]))

\* The last of several flags with the same variable wins.
FlagSet(args, o) == {i \in Reached(args) : args[i].opt = o}
ParseArgs(args, c) ==
  [o \in DOMAIN c |-> IF FlagSet(args, o) = {} THEN c[o]
                                               ELSE ArgValue(args[Max(FlagSet(args, o))])]

\* parseConfigPath: a first pass over the command line, on a copy, with the path
\* of the environment as the default.
parseConfigPath(p, c) ==
  ParseArgs(input[p].args,
            [c EXCEPT !.config = IF "config" \in DOMAIN input[p].environ
                                   THEN input[p].environ["config"] ELSE ""]).config

FirstPass(p) ==
  /\ step[p] = "path"
  /\ IF FlagError(p, input[p].args)
       THEN step' = [step EXCEPT ![p] = "failed"] /\ UNCHANGED cfg
       ELSE LET path == parseConfigPath(p, cfg[p])
            IN  /\ cfg' = [cfg EXCEPT ![p].config = path]
                /\ step' = [step EXCEPT ![p] = IF path # "" THEN "file" ELSE "environment"]
  /\ UNCHANGED input

-----------------------------------------------------------------------------
(* The file and the environment *)

\* Values of the options that are set, over those of c.
Override(c, values) == [o \in DOMAIN c |-> IF o \in DOMAIN values THEN values[o] ELSE c[o]]

\* mutant: a duration of zero passes
DurationSecondsAny(v) == v \in Numbers

\* DurationSeconds: a positive whole number of seconds ("1500ms" is neither).
DurationSeconds(v) == v \in Positive

\* applyFileConfig; ReadJSON fails when the file is missing or is no JSON.
ApplyFile(p) ==
  /\ step[p] = "file"
  /\ LET path == cfg[p].config
         files == input[p].files
     IN  IF /\ path \in DOMAIN files
            /\ "interval" \in DOMAIN files[path] => DurationSeconds(files[path]["interval"])
           THEN /\ cfg' = [cfg EXCEPT ![p] = Override(@, files[path])]
                /\ step' = [step EXCEPT ![p] = "environment"]
           ELSE step' = [step EXCEPT ![p] = "failed"] /\ UNCHANGED cfg
  /\ UNCHANGED input

\* env.Parse leaves a field whose variable is empty; Config has no variable.
EnvValues(p) ==
  LET e == input[p].environ
  IN  [o \in {x \in DOMAIN e : x \in Options(p) \ {"config"} /\ e[x] # ""} |-> e[o]]

\* env.Parse; the server then takes STORE_FILE, set to the empty text or not.
ApplyEnvironment(p) ==
  /\ step[p] = "environment"
  /\ LET values == EnvValues(p)
         e == input[p].environ
     IN  IF \E o \in DOMAIN values : ~Parses(o, values[o])
           THEN step' = [step EXCEPT ![p] = "failed"] /\ UNCHANGED cfg
           ELSE /\ cfg' = [cfg EXCEPT ![p] =
                     IF p = "server" /\ "STORE_FILE" \in DOMAIN e
                       THEN [Override(@, values) EXCEPT !.storagePath = e["STORE_FILE"]]
                       ELSE Override(@, values)]
                /\ step' = [step EXCEPT ![p] = "flags"]
  /\ UNCHANGED input

WithScheme(v) == IF v = "http://host" THEN v ELSE "http://" \o v

\* mutant: the values of the first pass are all there is of the command line
SecondPassMissing(p) ==
  /\ step[p] = "flags"
  /\ cfg' = cfg
  /\ step' = [step EXCEPT ![p] = "parsed"]
  /\ UNCHANGED input

\* The second pass, over the values read so far; it meets no error that the first
\* has not met.  The agent's address gets a scheme.
SecondPass(p) ==
  /\ step[p] = "flags"
  /\ LET c == ParseArgs(input[p].args, cfg[p])
     IN  cfg' = [cfg EXCEPT ![p] = IF p = "agent" THEN [c EXCEPT !.address = WithScheme(@)]
                                                  ELSE c]
  /\ step' = [step EXCEPT ![p] = "parsed"]
  /\ UNCHANGED input

\* RunAgent loads the public key, RunServer parses the subnet and loads the private
\* key.  Then the agent's tickers start, where time.NewTicker panics unless the
\* interval is positive; the server starts its ticker only when it is.  The panic of
\* NewPool's make for a rate limit below zero, which no source is checked for, is
\* left out: the rate limit is not among the options.
Start(p) ==
  /\ step[p] = "parsed"
  /\ step' = [step EXCEPT ![p] =
       IF \/ cfg[p].cryptoKey \notin KeyPaths \cup {""}
          \/ p = "server" /\ cfg[p].trustedSubnet = "bad"        THEN "failed"
       ELSE IF p = "agent" /\ cfg[p].interval \notin Positive     THEN "panicked"
       ELSE "running"]
  /\ UNCHANGED <<input, cfg>>

parseFlags(p) ==
  FirstPass(p) \/ ApplyFile(p) \/ ApplyEnvironment(p) \/ SecondPass(p) \/ Start(p)

-----------------------------------------------------------------------------
(* Properties *)

\* What the flags up to the first word say about an option, the last of them: at
\* most one value.
FlagSays(p, o) ==
  {ArgValue(input[p].args[i]) : i \in {j \in FlagSet(input[p].args, o) :
                                        \A k \in FlagSet(input[p].args, o) : j >= k}}

\* What a variable of the environment says, the empty text included.
VariableSays(p, n) == {input[p].environ[x] : x \in {n} \cap DOMAIN input[p].environ}

Otherwise(S, T) == IF S # {} THEN S ELSE T

\* The configuration file is the one that the flag -c or else CONFIG names.
PathSaid(p) == Otherwise(FlagSays(p, "config"), VariableSays(p, "config"))

FileSays(p, o) ==
  UNION {{input[p].files[f][x] : x \in {o} \cap DOMAIN input[p].files[f]} :
          f \in PathSaid(p) \cap DOMAIN input[p].files}

FileOrDefault(p, o) == Otherwise(FileSays(p, o), {Default(p)[o]})

\* STORE_FILE counts even when it is empty, the other variables unless empty.
EnvironmentOrWeaker(p, o) ==
  Otherwise(IF p = "server" /\ o = "storagePath" THEN VariableSays(p, "STORE_FILE") ELSE {},
            Otherwise(VariableSays(p, o) \ {""}, FileOrDefault(p, o)))

\* What the strongest source that says anything about an option says.
Saying(p, o) ==
  IF o = "config" THEN Otherwise(PathSaid(p), {""})
                  ELSE Otherwise(FlagSays(p, o), EnvironmentOrWeaker(p, o))

\* A program that runs has each option from its strongest source, and has read the
\* file that its final configuration names, although the path is parsed in a pass
\* of its own before anything else.
StrongestSourceWins ==
  \A p \in Programs : step[p] \in {"running", "panicked"} =>
    \A o \in Options(p) \ {"address"} : cfg[p][o] \in Saying(p, o)

\* No file makes the agent's tickers panic: when they do, a flag or the environment
\* asked for the interval, which only files are checked for.  It is about intervals
\* only: a file may ask for a rate limit below zero, on which NewPool panics.
FilesNeverPanic ==
  step["agent"] = "panicked" =>
    \/ "interval" \in DOMAIN input["agent"].environ
    \/ FlagSet(input["agent"].args, "interval") # {}

-----------------------------------------------------------------------------
(* What parseFlags keeps: the options have the values of the sources that    *)
(* have been read, and nothing is left of the path's own pass but the path.  *)

\* The steps from each stage on, up to where the program gives up.
Parsed == {"parsed", "running", "panicked"}
FileRead == {"environment", "flags"} \cup Parsed
PathKnown == {"file"} \cup FileRead
Steps == {"path", "failed"} \cup PathKnown

PathInv(p) ==
  step[p] \in PathKnown =>
    /\ ~FlagError(p, input[p].args)
    /\ cfg[p]["config"] \in Saying(p, "config")

SourcesInv(p) ==
  /\ step[p] = "path" => cfg[p] = Default(p)
  /\ step[p] = "file" => cfg[p]["config"] # ""
  /\ \A o \in Options(p) \ {"config"} :
       /\ step[p] = "file"        => cfg[p][o] = Default(p)[o]
       /\ step[p] = "environment" => cfg[p][o] \in FileOrDefault(p, o)
       /\ step[p] = "flags"       => cfg[p][o] \in EnvironmentOrWeaker(p, o)
       /\ step[p] \in Parsed /\ o # "address" => cfg[p][o] \in Saying(p, o)

\* A file that is taken gives the interval a positive value or none.
FileIntervalInv(p) == step[p] \in FileRead => FileSays(p, "interval") \subseteq Positive

PanicInv(p) == step[p] = "panicked" => p = "agent" /\ cfg[p]["interval"] \notin Positive

OptionsInv(p) ==
  /\ cfg[p] = [o \in Options(p) |-> cfg[p][o]]
  /\ \A o \in Options(p) : Parses(o, cfg[p][o])
  /\ step[p] \in Steps

ProgramInv(p) ==
  SurroundingOK(input[p]) /\ OptionsInv(p) /\ PathInv(p) /\ SourcesInv(p)
                          /\ FileIntervalInv(p) /\ PanicInv(p)

ConfigInv ==
  /\ cfg = [p \in Programs |-> cfg[p]]
  /\ step = [p \in Programs |-> step[p]]
  /\ \A p \in Programs : ProgramInv(p)
=============================================================================
