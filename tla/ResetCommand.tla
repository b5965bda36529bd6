---------------------------- MODULE ResetCommand ----------------------------
(***************************************************************************)
(* The command reset, run again and again on a module under development.    *)
(*                                                                          *)
(* A run loads the module with every reset.gen.go replaced by its package   *)
(* clause, and writes a file for each package with a marked struct, through *)
(* a temporary file that it renames.                                        *)
(***************************************************************************)
EXTENDS Naturals, Sequences

CONSTANTS
  Packages,  \* the packages of the module, a sequence in the order of their directories
  Structs    \* the structs of a package

PackageSet == {Packages[n] : n \in DOMAIN Packages}

ASSUME PackagesAssumption == Packages \in Seq(PackageSet)

VARIABLES
  marks,     \* source: the structs of each package that are marked
  uses,      \* source: is a generated Reset of the package used by other code?
  gen,       \* reset.gen.go of each package: absent, cut off, or the structs it covers
  left,      \* packages with a temporary file in their directory
  pc,        \* where the command is
  todo,      \* packages that are still to be generated
  before,    \* history: gen at the start of the run
  outcome    \* how the last run ended: "none" since an edit, "ok", "error" or "crash"

sourceVars == <<marks, uses>>
commandVars == <<marks, uses, gen, left, pc, todo, before, outcome>>

Absent == [there |-> FALSE, whole |-> TRUE, structs |-> {}]
CutOff == [there |-> TRUE, whole |-> FALSE, structs |-> {}]
File(S) == [there |-> TRUE, whole |-> TRUE, structs |-> S]

CommandInit ==
  /\ marks = [p \in PackageSet |-> {}]
  /\ uses = [p \in PackageSet |-> FALSE]
  /\ gen = [p \in PackageSet |-> Absent]
  /\ left = {} /\ pc = "edit" /\ todo = {}
  /\ before = gen /\ outcome = "none"

-----------------------------------------------------------------------------
(* Development *)

\* A struct gets or loses its comment, or code starts or stops to use a Reset that
\* was generated.
Edit ==
  /\ pc = "edit"
  /\ \E p \in PackageSet :
       \/ \E S \in SUBSET Structs : marks' = [marks EXCEPT ![p] = S] /\ UNCHANGED uses
       \/ /\ uses[p] \/ gen[p].structs # {}
          /\ uses' = [uses EXCEPT ![p] = ~@] /\ UNCHANGED marks
  /\ outcome' = "none"
  /\ UNCHANGED <<gen, left, pc, todo, before>>

-----------------------------------------------------------------------------
(* run *)

StartRun ==
  /\ pc = "edit"
  /\ pc' = "load"
  /\ before' = gen
  /\ UNCHANGED <<sourceVars, gen, left, todo, outcome>>

Ends(how) == pc' = "edit" /\ outcome' = how

\* mutant: the packages are loaded with the files that were generated before
ResolvesWithGenerated == \A p \in PackageSet : uses[p] => gen[p].structs # {}

\* Does every use of a Reset resolve?  The overlay hides all generated methods.
UsesResolve == \A p \in PackageSet : ~uses[p]

\* findResetStructs: the packages with a marked struct; the others are left as they
\* are.
findResetStructs == {p \in PackageSet : marks[p] # {}}

\* The packages are generated in the order of their directories.
Current ==
  Packages[CHOOSE n \in DOMAIN Packages :
             /\ Packages[n] \in todo
             /\ \A m \in DOMAIN Packages : Packages[m] \in todo => n <= m]

\* mutant: the list of packages may be empty
LoadWithoutMarks ==
  /\ pc = "load"
  /\ UsesResolve /\ todo' = findResetStructs /\ pc' = "generate"
  /\ UNCHANGED <<sourceVars, outcome, gen, left, before>>

\* generatedFilesOverlay, packages.Load and findResetStructs: any package error ends
\* the run, as does a mark on something that is no struct.
Load ==
  /\ pc = "load"
  /\ \/ /\ UsesResolve /\ todo' = findResetStructs
        /\ IF findResetStructs = {} THEN Ends("ok") ELSE pc' = "generate" /\ UNCHANGED outcome
     \/ Ends("error") /\ UNCHANGED todo
  /\ UNCHANGED <<sourceVars, gen, left, before>>

\* generatePackage and the start of writeFile; either may fail.
GeneratePackage ==
  /\ pc = "generate"
  /\ \/ pc' = "write" /\ left' = left \cup {Current} /\ UNCHANGED outcome
     \/ Ends("error") /\ UNCHANGED left
  /\ UNCHANGED <<sourceVars, gen, todo, before>>

\* mutant: the content is written into the file itself
WriteInPlace ==
  /\ pc = "write"
  /\ gen' = [gen EXCEPT ![Current] = CutOff]
  /\ pc' = "rename"
  /\ UNCHANGED <<sourceVars, left, todo, before, outcome>>

\* The temporary file is written, given its mode and closed; an error of one of them
\* removes it.
WriteTemporary ==
  /\ pc = "write"
  /\ \/ pc' = "rename" /\ UNCHANGED <<left, outcome>>
     \/ Ends("error") /\ left' = left \ {Current}
  /\ UNCHANGED <<sourceVars, gen, todo, before>>

\* mutant: the run ends with the first package
RenameFirstOnly ==
  /\ pc = "rename"
  /\ gen' = [gen EXCEPT ![Current] = File(marks[Current])]
  /\ left' = left \ {Current}
  /\ todo' = todo \ {Current}
  /\ Ends("ok")
  /\ UNCHANGED <<sourceVars, before>>

\* The temporary file replaces the old one; the run goes on with the next package.
Rename ==
  /\ pc = "rename"
  /\ left' = left \ {Current}
  /\ \/ /\ gen' = [gen EXCEPT ![Current] = File(marks[Current])]
        /\ todo' = todo \ {Current}
        /\ IF todo' = {} THEN Ends("ok") ELSE pc' = "generate" /\ UNCHANGED outcome
     \/ Ends("error") /\ UNCHANGED <<gen, todo>>
  /\ UNCHANGED <<sourceVars, before>>

\* The command is killed: its temporary file stays, with a name that Go ignores.
Crash ==
  /\ pc # "edit"
  /\ Ends("crash")
  /\ UNCHANGED <<sourceVars, gen, left, todo, before>>

run == StartRun \/ Load \/ GeneratePackage \/ WriteTemporary \/ Rename \/ Crash

CommandNext == Edit \/ run

CommandSpec == CommandInit /\ [][CommandNext]_commandVars

-----------------------------------------------------------------------------
(* Properties *)

\* Every variable keeps its type.
TypeOK ==
  /\ marks \in [PackageSet -> SUBSET Structs] /\ uses \in [PackageSet -> BOOLEAN]
  /\ {gen, before} \subseteq
       [PackageSet -> {Absent, CutOff} \cup {File(S) : S \in SUBSET Structs}]
  /\ left \subseteq PackageSet /\ todo \subseteq PackageSet
  /\ pc \in {"edit", "load", "generate", "write", "rename"}
  /\ outcome \in {"none", "ok", "error", "crash"}

\* Whenever the command is killed or fails, each package has the generated file it
\* had before or a whole new one for the marks of the moment: the packages that were
\* written first may be newer than the others, none is cut off.
FilesOldOrNew ==
  /\ \A p \in PackageSet : gen[p].whole
  /\ pc # "edit" \/ outcome \in {"error", "crash"} =>
       \A p \in PackageSet : gen[p] \in {before[p], File(marks[p])}

\* What a run without an error makes of the file of p.
Generated(p) == IF marks[p] # {} THEN File(marks[p]) ELSE before[p]

\* After a run without an error every package that has marks has the methods of
\* exactly the structs that are marked; a package that lost its last mark keeps
\* its old file.
SuccessIsCurrent ==
  outcome = "ok" => \A p \in PackageSet : gen[p] = Generated(p)

\* As long as any code uses a Reset that was generated, no run changes a file: the
\* overlay hides the method from the code that uses it.
UseStopsGeneration == [][(\E p \in PackageSet : uses[p]) => UNCHANGED gen]_commandVars

-----------------------------------------------------------------------------
(* The inductive invariant *)

\* While packages are generated no use of a Reset is left in the source, and just
\* the packages of the list, all of them marked, have their old files.
LoopInv ==
  pc \in {"generate", "write", "rename"} =>
    /\ UsesResolve
    /\ todo # {} /\ todo \subseteq findResetStructs
    /\ \A p \in PackageSet : gen[p] = IF p \in todo THEN before[p] ELSE Generated(p)

\* A run that follows a success without an edit finds every file as it will write it.
AgainInv ==
  pc # "edit" /\ outcome = "ok" => \A p \in PackageSet : before[p] = Generated(p)

\* The invariant that the command's steps keep, with all that is checked of its states.
CommandInv ==
  /\ TypeOK /\ FilesOldOrNew /\ SuccessIsCurrent /\ LoopInv /\ AgainInv
  /\ \A p \in PackageSet : before[p].whole
  /\ pc = "load" => gen = before
=============================================================================
