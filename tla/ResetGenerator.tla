--------------------------- MODULE ResetGenerator ---------------------------
(***************************************************************************)
(* A module under development with the command reset, and the object pool   *)
(* of a program built with what the command generated.                      *)
(***************************************************************************)
EXTENDS ResetCommand, ResetCode, SequencesExt

CONSTANTS
  Shapes,    \* field types of the struct whose objects the program pools
  MaxPooled  \* bound: objects in the pool

ASSUME ShapesAssumption == Shapes \subseteq Seq(Types)

VARIABLES
  fields,    \* the fields of the pooled struct, none before the program is built
  pool,      \* sync.Pool
  held,      \* the objects the program has taken: at most one, nil or a struct
  panicked   \* the program has panicked in Put

poolVars == <<fields, pool, held, panicked>>
vars == <<commandVars, poolVars>>

Init ==
  /\ CommandInit
  /\ fields = <<>> /\ pool = <<>> /\ held = {} /\ panicked = FALSE

\* Development ends when the program is built.
Develop == fields = <<>> /\ CommandNext /\ UNCHANGED poolVars

-----------------------------------------------------------------------------
(* The program: a Pool of pointers to a marked struct.  An object is held as *)
(* <<obj>>, the nil pointer as <<>>.                                         *)

\* The program is built when all generated files are current and compile.
Build ==
  /\ fields = <<>> /\ pc = "edit"
  /\ outcome = "ok" /\ \A p \in PackageSet : gen[p].structs = marks[p]
  /\ \E p \in PackageSet : marks[p] # {}
  /\ \E shape \in Shapes : (\A f \in DOMAIN shape : Compiles(ResetMethod(shape)[f])) /\ fields' = shape
  /\ UNCHANGED <<commandVars, pool, held, panicked>>

Fresh == <<[f \in DOMAIN fields |-> Zero(fields[f])]>>

\* Pool.Get: any object of the pool, or what newFunc makes (without one, nil).
Get ==
  /\ fields # <<>> /\ held = {} /\ ~panicked
  /\ \/ \E n \in DOMAIN pool : held' = {pool[n]} /\ pool' = RemoveAt(pool, n)
     \/ held' \in {{Fresh}, {<<>>}} /\ UNCHANGED pool
  /\ UNCHANGED <<commandVars, fields, panicked>>

\* The program works on an object.
Fill ==
  /\ \E x \in held : x # <<>>
  /\ \E obj \in Objects(fields) : held' = {<<obj>>}
  /\ UNCHANGED <<commandVars, fields, pool, panicked>>

\* mutant: objects come back as they are
PutUnreset ==
  /\ held # {} /\ Len(pool) < MaxPooled
  /\ \E x \in held : pool' = Append(pool, x)
  /\ held' = {}
  /\ UNCHANGED <<commandVars, fields, panicked>>

\* Pool.Put: the object is reset, unless it is nil, and returned; a panic of Reset
\* leaves the pool as it is.
Put ==
  /\ held # {} /\ Len(pool) < MaxPooled
  /\ \E x \in held :
       LET done == IF x = <<>> THEN [panics |-> FALSE, obj |-> <<>>] ELSE Reset(fields, x[1])
       IN  /\ panicked' = done.panics
           /\ pool' = IF done.panics THEN pool
                      ELSE Append(pool, IF x = <<>> THEN x ELSE <<done.obj>>)
  /\ held' = {}
  /\ UNCHANGED <<commandVars, fields>>

\* The garbage collector drops objects of the pool.
Collect ==
  /\ \E n \in DOMAIN pool : pool' = RemoveAt(pool, n)
  /\ UNCHANGED <<commandVars, fields, held, panicked>>

Next == Develop \/ Build \/ Get \/ Fill \/ Put \/ Collect

Spec == Init /\ [][Next]_vars

-----------------------------------------------------------------------------
(* Properties *)

\* An object that the pool hands out again was cleared but for its plain structs and
\* for arrays inside of arrays, whose loops share one variable; only such an array that
\* is longer than the one around it, or behind a pointer in it, panics.
PooledIsClean ==
  /\ \A n \in DOMAIN pool : pool[n] = <<>> \/ CleanObject(fields, pool[n][1])
  /\ panicked => MayPanic(fields)

-----------------------------------------------------------------------------
(* The inductive invariant *)

\* What a pointer to the struct holds: nil, or an object of its fields, in which no
\* place is behind a nil pointer.
Holds(x) ==
  \/ x = <<>>
  \/ /\ x = <<[f \in DOMAIN fields |-> x[1][f]]>>
     /\ \A f \in DOMAIN fields : x[1][f] \in Values(fields[f])

\* The program only has objects of the struct it was built with, and none before.
PoolTypeOK ==
  /\ fields \in Shapes \cup {<<>>}
  /\ pool \in Seq(Range(pool))
  /\ \A n \in DOMAIN pool : Holds(pool[n])
  /\ \A x \in held : Holds(x)
  /\ panicked \in BOOLEAN
  /\ fields = <<>> => pool = <<>> /\ held = {} /\ ~panicked

\* The invariant that development and the program keep.
GeneratorInv == CommandInv /\ PoolTypeOK /\ PooledIsClean
=============================================================================
