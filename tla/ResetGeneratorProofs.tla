------------------------- MODULE ResetGeneratorProofs -------------------------
(***************************************************************************)
(* Proofs about ResetGenerator: the files that a run of the command leaves  *)
(* behind, however it ends, for every module and every sequence of edits;   *)
(* and the objects of the pool, for every struct and every use of it.       *)
(***************************************************************************)
EXTENDS ResetGenerator, SequenceTheorems, WellFoundedInduction, TLAPS

\* A set of numbers that is not empty has a least one.
LEMMA LeastExists ==
  ASSUME NEW T, T \subseteq Nat, T # {}
  PROVE  \E n \in T : \A m \in T : n <= m
<1> DEFINE R == OpToRel(<, Nat)
<1> HIDE DEF R
<1>1. IsWellFoundedOn(R, Nat)
  BY NatLessThanWellFounded DEF R
<1>2. PICK n \in T : \A m \in T : ~(<<m, n>> \in R)
  BY <1>1, WFMin
<1>3. ASSUME NEW m \in T, m < n PROVE FALSE
  <2>1. <<m, n>> \in R
    BY <1>3 DEF OpToRel, R
  <2> QED  BY <1>2, <2>1
<1> QED  BY <1>3

\* The package in the command's hands is one of its list.
LEMMA CurrentIsListed ==
  ASSUME TypeOK, todo # {}
  PROVE  Current \in todo /\ Current \in PackageSet
<1> DEFINE Listed == {n \in DOMAIN Packages : Packages[n] \in todo}
<1>1. Listed \subseteq Nat /\ Listed # {}
  BY PackagesAssumption DEF TypeOK, PackageSet
<1> HIDE DEF Listed
<1>2. \E n \in Listed : \A m \in Listed : n <= m
  BY <1>1, LeastExists
<1>3. \E k \in DOMAIN Packages :
        Packages[k] \in todo /\ \A m \in DOMAIN Packages : Packages[m] \in todo => k <= m
  BY <1>2 DEF Listed
<1> QED  BY <1>3 DEF Current, TypeOK

\* The two kinds of files of which gen and before are made are told apart.
LEMMA FilesAreWhole ==
  Absent.whole /\ ~CutOff.whole /\ \A S : File(S).whole
BY DEF Absent, CutOff, File

LEMMA InitCommand == CommandInit => CommandInv
BY DEF CommandInit, CommandInv, TypeOK, FilesOldOrNew, SuccessIsCurrent, LoopInv, AgainInv,
       Absent, CutOff

\* An edit changes no file, and the outcome of the last run is forgotten.
LEMMA EditKeeps == CommandInv /\ Edit => CommandInv'
<1> SUFFICES ASSUME CommandInv, Edit PROVE CommandInv'
  OBVIOUS
<1>1. marks' \in [PackageSet -> SUBSET Structs] /\ uses' \in [PackageSet -> BOOLEAN]
  BY DEF Edit, CommandInv, TypeOK
<1>2. /\ pc' = "edit" /\ outcome' = "none" /\ gen' = gen /\ before' = before
      /\ left' = left /\ todo' = todo
  BY DEF Edit
<1> QED  BY <1>1, <1>2 DEF CommandInv, TypeOK, FilesOldOrNew, SuccessIsCurrent, LoopInv, AgainInv

\* A run starts with the files as they are.
LEMMA StartKeeps == CommandInv /\ StartRun => CommandInv'
<1> SUFFICES ASSUME CommandInv, StartRun PROVE CommandInv'
  OBVIOUS
<1>1. /\ pc' = "load" /\ before' = gen /\ UNCHANGED <<marks, uses, gen, left, todo, outcome>>
  BY DEF StartRun, sourceVars
<1>2. outcome = "ok" => \A p \in PackageSet : gen'[p] = Generated(p)'
  BY <1>1 DEF CommandInv, SuccessIsCurrent, Generated
<1> QED
  BY <1>1, <1>2 DEF CommandInv, TypeOK, FilesOldOrNew, SuccessIsCurrent, LoopInv, AgainInv

\* A run ends without a change of the files: after loading, or with an error or a
\* crash at any time.
LEMMA EndKeeps ==
  ASSUME CommandInv, pc # "edit", NEW how \in {"error", "crash"}, Ends(how),
         UNCHANGED <<marks, uses, gen, todo, before>>, left' \subseteq PackageSet
  PROVE  CommandInv'
BY DEF CommandInv, TypeOK, FilesOldOrNew, SuccessIsCurrent, LoopInv, AgainInv, Ends

\* The list holds the marked packages; without one there is nothing to do.
LEMMA LoadKeeps == CommandInv /\ Load => CommandInv'
<1> SUFFICES ASSUME CommandInv, Load PROVE CommandInv'
  OBVIOUS
<1>1. /\ pc = "load" /\ gen = before
      /\ UNCHANGED <<marks, uses, gen, left, before>>
  BY DEF Load, CommandInv, sourceVars
<1>2. ASSUME UsesResolve, todo' = findResetStructs, findResetStructs = {}, Ends("ok")
      PROVE  CommandInv'
  <2>1. \A p \in PackageSet : marks[p] = {}
    BY <1>2 DEF findResetStructs
  <2>2. SuccessIsCurrent'
    BY <1>1, <2>1 DEF SuccessIsCurrent, Generated
  <2>3. pc' = "edit" /\ outcome' = "ok" /\ todo' = {}
    BY <1>2 DEF Ends
  <2> QED  BY <1>1, <2>2, <2>3 DEF CommandInv, TypeOK, FilesOldOrNew, LoopInv, AgainInv
<1>3. ASSUME UsesResolve, todo' = findResetStructs, findResetStructs # {},
             pc' = "generate", UNCHANGED outcome
      PROVE  CommandInv'
  <2>1. findResetStructs' = findResetStructs /\ UsesResolve' /\ todo' \subseteq PackageSet
    BY <1>1, <1>3 DEF findResetStructs, UsesResolve
  <2>2. \A p \in PackageSet : gen'[p] = IF p \in todo' THEN before'[p] ELSE Generated(p)'
    BY <1>1, <1>3 DEF findResetStructs, Generated
  <2>3. SuccessIsCurrent' /\ AgainInv'
    BY <1>1, <1>3 DEF CommandInv, SuccessIsCurrent, AgainInv, Generated
  <2>4. FilesOldOrNew' /\ LoopInv'
    BY <1>1, <1>3, <2>1, <2>2 DEF CommandInv, FilesOldOrNew, LoopInv
  <2> QED  BY <1>1, <1>3, <2>1, <2>3, <2>4 DEF CommandInv, TypeOK
<1>4. ASSUME Ends("error"), UNCHANGED todo PROVE CommandInv'
  BY <1>1, <1>4, EndKeeps DEF CommandInv, TypeOK
<1> QED  BY <1>2, <1>3, <1>4 DEF Load

\* Until the rename the new file is in the temporary one only.
LEMMA WriteKeeps == CommandInv /\ (GeneratePackage \/ WriteTemporary) => CommandInv'
<1> SUFFICES ASSUME CommandInv, GeneratePackage \/ WriteTemporary PROVE CommandInv'
  OBVIOUS
<1>1. /\ pc \in {"generate", "write"} /\ UNCHANGED <<marks, uses, gen, todo, before>>
  BY DEF GeneratePackage, WriteTemporary, sourceVars
<1>2. Current \in PackageSet
  BY <1>1, CurrentIsListed DEF CommandInv, LoopInv
<1>3. left' \subseteq PackageSet
  BY <1>2 DEF GeneratePackage, WriteTemporary, CommandInv, TypeOK
<1>4. CASE Ends("error")
  BY <1>1, <1>3, <1>4, EndKeeps
<1>5. CASE pc' \in {"write", "rename"} /\ UNCHANGED outcome
  BY <1>1, <1>3, <1>5
  DEF CommandInv, TypeOK, FilesOldOrNew, SuccessIsCurrent, LoopInv, AgainInv,
      Generated, UsesResolve, findResetStructs
<1> QED  BY <1>4, <1>5 DEF GeneratePackage, WriteTemporary

\* The rename replaces the old file of the current package by the whole new one.
LEMMA RenameKeeps == CommandInv /\ Rename => CommandInv'
<1> SUFFICES ASSUME CommandInv, Rename PROVE CommandInv'
  OBVIOUS
<1>1. /\ pc = "rename" /\ left' = left \ {Current} /\ UNCHANGED <<marks, uses, before>>
  BY DEF Rename, sourceVars
<1>2. /\ Current \in todo /\ Current \in PackageSet
      /\ marks[Current] # {} /\ marks[Current] \in SUBSET Structs
  BY <1>1, CurrentIsListed DEF CommandInv, LoopInv, TypeOK, findResetStructs
<1>3. left' \subseteq PackageSet
  BY <1>1 DEF CommandInv, TypeOK
<1>4. CASE Ends("error") /\ UNCHANGED <<gen, todo>>
  BY <1>1, <1>3, <1>4, EndKeeps
<1>5. ASSUME gen' = [gen EXCEPT ![Current] = File(marks[Current])], todo' = todo \ {Current},
             IF todo' = {} THEN Ends("ok") ELSE pc' = "generate" /\ UNCHANGED outcome
      PROVE  CommandInv'
  <2> DEFINE Files == {Absent, CutOff} \cup {File(S) : S \in SUBSET Structs}
  <2>1. gen' \in [PackageSet -> Files]
    <3>1. File(marks[Current]) \in Files
      BY <1>2
    <3>2. gen \in [PackageSet -> Files]
      BY DEF CommandInv, TypeOK
    <3> HIDE DEF Files
    <3> QED  BY <1>2, <1>5, <3>1, <3>2
  <2>2. /\ gen'[Current] = File(marks[Current])
        /\ \A p \in PackageSet : p # Current => gen'[p] = gen[p]
    BY <1>2, <1>5 DEF CommandInv, TypeOK
  <2>3. UsesResolve' /\ findResetStructs' = findResetStructs
        /\ \A p \in PackageSet : Generated(p)' = Generated(p)
    BY <1>1 DEF CommandInv, LoopInv, UsesResolve, findResetStructs, Generated
  <2>4. \A p \in PackageSet : gen'[p] = IF p \in todo' THEN before[p] ELSE Generated(p)
    BY <1>1, <1>2, <1>5, <2>2 DEF CommandInv, LoopInv, Generated
  <2>5. \A p \in PackageSet : gen'[p] \in {before[p], File(marks[p])} /\ gen'[p].whole
    BY <2>4, FilesAreWhole DEF Generated, CommandInv
  <2>6. /\ todo' \subseteq PackageSet /\ todo' \subseteq findResetStructs
        /\ pc' \in {"edit", "generate"} /\ outcome' \in {"none", "ok", "error", "crash"}
        /\ todo' # {} => pc' = "generate" /\ outcome' = outcome
        /\ todo' = {} => pc' = "edit" /\ outcome' = "ok"
    BY <1>1, <1>5 DEF CommandInv, TypeOK, LoopInv, Ends
  <2>7. TypeOK'
    BY <1>1, <1>3, <2>1, <2>6 DEF CommandInv, TypeOK
  <2>8. FilesOldOrNew'
    BY <1>1, <2>5 DEF FilesOldOrNew
  <2>9. SuccessIsCurrent' /\ AgainInv'
    <3>1. todo' # {} /\ outcome = "ok" => \A p \in PackageSet : before[p] = Generated(p)
      BY <1>1 DEF CommandInv, AgainInv
    <3> QED  BY <1>1, <2>3, <2>4, <2>6, <3>1 DEF SuccessIsCurrent, AgainInv
  <2>10. LoopInv'
    BY <1>1, <2>3, <2>4, <2>6 DEF LoopInv
  <2> QED  BY <1>1, <2>6, <2>7, <2>8, <2>9, <2>10 DEF CommandInv
<1> QED  BY <1>4, <1>5 DEF Rename

\* A kill changes nothing but where the command is.
LEMMA CrashKeeps == CommandInv /\ Crash => CommandInv'
BY EndKeeps DEF Crash, CommandInv, TypeOK, sourceVars

\* No step breaks the invariant.
LEMMA StepCommand == CommandInv /\ [CommandNext]_commandVars => CommandInv'
<1>1. CommandInv /\ UNCHANGED commandVars => CommandInv'
  BY DEF commandVars, CommandInv, TypeOK, FilesOldOrNew, SuccessIsCurrent, LoopInv, AgainInv,
         Generated, UsesResolve, findResetStructs
<1> QED
  BY <1>1, EditKeeps, StartKeeps, LoadKeeps, WriteKeeps, RenameKeeps, CrashKeeps
  DEF CommandNext, run

-----------------------------------------------------------------------------
(* The generated code *)

\* A set of numbers below n that is not empty has a greatest one.
LEMMA GreatestExists ==
  ASSUME NEW n \in Nat, NEW T, T \subseteq 1..(n - 1), T # {}
  PROVE  \E m \in T : \A l \in T : l <= m
<1> DEFINE U == {j \in 1..n : n - j \in T}
<1>1. U \subseteq Nat /\ U # {}
  <2>1. PICK m \in T : TRUE
    OBVIOUS
  <2>2. n - m \in 1..n /\ n - (n - m) = m
    BY <2>1
  <2>3. n - m \in U
    BY <2>1, <2>2
  <2>4. U \subseteq Nat
    OBVIOUS
  <2> QED  BY <2>3, <2>4
<1> HIDE DEF U
<1>2. PICK j \in U : \A i \in U : j <= i
  BY <1>1, LeastExists
<1>3. n - j \in T /\ j \in 1..n
  BY <1>2 DEF U
<1>4. ASSUME NEW l \in T PROVE l <= n - j
  <2>1. n - l \in U
    BY <1>4 DEF U
  <2> QED  BY <1>2, <1>3, <2>1
<1> QED  BY <1>3, <1>4

\* The layers of a type are pointers and arrays.
LEMMA LayersOfType ==
  ASSUME NEW t \in Types
  PROVE  /\ Depth(t) \in Nat
         /\ DOMAIN t.layers = 1..Depth(t)
         /\ \A n \in 1..Depth(t) : /\ t.layers[n].length \in Nat
                                   /\ n \in Arrays(t) \/ n \in Pointers(t)
                                   /\ ~(n \in Arrays(t) /\ n \in Pointers(t))
                                   /\ n \in Pointers(t) => t.layers[n].length = 1
<1>1. t.layers \in Seq(Layers)
  BY DEF Types
<1>2. Depth(t) \in Nat /\ DOMAIN t.layers = 1..Depth(t)
  BY <1>1 DEF Depth
<1>3. ASSUME NEW n \in 1..Depth(t)
      PROVE  /\ t.layers[n].length \in Nat
             /\ n \in Arrays(t) \/ n \in Pointers(t)
             /\ ~(n \in Arrays(t) /\ n \in Pointers(t))
             /\ n \in Pointers(t) => t.layers[n].length = 1
  <2>1. t.layers[n] \in Layers
    BY <1>1, <1>2
  <2> QED  BY <1>2, <2>1 DEF Layers, Arrays, Pointers
<1> QED  BY <1>2, <1>3

\* The n-th statement tests the n-th pointer or ranges over the n-th array, and the
\* last clears the leaf.
LEMMA CodeOfType ==
  ASSUME NEW t \in Types
  PROVE  LET code == generateReset(t)
         IN  /\ DOMAIN code = 1..(Depth(t) + IF Clears(t) THEN 1 ELSE 0)
             /\ \A n \in DOMAIN code :
                  /\ code[n].op = "ifNotNil" <=> n \in Pointers(t)
                  /\ code[n].op = "range" <=> n \in Arrays(t)
                  /\ code[n].op = "clear" <=> n = Depth(t) + 1
                  /\ \A m \in 1..(n - 1) : code[n].at[m] = "*" <=> m \in Pointers(t)
<1> DEFINE code == generateReset(t)
<1>1. DOMAIN code = 1..(Depth(t) + IF Clears(t) THEN 1 ELSE 0)
  BY DEF generateReset
<1>2. ASSUME NEW n \in DOMAIN code
      PROVE  /\ code[n].op = "ifNotNil" <=> n \in Pointers(t)
             /\ code[n].op = "range" <=> n \in Arrays(t)
             /\ code[n].op = "clear" <=> n = Depth(t) + 1
             /\ \A m \in 1..(n - 1) : code[n].at[m] = "*" <=> m \in Pointers(t)
  <2>1. /\ code[n].op = CASE n \in Pointers(t) -> "ifNotNil"
                          [] n \in Arrays(t)   -> "range"
                          [] OTHER             -> "clear"
        /\ code[n].at = Expression(t, n)
    BY <1>1 DEF generateReset
  <2>2. n \in 1..Depth(t) \/ n = Depth(t) + 1
    BY <1>1, LayersOfType
  <2>3. n = Depth(t) + 1 => n \notin Pointers(t) /\ n \notin Arrays(t)
    BY LayersOfType DEF Pointers, Arrays
  <2>4. \A m \in 1..(n - 1) : m \in 1..Depth(t)
    BY <2>2, LayersOfType
  <2>5. \A m \in 1..(n - 1) : code[n].at[m] = "*" <=> m \in Pointers(t)
    BY <2>1, <2>4, LayersOfType DEF Expression
  <2>6. n \in 1..Depth(t) => n # Depth(t) + 1
    BY LayersOfType
  <2> HIDE DEF code
  <2>7. CASE n \in 1..Depth(t)
    BY <2>1, <2>5, <2>6, <2>7, LayersOfType
  <2>8. CASE n = Depth(t) + 1
    BY <2>1, <2>3, <2>5, <2>8
  <2> QED  BY <2>2, <2>7, <2>8
<1> QED  BY <1>1, <1>2

\* A place is a sequence of numbers with the length of the layers it leads through, and
\* so is each of its beginnings.
LEMMA PlaceIsSequence ==
  ASSUME NEW t \in Types, NEW n \in 0..Depth(t), NEW p \in Places(t, n)
  PROVE  /\ p \in Seq(Nat) /\ Len(p) = n
         /\ \A m \in 1..(n + 1) : /\ SubSeq(p, 1, m - 1) \in Places(t, m - 1)
                                  /\ Len(SubSeq(p, 1, m - 1)) = m - 1
                                  /\ \A l \in 1..(m - 1) : SubSeq(p, 1, m - 1)[l] = p[l]
<1>1. n \in Nat /\ 0..n \subseteq Nat
  BY LayersOfType
<1>2. Steps(t) \subseteq Nat
  BY LayersOfType DEF Steps
<1>3. p \in [1..n -> Steps(t)] /\ \A m \in 1..n : p[m] \in 1..t.layers[m].length
  BY DEF Places
<1>4. p \in [1..n -> Nat]
  BY <1>2, <1>3
<1>5. p \in Seq(Nat) /\ p \in Seq(Steps(t)) /\ Len(p) = n
  BY <1>1, <1>3, <1>4, LenProperties, SeqDef
<1>6. ASSUME NEW m \in 1..(n + 1)
      PROVE  /\ SubSeq(p, 1, m - 1) \in Places(t, m - 1)
             /\ Len(SubSeq(p, 1, m - 1)) = m - 1
             /\ \A l \in 1..(m - 1) : SubSeq(p, 1, m - 1)[l] = p[l]
  <2> DEFINE q == SubSeq(p, 1, m - 1)
  <2>1. m - 1 \in 0..n /\ m - 1 \in Nat
    BY <1>1
  <2>2. q = [l \in 1..(m - 1) |-> p[l]]
    BY <1>5, <2>1
  <2>3. q \in [1..(m - 1) -> Steps(t)] /\ \A l \in 1..(m - 1) : q[l] = p[l]
    <3>1. \A l \in 1..(m - 1) : p[l] \in Steps(t)
      BY <1>1, <1>3, <2>1
    <3> HIDE DEF q
    <3> QED  BY <2>2, <3>1
  <2>4. Len(q) = m - 1
    BY <1>5, <2>1
  <2> HIDE DEF q
  <2>5. q \in Places(t, m - 1)
    BY <1>1, <1>3, <2>1, <2>3 DEF Places
  <2> QED  BY <2>3, <2>4, <2>5 DEF q
<1> QED  BY <1>5, <1>6

\* The innermost array around a statement is the last one before it.
LEMMA InnermostArray ==
  ASSUME NEW t \in Types, NEW n \in DOMAIN generateReset(t), NEW m \in Arrays(t), m < n
  PROVE  /\ Innermost(generateReset(t), n) \in Arrays(t)
         /\ Innermost(generateReset(t), n) \in 1..(n - 1)
         /\ \A l \in Arrays(t) : l < n => l <= Innermost(generateReset(t), n)
<1> DEFINE code == generateReset(t)
<1>1. n \in Nat /\ \A l \in 1..(n - 1) : l \in DOMAIN code
  BY CodeOfType, LayersOfType
<1>2. Loops(code, n) = {l \in 1..(n - 1) : l \in Arrays(t)}
  BY <1>1, CodeOfType DEF Loops
<1>3. \A l \in Arrays(t) : l < n => l \in 1..(n - 1)
  BY <1>1, LayersOfType DEF Arrays
<1> HIDE DEF code
<1>4. \E j \in Loops(code, n) : \A l \in Loops(code, n) : l <= j
  BY <1>1, <1>2, <1>3, GreatestExists
<1>5. /\ Innermost(code, n) \in Loops(code, n)
      /\ \A l \in Loops(code, n) : l <= Innermost(code, n)
  BY <1>4 DEF Innermost
<1>6. /\ Innermost(code, n) \in Arrays(t) /\ Innermost(code, n) \in 1..(n - 1)
      /\ \A l \in Arrays(t) : l < n => l <= Innermost(code, n)
  BY <1>2, <1>3, <1>5
<1> QED  BY <1>6 DEF code

\* What the expression of a statement names: what each pointer points to, and in each array
\* the element at the index of the innermost one.
LEMMA NamedAt ==
  ASSUME NEW t \in Types, NEW n \in DOMAIN generateReset(t), NEW k
  PROVE  /\ Named(generateReset(t), n, k) =
              [m \in 1..(n - 1) |-> Named(generateReset(t), n, k)[m]]
         /\ \A m \in 1..(n - 1) :
              Named(generateReset(t), n, k)[m] =
                IF m \in Pointers(t) THEN 1 ELSE k[Innermost(generateReset(t), n)]
<1> DEFINE code == generateReset(t)
<1>1. \A m \in 1..(n - 1) : code[n].at[m] = "*" <=> m \in Pointers(t)
  BY CodeOfType
<1> HIDE DEF code
<1>2. /\ Named(code, n, k) = [m \in 1..(n - 1) |-> Named(code, n, k)[m]]
      /\ \A m \in 1..(n - 1) :
           Named(code, n, k)[m] = IF m \in Pointers(t) THEN 1 ELSE k[Innermost(code, n)]
  BY <1>1 DEF Named
<1> QED  BY <1>2 DEF code

\* Where all indices that one i would have to stand for are the same, an expression
\* names the place that the loops mean.
LEMMA NamedIsMeant ==
  ASSUME NEW t \in Types, NEW n \in DOMAIN generateReset(t), NEW k \in Places(t, n - 1),
         \A m, l \in Arrays(t) : m < n /\ l < n => k[m] = k[l]
  PROVE  Named(generateReset(t), n, k) = k
<1> DEFINE named == Named(generateReset(t), n, k)
           inner == Innermost(generateReset(t), n)
<1>1. n \in Nat /\ \A m \in 1..(n - 1) : m \in 1..Depth(t) /\ m < n
  BY CodeOfType, LayersOfType
<1>2. k \in [1..(n - 1) -> Steps(t)] /\ \A m \in 1..(n - 1) : k[m] \in 1..t.layers[m].length
  BY DEF Places
<1>3. /\ named = [m \in 1..(n - 1) |-> named[m]]
      /\ \A m \in 1..(n - 1) : named[m] = IF m \in Pointers(t) THEN 1 ELSE k[inner]
  BY NamedAt
<1>4. \A m \in Arrays(t) : m < n => inner \in Arrays(t) /\ inner < n
  BY <1>1, InnermostArray
<1> HIDE DEF named, inner
<1>5. ASSUME NEW m \in 1..(n - 1) PROVE named[m] = k[m]
  <2>1. CASE m \in Pointers(t)
    <3>1. t.layers[m].length = 1
      BY <1>1, <2>1, LayersOfType
    <3> QED  BY <1>2, <1>3, <2>1, <3>1
  <2>2. CASE m \notin Pointers(t)
    <3>1. m \in Arrays(t)
      BY <1>1, <2>2, LayersOfType
    <3> QED  BY <1>1, <1>3, <1>4, <2>2, <3>1
  <2> QED  BY <2>1, <2>2
<1>6. named = [m \in 1..(n - 1) |-> k[m]]
  BY <1>3, <1>5
<1>7. named = k
  BY <1>2, <1>6
<1> QED  BY <1>7 DEF named

\* So does each test on the way to the place.
LEMMA TestsNameTheirPlace ==
  ASSUME NEW t \in Types, NEW n \in DOMAIN generateReset(t), NEW k \in Places(t, n - 1),
         \A m, l \in Arrays(t) : m < n /\ l < n => k[m] = k[l],
         NEW m \in 1..(n - 1)
  PROVE  Named(generateReset(t), m, SubSeq(k, 1, m - 1)) = SubSeq(k, 1, m - 1)
<1> DEFINE q == SubSeq(k, 1, m - 1)
<1>1. /\ n - 1 \in 0..Depth(t) /\ n \in Nat /\ m \in 1..((n - 1) + 1)
      /\ m \in DOMAIN generateReset(t) /\ m < n /\ m \in Nat
  BY CodeOfType, LayersOfType
<1>2. q \in Places(t, m - 1) /\ \A l \in 1..(m - 1) : q[l] = k[l]
  BY <1>1, PlaceIsSequence
<1>3. \A i, l \in Arrays(t) : i < m /\ l < m => q[i] = q[l]
  <2>1. Arrays(t) \subseteq Nat \ {0}
    BY LayersOfType DEF Arrays
  <2>2. \A i \in Arrays(t) : i < m => i \in 1..(m - 1) /\ i < n
    BY <1>1, <2>1
  <2> QED  BY <1>2, <2>2
<1> HIDE DEF q
<1>4. Named(generateReset(t), m, q) = q
  BY <1>1, <1>2, <1>3, NamedIsMeant
<1> QED  BY <1>4 DEF q

\* A pointer that is nil is where a pointer can be, and the way to it is open.
LEMMA NilOfValue ==
  ASSUME NEW t \in Types, NEW v \in Values(t)
  PROVE  /\ \A p \in v.nil : \E n \in Pointers(t) : p \in Places(t, n - 1)
         /\ \A p \in v.full : p \in Places(t, Depth(t)) /\ Open(v, p)
BY DEF Values, PointerPlaces

\* Only pointers are nil.
LEMMA NilIsPointer ==
  ASSUME NEW t \in Types, NEW v \in Values(t), NEW m \in 1..Depth(t),
         NEW q \in Places(t, m - 1), q \in v.nil
  PROVE  m \in Pointers(t)
<1>1. PICK l \in Pointers(t) : q \in Places(t, l - 1)
  BY NilOfValue
<1>2. l \in Nat /\ l - 1 \in 0..Depth(t) /\ m \in Nat /\ m - 1 \in 0..Depth(t)
  BY LayersOfType DEF Pointers
<1>3. Len(q) = l - 1 /\ Len(q) = m - 1
  BY <1>1, <1>2, PlaceIsSequence
<1> QED  BY <1>2, <1>3

\* Where no inner array is longer than the ones around it or behind a pointer in them, the
\* element that a statement names exists, in arrays of any length.
LEMMA NamesNoneBeyond ==
  ASSUME NEW t \in Types, ~Strays(t), NEW n \in DOMAIN generateReset(t),
         NEW k \in Places(t, n - 1)
  PROVE  Named(generateReset(t), n, k) \in Places(t, n - 1)
<1> DEFINE named == Named(generateReset(t), n, k)
           inner == Innermost(generateReset(t), n)
<1>1. n \in Nat /\ \A m \in 1..(n - 1) : m \in 1..Depth(t) /\ m < n /\ m \in Nat
  BY CodeOfType, LayersOfType
<1>2. \A m \in 1..(n - 1) : k[m] \in 1..t.layers[m].length
  BY DEF Places
<1>3. /\ named = [m \in 1..(n - 1) |-> named[m]]
      /\ \A m \in 1..(n - 1) : named[m] = IF m \in Pointers(t) THEN 1 ELSE k[inner]
  BY NamedAt
<1>4. \A m \in Arrays(t) : m < n => inner \in Arrays(t) /\ inner \in 1..(n - 1) /\ m <= inner
  BY InnermostArray
<1> HIDE DEF named, inner
<1>5. ASSUME NEW m \in 1..(n - 1) PROVE named[m] \in 1..t.layers[m].length
  <2>1. CASE m \in Pointers(t)
    <3>1. t.layers[m].length = 1
      BY <1>1, <2>1, LayersOfType
    <3> QED  BY <1>3, <2>1, <3>1
  <2>2. CASE m \notin Pointers(t)
    <3>1. m \in Arrays(t)
      BY <1>1, <2>2, LayersOfType
    <3>2. inner \in Arrays(t) /\ inner \in 1..(n - 1) /\ m <= inner
      BY <1>1, <1>4, <3>1
    <3>3. t.layers[inner].length \in Nat /\ t.layers[m].length \in Nat /\ inner \in Nat /\ m \in Nat
      BY <1>1, <3>2, LayersOfType
    <3>4. ~(t.layers[inner].length > t.layers[m].length)
      <4>1. CASE m = inner
        BY <3>3, <4>1
      <4>2. CASE m < inner
        BY <3>1, <3>2, <4>2 DEF Strays
      <4> QED  BY <3>2, <3>3, <4>1, <4>2
    <3>5. named[m] = k[inner] /\ k[inner] \in 1..t.layers[inner].length
      BY <1>2, <1>3, <2>2, <3>2
    <3> QED  BY <3>3, <3>4, <3>5
  <2> QED  BY <2>1, <2>2
<1>6. \A m \in 1..(n - 1) : named[m] \in Steps(t)
  BY <1>1, <1>5, LayersOfType DEF Steps
<1>7. named \in [1..(n - 1) -> Steps(t)]
  BY <1>3, <1>6
<1>8. named \in Places(t, n - 1)
  BY <1>5, <1>7 DEF Places
<1> QED  BY <1>8 DEF named

\* There a test before a statement has looked at just the pointer that the statement
\* follows: no loop begins between them that would change i.
LEMMA NamesWhatWasTested ==
  ASSUME NEW t \in Types, ~Strays(t), NEW n \in DOMAIN generateReset(t),
         NEW k \in Places(t, n - 1), NEW m \in Pointers(t), m < n
  PROVE  SubSeq(Named(generateReset(t), n, k), 1, m - 1) =
           Named(generateReset(t), m, SubSeq(k, 1, m - 1))
<1> DEFINE code == generateReset(t)
           front == SubSeq(k, 1, m - 1)
           q == SubSeq(Named(code, n, k), 1, m - 1)
           r == Named(code, m, front)
           in == Innermost(code, n)
           im == Innermost(code, m)
<1>1. /\ n \in Nat /\ m \in Nat /\ n - 1 \in 0..Depth(t) /\ m \in 1..((n - 1) + 1)
      /\ m \in DOMAIN code /\ m - 1 \in Nat
      /\ \A l \in 1..(m - 1) : l \in 1..(n - 1) /\ l \in 1..Depth(t) /\ l < n /\ l < m
  BY CodeOfType, LayersOfType DEF Pointers
<1>2. \A l \in 1..(m - 1) : front[l] = k[l]
  BY <1>1, PlaceIsSequence
<1>3. Named(code, n, k) \in Places(t, n - 1)
  BY NamesNoneBeyond
<1>4. q \in Places(t, m - 1) /\ \A l \in 1..(m - 1) : q[l] = Named(code, n, k)[l]
  BY <1>1, <1>3, PlaceIsSequence
<1>5. \A l \in 1..(n - 1) : Named(code, n, k)[l] = IF l \in Pointers(t) THEN 1 ELSE k[in]
  BY NamedAt
<1>6. /\ r = [l \in 1..(m - 1) |-> r[l]]
      /\ \A l \in 1..(m - 1) : r[l] = IF l \in Pointers(t) THEN 1 ELSE front[im]
  BY <1>1, NamedAt
<1>7. ASSUME NEW l \in Arrays(t), l < m PROVE im = in /\ im \in 1..(m - 1)
  <2>1. l < n
    BY <1>1, <1>7, LayersOfType DEF Arrays
  <2>2. in \in Arrays(t) /\ in \in 1..(n - 1) /\ \A j \in Arrays(t) : j < n => j <= in
    BY <2>1, InnermostArray
  <2>3. im \in Arrays(t) /\ im \in 1..(m - 1) /\ \A j \in Arrays(t) : j < m => j <= im
    BY <1>1, <1>7, InnermostArray
  <2> HIDE DEF im, in
  <2>4. ~(m < in)
    BY <2>2, <2>3, <1>1 DEF Strays
  <2>5. in # m
    BY <2>2, LayersOfType DEF Arrays, Pointers
  <2>6. in < m
    BY <1>1, <2>2, <2>4, <2>5
  <2>7. in <= im /\ im <= in
    BY <1>1, <2>2, <2>3, <2>6
  <2> QED  BY <1>1, <2>2, <2>3, <2>7
<1> HIDE DEF code, front, q, r, in, im
<1>8. ASSUME NEW l \in 1..(m - 1) PROVE q[l] = r[l]
  <2>1. q[l] = (IF l \in Pointers(t) THEN 1 ELSE k[in])
    BY <1>1, <1>4, <1>5
  <2>2. r[l] = (IF l \in Pointers(t) THEN 1 ELSE front[im])
    BY <1>6
  <2>3. l \in Pointers(t) \/ l \in Arrays(t)
    BY <1>1, LayersOfType
  <2>4. ASSUME l \in Arrays(t) PROVE front[im] = k[in]
    BY <1>1, <1>2, <1>7, <2>4
  <2> QED  BY <2>1, <2>2, <2>3, <2>4
<1>9. q = [l \in 1..(m - 1) |-> q[l]]
  BY <1>4 DEF Places
<1>10. q = r
  BY <1>6, <1>8, <1>9
<1> QED  BY <1>10 DEF q, r, code, front

\* There no test and no clearing of a generated method panics, whatever pointers are nil.
LEMMA OnlyStraysPanic ==
  ASSUME NEW t \in Types, NEW v \in Values(t), ~Strays(t)
  PROVE  ~Panics(generateReset(t), t, v)
<1> DEFINE code == generateReset(t)
<1> SUFFICES ASSUME NEW n \in DOMAIN code, NEW k \in Runs(code, n, t, v)
             PROVE  Exists(t, v, Named(code, n, k))
  BY DEF Panics, Visits
<1> DEFINE named == Named(code, n, k)
<1>1. k \in Places(t, n - 1) /\ n - 1 \in 0..Depth(t) /\ n \in Nat
  BY CodeOfType, LayersOfType DEF Runs
<1>2. named \in Places(t, n - 1)
  BY <1>1, NamesNoneBeyond
<1>3. Len(named) = n - 1
  BY <1>1, <1>2, PlaceIsSequence
<1>4. ASSUME NEW m \in 1..(n - 1) PROVE SubSeq(named, 1, m - 1) \notin v.nil
  <2> DEFINE q == SubSeq(named, 1, m - 1)
  <2>1. m \in 1..((n - 1) + 1) /\ m \in 1..Depth(t) /\ m \in DOMAIN code /\ m < n
    BY <1>1, CodeOfType, LayersOfType
  <2>2. q \in Places(t, m - 1)
    BY <1>1, <1>2, <2>1, PlaceIsSequence
  <2>3. CASE m \in Pointers(t)
    <3>1. code[m].op = "ifNotNil"
      BY <2>1, <2>3, CodeOfType
    <3>2. Named(code, m, SubSeq(k, 1, m - 1)) \notin v.nil
      BY <3>1 DEF Runs
    <3>3. q = Named(code, m, SubSeq(k, 1, m - 1))
      BY <1>1, <2>1, <2>3, NamesWhatWasTested
    <3> QED  BY <3>2, <3>3
  <2>4. CASE m \notin Pointers(t)
    BY <2>1, <2>2, <2>4, NilIsPointer
  <2> QED  BY <2>3, <2>4
<1> HIDE DEF named
<1>5. Open(v, named)
  BY <1>3, <1>4 DEF Open
<1>6. Exists(t, v, named)
  BY <1>2, <1>3, <1>5 DEF Exists
<1> QED  BY <1>6 DEF named

\* A reset clears every leaf whose indices are all the same: the loops come to its
\* place, and no test before it finds nil.
LEMMA ResetClears ==
  ASSUME NEW t \in Types, NEW v \in Values(t)
  PROVE  Clean(t, Exec(generateReset(t), t, v))
<1> DEFINE code == generateReset(t)
           n == Depth(t) + 1
<1> SUFFICES ASSUME Clears(t), NEW p \in v.full, \A m, l \in Arrays(t) : p[m] = p[l]
             PROVE  p \in Visits(code, "clear", t, v)
  BY DEF Clean, Exec, Values
<1>1. n \in DOMAIN code /\ code[n].op = "clear" /\ n - 1 = Depth(t)
  BY CodeOfType, LayersOfType
<1>2. p \in Places(t, n - 1) /\ Open(v, p) /\ Len(p) = Depth(t)
  BY <1>1, NilOfValue, PlaceIsSequence, LayersOfType
<1> HIDE DEF n
<1>3. Named(code, n, p) = p
  BY <1>1, <1>2, NamedIsMeant
<1>4. ASSUME NEW m \in 1..(n - 1) PROVE Named(code, m, SubSeq(p, 1, m - 1)) \notin v.nil
  <2>1. Named(code, m, SubSeq(p, 1, m - 1)) = SubSeq(p, 1, m - 1)
    BY <1>1, <1>2, TestsNameTheirPlace
  <2> QED  BY <1>1, <1>2, <1>4, <2>1 DEF Open
<1>5. p \in Runs(code, n, t, v)
  BY <1>2, <1>4 DEF Runs
<1> QED  BY <1>1, <1>3, <1>5 DEF Visits

\* A reset leaves pointers as they are, and an object of the same type.
LEMMA ResetKeepsType ==
  ASSUME NEW t \in Types, NEW v \in Values(t), NEW code
  PROVE  Exec(code, t, v) \in Values(t)
BY DEF Exec, Values, Open

\* What new makes is an object: only pointers that lie behind no other one are nil.
LEMMA ZeroIsValue ==
  ASSUME NEW t \in Types
  PROVE  Zero(t) \in Values(t)
<1>1. ASSUME NEW p \in Zero(t).nil PROVE Open(Zero(t), p)
  <2>1. PICK n \in Pointers(t) : p \in Places(t, n - 1)
    BY <1>1 DEF Zero, PointerPlaces
  <2>2. n - 1 \in 0..Depth(t) /\ n \in Nat
    BY LayersOfType DEF Pointers
  <2>3. Len(p) = n - 1
    BY <2>1, <2>2, PlaceIsSequence
  <2>4. ASSUME NEW m \in 1..Len(p), SubSeq(p, 1, m - 1) \in Zero(t).nil PROVE FALSE
    <3>1. Len(p) <= Len(SubSeq(p, 1, m - 1))
      BY <1>1, <2>4 DEF Zero
    <3>2. Len(SubSeq(p, 1, m - 1)) = m - 1
      BY <2>1, <2>2, <2>3, PlaceIsSequence
    <3> QED  BY <2>2, <2>3, <3>1, <3>2
  <2> QED  BY <2>4 DEF Open
<1>2. Zero(t) \in [nil : SUBSET PointerPlaces(t), full : SUBSET Places(t, Depth(t))]
  BY DEF Zero
<1>3. Zero(t).full = {}
  BY DEF Zero
<1> QED  BY <1>1, <1>2, <1>3 DEF Values

\* The loops around a statement all index with the variable of the innermost one: what
\* has different indices is never named.
LEMMA NamesOneIndex ==
  ASSUME NEW t \in Types, NEW n \in DOMAIN generateReset(t), NEW k,
         NEW m \in Arrays(t), NEW l \in Arrays(t), m < n, l < n
  PROVE  Named(generateReset(t), n, k)[m] = Named(generateReset(t), n, k)[l]
<1> DEFINE code == generateReset(t)
<1>1. n \in Nat /\ m \in 1..(n - 1) /\ l \in 1..(n - 1) /\ m \in 1..Depth(t) /\ l \in 1..Depth(t)
  BY CodeOfType, LayersOfType DEF Arrays
<1>2. m \notin Pointers(t) /\ l \notin Pointers(t)
  BY <1>1, LayersOfType
<1>3. code[n].at[m] # "*" /\ code[n].at[l] # "*"
  BY <1>1, <1>2, CodeOfType
<1> HIDE DEF code
<1>4. Named(code, n, k)[m] = k[Innermost(code, n)] /\ Named(code, n, k)[l] = k[Innermost(code, n)]
  BY <1>1, <1>3 DEF Named
<1> QED  BY <1>4 DEF code

\* What a reset leaves of the leaves with a reset of their own is just what has different
\* indices in two of the arrays around it.
LEMMA ClearsOneIndex ==
  ASSUME NEW t \in Types, NEW v \in Values(t), Clears(t)
  PROVE  Exec(generateReset(t), t, v).full =
           {p \in v.full : \E m, l \in Arrays(t) : p[m] # p[l]}
<1> DEFINE code == generateReset(t)
           w == Exec(code, t, v)
<1>1. w.full = v.full \ Visits(code, "clear", t, v)
  BY DEF Exec, Values
<1>2. \A p \in w.full : \E m, l \in Arrays(t) : p[m] # p[l]
  BY ResetClears DEF Clean
<1>3. ASSUME NEW p \in Visits(code, "clear", t, v), NEW m \in Arrays(t), NEW l \in Arrays(t)
      PROVE  p[m] = p[l]
  <2>1. PICK n \in DOMAIN code : code[n].op = "clear" /\ \E k : p = Named(code, n, k)
    BY <1>3 DEF Visits
  <2>2. n = Depth(t) + 1 /\ m < n /\ l < n
    BY <2>1, CodeOfType, LayersOfType DEF Arrays
  <2> QED  BY <2>1, <2>2, NamesOneIndex
<1> HIDE DEF w, code
<1>4. w.full = {p \in v.full : \E m, l \in Arrays(t) : p[m] # p[l]}
  BY <1>1, <1>2, <1>3
<1> QED  BY <1>4 DEF w, code

-----------------------------------------------------------------------------
(* The pool *)

\* A sequence without one of its positions has no other elements.
LEMMA RemovedFrom ==
  ASSUME NEW S, NEW s \in Seq(S), NEW n \in DOMAIN s
  PROVE  /\ RemoveAt(s, n) \in Seq(S)
         /\ \A m \in DOMAIN RemoveAt(s, n) : \E l \in DOMAIN s : RemoveAt(s, n)[m] = s[l]
<1> DEFINE a == SubSeq(s, 1, n - 1)
           b == SubSeq(s, n + 1, Len(s))
<1>1. n \in 1..Len(s) /\ Len(s) \in Nat
  OBVIOUS
<1>2. /\ a \in Seq(S) /\ Len(a) = n - 1
      /\ \A m \in 1..Len(a) : a[m] = s[m]
  BY <1>1
<1>3. /\ b \in Seq(S) /\ Len(b) = Len(s) - n
      /\ \A m \in 1..Len(b) : b[m] = s[n + m]
  BY <1>1
<1> HIDE DEF a, b
<1>4. /\ a \o b \in Seq(S) /\ DOMAIN (a \o b) = 1..(Len(a) + Len(b))
      /\ \A m \in 1..(Len(a) + Len(b)) :
           (a \o b)[m] = IF m <= Len(a) THEN a[m] ELSE b[m - Len(a)]
  BY <1>2, <1>3, ConcatProperties
<1>5. ASSUME NEW m \in DOMAIN (a \o b) PROVE \E l \in DOMAIN s : (a \o b)[m] = s[l]
  <2>1. m \in Nat /\ m \in 1..(Len(s) - 1)
    BY <1>1, <1>2, <1>3, <1>4
  <2>2. CASE m <= n - 1
    <3>1. m \in 1..Len(a) /\ m \in 1..Len(s)
      BY <1>1, <1>2, <2>1, <2>2
    <3>2. (a \o b)[m] = s[m]
      BY <1>2, <1>4, <1>5, <2>2, <3>1
    <3> QED  BY <1>1, <3>1, <3>2
  <2>3. CASE ~(m <= n - 1)
    <3>1. m - (n - 1) \in 1..(Len(s) - n) /\ n + (m - (n - 1)) = m + 1 /\ m + 1 \in 1..Len(s)
      BY <1>1, <2>1, <2>3
    <3>2. (a \o b)[m] = b[m - (n - 1)]
      BY <1>2, <1>4, <1>5, <2>3
    <3>3. b[m - (n - 1)] = s[n + (m - (n - 1))]
      BY <1>3, <3>1
    <3> QED  BY <1>1, <3>1, <3>2, <3>3
  <2> QED  BY <2>2, <2>3
<1>6. RemoveAt(s, n) = a \o b
  BY DEF RemoveAt, a, b
<1> QED  BY <1>4, <1>5, <1>6

\* A sequence is a sequence of its elements.
LEMMA OwnRange ==
  ASSUME NEW S, NEW s \in Seq(S)
  PROVE  s \in Seq(Range(s))
<1>1. s \in [1..Len(s) -> Range(s)] /\ Len(s) \in Nat
  BY DEF Range
<1> QED  BY <1>1, SeqDef

\* The objects of a struct are those whose fields have values of its types.
LEMMA ObjectIsHeld ==
  ASSUME NEW obj \in Objects(fields)
  PROVE  Holds(<<obj>>)
BY DEF Objects, Holds

\* The fields of the pooled struct have types.
LEMMA FieldsHaveTypes ==
  ASSUME PoolTypeOK
  PROVE  \A f \in DOMAIN fields : fields[f] \in Types
BY ShapesAssumption DEF PoolTypeOK

\* What a struct of the program holds after a reset is an object, which is clean, and
\* only arrays that stray let the reset panic.
LEMMA ResetOfObject ==
  ASSUME PoolTypeOK, NEW x, Holds(x), x # <<>>
  PROVE  /\ Holds(<<Reset(fields, x[1]).obj>>)
         /\ CleanObject(fields, Reset(fields, x[1]).obj)
         /\ Reset(fields, x[1]).panics \in BOOLEAN
         /\ Reset(fields, x[1]).panics => MayPanic(fields)
<1> DEFINE code == ResetMethod(fields)
           obj == [f \in DOMAIN fields |-> Exec(code[f], fields[f], x[1][f])]
<1>1. \A f \in DOMAIN fields : fields[f] \in Types /\ x[1][f] \in Values(fields[f])
  BY FieldsHaveTypes DEF Holds
<1>2. \A f \in DOMAIN fields : code[f] = generateReset(fields[f])
  BY DEF ResetMethod
<1>3. /\ Reset(fields, x[1]).obj = obj
      /\ Reset(fields, x[1]).panics = \E f \in DOMAIN fields : Panics(code[f], fields[f], x[1][f])
  BY DEF Reset
<1> HIDE DEF code
<1>4. \A f \in DOMAIN fields : obj[f] \in Values(fields[f]) /\ Clean(fields[f], obj[f])
  BY <1>1, <1>2, ResetKeepsType, ResetClears
<1>5. Holds(<<obj>>)
  BY <1>4 DEF Holds
<1>6. CleanObject(fields, obj)
  BY <1>4 DEF CleanObject
<1>7. (\E f \in DOMAIN fields : Panics(code[f], fields[f], x[1][f])) => MayPanic(fields)
  BY <1>1, <1>2, OnlyStraysPanic DEF MayPanic
<1> QED  BY <1>3, <1>5, <1>6, <1>7

LEMMA InitGenerator == Init => GeneratorInv
<1> SUFFICES ASSUME Init PROVE GeneratorInv
  OBVIOUS
<1>1. CommandInv
  BY InitCommand DEF Init
<1>2. fields = <<>> /\ pool = <<>> /\ held = {} /\ panicked = FALSE
  BY DEF Init
<1>3. pool \in Seq(Range(pool)) /\ DOMAIN pool = {}
  BY <1>2
<1>4. PoolTypeOK
  BY <1>2, <1>3 DEF PoolTypeOK
<1>5. PooledIsClean
  BY <1>2, <1>3 DEF PooledIsClean
<1> QED  BY <1>1, <1>4, <1>5 DEF GeneratorInv

\* Development does not touch the program, and the program not the files.
LEMMA DevelopOrProgram == [Next]_vars => [CommandNext]_commandVars
BY DEF Next, vars, Develop, Build, Get, Fill, Put, Collect

\* A step that leaves the struct as it is, and only moves objects.
LEMMA MoveKeeps ==
  ASSUME PoolTypeOK, PooledIsClean, UNCHANGED <<fields, panicked>>, fields # <<>>,
         pool' \in Seq(Range(pool')),
         \A n \in DOMAIN pool' : \E m \in DOMAIN pool : pool'[n] = pool[m],
         \A x \in held' : Holds(x)
  PROVE  PoolTypeOK' /\ PooledIsClean'
<1>1. \A x : Holds(x)' <=> Holds(x)
  BY DEF Holds
<1> QED  BY <1>1 DEF PoolTypeOK, PooledIsClean

\* The struct is known from when the program is built, and the pool is empty till then.
LEMMA BuildKeeps == GeneratorInv /\ Build => PoolTypeOK' /\ PooledIsClean'
<1> SUFFICES ASSUME GeneratorInv, Build PROVE PoolTypeOK' /\ PooledIsClean'
  OBVIOUS
<1>1. pool = <<>> /\ held = {} /\ ~panicked /\ panicked \in BOOLEAN
  BY DEF Build, GeneratorInv, PoolTypeOK
<1>2. fields' \in Shapes /\ UNCHANGED <<pool, held, panicked>>
  BY DEF Build
<1>3. pool' \in Seq(Range(pool')) /\ DOMAIN pool' = {}
  BY <1>1, <1>2
<1> QED  BY <1>1, <1>2, <1>3 DEF PoolTypeOK, PooledIsClean

\* What Get hands out is from the pool, what new makes, or nil.
LEMMA GetKeeps == GeneratorInv /\ Get => PoolTypeOK' /\ PooledIsClean'
<1> SUFFICES ASSUME GeneratorInv, Get PROVE PoolTypeOK' /\ PooledIsClean'
  OBVIOUS
<1>1. fields # <<>> /\ UNCHANGED <<fields, panicked>> /\ PoolTypeOK /\ PooledIsClean
  BY DEF Get, GeneratorInv
<1>2. ASSUME NEW n \in DOMAIN pool, held' = {pool[n]}, pool' = RemoveAt(pool, n)
      PROVE  PoolTypeOK' /\ PooledIsClean'
  <2>1. Holds(pool[n]) /\ pool \in Seq(Range(pool))
    BY <1>1 DEF PoolTypeOK
  <2>2. /\ pool' \in Seq(Range(pool))
        /\ \A m \in DOMAIN pool' : \E l \in DOMAIN pool : pool'[m] = pool[l]
    BY <1>2, <2>1, RemovedFrom
  <2>3. pool' \in Seq(Range(pool'))
    BY <2>2, OwnRange
  <2> QED  BY <1>1, <1>2, <2>1, <2>2, <2>3, MoveKeeps
<1>3. ASSUME held' \in {{Fresh}, {<<>>}}, UNCHANGED pool
      PROVE  PoolTypeOK' /\ PooledIsClean'
  <2>1. \A f \in DOMAIN fields : Zero(fields[f]) \in Values(fields[f])
    BY <1>1, FieldsHaveTypes, ZeroIsValue
  <2>2. Holds(Fresh)
    BY <2>1 DEF Holds, Fresh
  <2>3. Holds(<<>>)
    BY DEF Holds
  <2>4. pool' \in Seq(Range(pool'))
    BY <1>1, <1>3 DEF PoolTypeOK
  <2> QED  BY <1>1, <1>3, <2>2, <2>3, <2>4, MoveKeeps
<1> QED  BY <1>2, <1>3 DEF Get

\* Whatever the program makes of an object stays with the program.
LEMMA FillKeeps == GeneratorInv /\ Fill => PoolTypeOK' /\ PooledIsClean'
<1> SUFFICES ASSUME GeneratorInv, Fill PROVE PoolTypeOK' /\ PooledIsClean'
  OBVIOUS
<1>1. UNCHANGED <<fields, panicked, pool>> /\ PoolTypeOK /\ PooledIsClean /\ held # {}
  BY DEF Fill, GeneratorInv
<1>2. fields # <<>> /\ pool' \in Seq(Range(pool'))
  BY <1>1 DEF PoolTypeOK
<1>3. \A x \in held' : Holds(x)
  BY ObjectIsHeld DEF Fill
<1> QED  BY <1>1, <1>2, <1>3, MoveKeeps

\* The garbage collector only takes objects out of the pool.
LEMMA CollectKeeps == GeneratorInv /\ Collect => PoolTypeOK' /\ PooledIsClean'
<1> SUFFICES ASSUME GeneratorInv, Collect PROVE PoolTypeOK' /\ PooledIsClean'
  OBVIOUS
<1>1. UNCHANGED <<fields, panicked, held>> /\ PoolTypeOK /\ PooledIsClean
  BY DEF Collect, GeneratorInv
<1>2. PICK n \in DOMAIN pool : pool' = RemoveAt(pool, n)
  BY DEF Collect
<1>3. pool \in Seq(Range(pool)) /\ pool # <<>> /\ \A x \in held' : Holds(x)
  BY <1>1, <1>2 DEF PoolTypeOK
<1>4. /\ pool' \in Seq(Range(pool))
      /\ \A m \in DOMAIN pool' : \E l \in DOMAIN pool : pool'[m] = pool[l]
  BY <1>2, <1>3, RemovedFrom
<1>5. fields # <<>> /\ pool' \in Seq(Range(pool'))
  BY <1>1, <1>3, <1>4, OwnRange DEF PoolTypeOK
<1> QED  BY <1>1, <1>3, <1>4, <1>5, MoveKeeps

\* Put returns nil, or an object that was reset.
LEMMA PutKeeps == GeneratorInv /\ Put => PoolTypeOK' /\ PooledIsClean'
<1> SUFFICES ASSUME GeneratorInv, Put PROVE PoolTypeOK' /\ PooledIsClean'
  OBVIOUS
<1>1. UNCHANGED fields /\ held' = {} /\ held # {} /\ PoolTypeOK /\ PooledIsClean
  BY DEF Put, GeneratorInv
<1>2. fields # <<>>
  BY <1>1 DEF PoolTypeOK
<1>3. PICK x \in held :
        LET done == IF x = <<>> THEN [panics |-> FALSE, obj |-> <<>>] ELSE Reset(fields, x[1])
        IN  /\ panicked' = done.panics
            /\ pool' = IF done.panics THEN pool
                       ELSE Append(pool, IF x = <<>> THEN x ELSE <<done.obj>>)
  BY DEF Put
<1>4. Holds(x)
  BY <1>1 DEF PoolTypeOK
<1>5. \A y : Holds(y)' <=> Holds(y)
  BY <1>1 DEF Holds
<1>6. ASSUME panicked' \in BOOLEAN, panicked' => MayPanic(fields), NEW y, Holds(y),
             y = <<>> \/ CleanObject(fields, y[1]), pool' = Append(pool, y)
      PROVE  PoolTypeOK' /\ PooledIsClean'
  <2>1. pool \in Seq(Range(pool)) /\ \A n \in DOMAIN pool : Holds(pool[n])
    BY <1>1 DEF PoolTypeOK
  <2>2. /\ pool' \in Seq(Range(pool) \cup {y})
        /\ \A n \in DOMAIN pool' : pool'[n] = y \/ \E m \in DOMAIN pool : pool'[n] = pool[m]
    BY <1>6, <2>1
  <2>3. pool' \in Seq(Range(pool'))
    BY <2>2, OwnRange
  <2>4. PoolTypeOK'
    BY <1>1, <1>2, <1>5, <1>6, <2>1, <2>2, <2>3 DEF PoolTypeOK
  <2>5. PooledIsClean'
    BY <1>1, <1>6, <2>2 DEF PooledIsClean
  <2> QED  BY <2>4, <2>5
<1>7. CASE x = <<>>
  <2>1. panicked' = FALSE /\ pool' = Append(pool, <<>>)
    BY <1>3, <1>7
  <2> QED  BY <1>4, <1>6, <1>7, <2>1
<1>8. CASE x # <<>>
  <2> DEFINE done == Reset(fields, x[1])
  <2>1. panicked' = done.panics /\ pool' = IF done.panics THEN pool ELSE Append(pool, <<done.obj>>)
    BY <1>3, <1>8
  <2>2. /\ Holds(<<done.obj>>) /\ CleanObject(fields, done.obj)
        /\ done.panics \in BOOLEAN /\ (done.panics => MayPanic(fields))
    BY <1>1, <1>4, <1>8, ResetOfObject
  <2> HIDE DEF done
  <2>3. CASE done.panics
    <3>1. UNCHANGED pool /\ panicked' \in BOOLEAN /\ (panicked' => MayPanic(fields))
      BY <2>1, <2>2, <2>3
    <3>2. PoolTypeOK'
      BY <1>1, <1>2, <1>5, <3>1 DEF PoolTypeOK
    <3>3. PooledIsClean'
      BY <1>1, <3>1 DEF PooledIsClean
    <3> QED  BY <3>2, <3>3
  <2>4. CASE ~done.panics
    <3> DEFINE y == <<done.obj>>
    <3>1. y[1] = done.obj /\ pool' = Append(pool, y)
      BY <2>1, <2>4
    <3>2. (y = <<>> \/ CleanObject(fields, y[1])) /\ Holds(y)
      BY <2>2, <3>1
    <3>3. panicked' \in BOOLEAN /\ (panicked' => MayPanic(fields))
      BY <2>1, <2>2
    <3> HIDE DEF y
    <3> QED  BY <1>6, <3>1, <3>2, <3>3
  <2> QED  BY <2>3, <2>4
<1> QED  BY <1>7, <1>8

\* No step of development or of the program breaks the invariant.
LEMMA StepGenerator == GeneratorInv /\ [Next]_vars => GeneratorInv'
<1> SUFFICES ASSUME GeneratorInv, [Next]_vars PROVE PoolTypeOK' /\ PooledIsClean'
  BY DevelopOrProgram, StepCommand DEF GeneratorInv
<1>1. CASE UNCHANGED poolVars
  BY <1>1 DEF poolVars, GeneratorInv, PoolTypeOK, PooledIsClean, Holds
<1>2. CASE Develop \/ UNCHANGED vars
  BY <1>1, <1>2 DEF Develop, vars
<1> QED  BY <1>2, BuildKeeps, GetKeeps, FillKeeps, PutKeeps, CollectKeeps DEF Next

-----------------------------------------------------------------------------
(* Theorems *)

\* The invariant that all below rests on: while packages are generated, just those of
\* the list have their old files; and all that the program holds or has returned are
\* objects of its struct, in which no place is behind a nil pointer.
THEOREM InductiveInvariant == Spec => []GeneratorInv
BY InitGenerator, StepGenerator, PTL DEF Spec

\* Every variable keeps its type, and the pooled objects those of their fields.
THEOREM TypeCorrect == Spec => [](TypeOK /\ PoolTypeOK)
BY InductiveInvariant, PTL DEF GeneratorInv, CommandInv

\* However run ends, every reset.gen.go is whole, the old one or the new one: writeFile
\* only ever replaces a file by renaming a finished one.
THEOREM NoFileIsCutOff == Spec => []FilesOldOrNew
BY InductiveInvariant, PTL DEF GeneratorInv, CommandInv

\* A run without an error has written the file of every package with marks.
THEOREM SuccessGeneratesAll == Spec => []SuccessIsCurrent
BY InductiveInvariant, PTL DEF GeneratorInv, CommandInv

\* A run changes no file while the source uses a Reset that was generated.
THEOREM UseBlocksRun == Spec => UseStopsGeneration
<1>1. CommandInv /\ [CommandNext]_commandVars
        => [(\E p \in PackageSet : uses[p]) => UNCHANGED gen]_commandVars
  <2> SUFFICES ASSUME CommandInv, CommandNext, NEW p \in PackageSet, uses[p]
               PROVE  UNCHANGED gen
    OBVIOUS
  <2>1. CASE Rename
    BY <2>1 DEF Rename, CommandInv, LoopInv, UsesResolve
  <2> QED
    BY <2>1 DEF CommandNext, run, Edit, StartRun, Load, GeneratePackage, WriteTemporary, Crash
<1>2. [Next]_vars => [CommandNext]_commandVars
  BY DevelopOrProgram
<1> QED  BY <1>1, <1>2, InductiveInvariant, PTL DEF Spec, GeneratorInv, UseStopsGeneration

\* What the program does leaves the command alone: every behaviour of development and
\* program is one of the command reset.
THEOREM ImplementsCommand == Spec => CommandSpec
BY DevelopOrProgram, PTL DEF Spec, Init, CommandSpec

\* Whatever is done with the objects of a pool, and whichever pointers in them are nil,
\* one that Get can hand out again was cleared by the generated Reset but for plain
\* structs and arrays in arrays; and Put only panics for a struct in which such an inner
\* array is longer than the outer one, or behind a pointer in it.
THEOREM PoolHandsOutClean == Spec => []PooledIsClean
BY InductiveInvariant, PTL DEF GeneratorInv

\* For every type, however deep and behind however many pointers, the generated statements
\* clear every leaf with a reset of its own, except those at different indices of arrays in
\* arrays; and unless such an array strays they never go beyond an array or behind a nil
\* pointer, so that all arrays of one length are safe in each other.
THEOREM ResetIsComplete ==
  ASSUME NEW t \in Types, NEW v \in Values(t)
  PROVE  /\ Clears(t) => Exec(generateReset(t), t, v).full =
                           {p \in v.full : \E m, l \in Arrays(t) : p[m] # p[l]}
         /\ ~Strays(t) => ~Panics(generateReset(t), t, v)
BY ClearsOneIndex, OnlyStraysPanic
=============================================================================
