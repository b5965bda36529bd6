------------------------ MODULE PostgresStorageProofs ------------------------
(***************************************************************************)
(* Proofs about PostgresStorage for any finite table, any requests and any  *)
(* number of retries: the inductive invariant IInv and the safety           *)
(* properties it implies.                                                   *)
(***************************************************************************)
EXTENDS PostgresStorage, FiniteSetTheorems, TLAPS

USE RequestsAssumption, RetriesAssumption DEF RequestsAssumption, RetriesAssumption, Requests

-----------------------------------------------------------------------------
(* The operators *)

\* The metrics of a request, in an order, are a sequence that is not empty.
LEMMA OrderIsSequence ==
  ASSUME NEW K \in SUBSET Counters, K # {}, NEW order \in SetToSeqs(K)
  PROVE  order \in Seq(Counters) /\ order # <<>>
<1>1. IsFiniteSet(K) /\ Cardinality(K) \in Nat
  BY CountersAssumption, FS_Subset, FS_CardinalityType DEF CountersAssumption
<1>2. Cardinality(K) # 0
  BY <1>1, FS_EmptySet
<1>3. order \in [1..Cardinality(K) -> K]
  BY DEF SetToSeqs
<1> QED  BY <1>1, <1>2, <1>3

\* Add adds one to the count of r in the rows of K, and touches no other count.
LEMMA AddCounts ==
  ASSUME added \in [Counters -> [Requests -> Nat]], NEW K, NEW r \in Requests
  PROVE  /\ Add(K, r) \in [Counters -> [Requests -> Nat]]
         /\ \A k \in Counters, q \in Requests :
              Add(K, r)[k][q] = IF k \in K /\ q = r THEN added[k][q] + 1 ELSE added[k][q]
<1>1. \A k \in Counters : Add(K, r)[k] = IF k \in K THEN [added[k] EXCEPT ![r] = @ + 1] ELSE added[k]
  BY DEF Add
<1>2. ASSUME NEW k \in Counters
      PROVE  /\ Add(K, r)[k] \in [Requests -> Nat]
             /\ \A q \in Requests :
                  Add(K, r)[k][q] = IF k \in K /\ q = r THEN added[k][q] + 1 ELSE added[k][q]
  <2>1. added[k] \in [Requests -> Nat]
    OBVIOUS
  <2>2. CASE k \in K
    <3>1. Add(K, r)[k] = [added[k] EXCEPT ![r] = added[k][r] + 1]
      BY <1>1, <2>2
    <3>2. added[k][r] + 1 \in Nat
      BY <2>1
    <3> QED  BY <2>1, <2>2, <3>1, <3>2
  <2>3. CASE k \notin K
    BY <1>1, <2>1, <2>3
  <2> QED  BY <2>2, <2>3
<1>3. \A k \in Counters, q \in Requests :
        Add(K, r)[k][q] = IF k \in K /\ q = r THEN added[k][q] + 1 ELSE added[k][q]
  BY <1>2
<1>4. Add(K, r) = [k \in Counters |-> Add(K, r)[k]]
  BY DEF Add
<1> QED  BY <1>2, <1>3, <1>4

\* A sequence is an end of itself.
LEMMA EndOfSelf == ASSUME NEW S, NEW s \in Seq(S) PROVE EndOf(s, s)
<1>1. Len(s) \in Nat
  OBVIOUS
<1>2. \A n \in Nat : n <= n /\ \A i \in 1..n : i + (n - n) = i
  OBVIOUS
<1> QED  BY <1>1, <1>2 DEF EndOf

\* Without its head, the end of a sequence is a shorter end of it.
LEMMA EndOfTail ==
  ASSUME NEW S, NEW t \in Seq(S), NEW s \in Seq(S), EndOf(s, t), s # <<>>
  PROVE  /\ EndOf(Tail(s), t) /\ Tail(s) \in Seq(S)
         /\ Len(Tail(s)) = Len(s) - 1
         /\ Head(s) = t[Len(t) - Len(Tail(s))] /\ Head(s) \in S
<1>1. /\ Tail(s) \in Seq(S) /\ Len(Tail(s)) = Len(s) - 1 /\ Head(s) = s[1] /\ Head(s) \in S
      /\ \A i \in 1..Len(Tail(s)) : Tail(s)[i] = s[i + 1]
      /\ Len(s) \in Nat /\ Len(s) > 0 /\ Len(t) \in Nat
  OBVIOUS
<1>2. Len(s) <= Len(t) /\ \A i \in 1..Len(s) : s[i] = t[i + (Len(t) - Len(s))]
  BY DEF EndOf
<1>3. ASSUME NEW i \in 1..Len(Tail(s)) PROVE Tail(s)[i] = t[i + (Len(t) - Len(Tail(s)))]
  <2>1. i + 1 \in 1..Len(s) /\ (i + 1) + (Len(t) - Len(s)) = i + (Len(t) - Len(Tail(s)))
    BY <1>1
  <2> QED  BY <1>1, <1>2, <2>1
<1>4. s[1] = t[Len(t) - Len(Tail(s))]
  <2>1. 1 \in 1..Len(s) /\ 1 + (Len(t) - Len(s)) = Len(t) - Len(Tail(s))
    BY <1>1
  <2> QED  BY <1>2, <2>1
<1>5. Len(Tail(s)) <= Len(t)
  BY <1>1, <1>2
<1> QED  BY <1>1, <1>3, <1>4, <1>5 DEF EndOf

\* A transaction that waits in a deadlock is one that saves.
LEMMA DeadlockedSaves ==
  ASSUME NEW r \in Requests, Deadlocked(r) PROVE pc[r] = "save"
<1>1. PICK C \in SUBSET Requests : r \in C /\ {WaitsFor(x) : x \in C} = C
  BY DEF Deadlocked
<1>2. WaitsFor(r) \in Requests
  BY <1>1
<1> QED  BY <1>2 DEF WaitsFor

-----------------------------------------------------------------------------
(* The inductive invariant, one lemma per group of actions *)

\* What every step of r leaves to show: the other requests are as they were.
Others(r) ==
  \A q \in Requests : q # r =>
    /\ pc'[q] = pc[q] /\ keys'[q] = keys[q] /\ todo'[q] = todo[q] /\ attempt'[q] = attempt[q]

\* Init establishes IInv: no request was made.
LEMMA InitIInv == Init => IInv
<1> SUFFICES ASSUME Init PROVE IInv
  OBVIOUS
<1> USE DEF Init
<1>1. TypeOK
  BY DEF TypeOK
<1>2. RequestInv /\ LockInv
  BY DEF RequestInv, RequestOK, EndOf, LockInv, Upserted
<1>3. BatchIsAtomic /\ AddedAtMostOncePerAttempt /\ AnsweredInv
  BY DEF BatchIsAtomic, AddedAtMostOncePerAttempt, AnsweredInv
<1> QED  BY <1>1, <1>2, <1>3 DEF IInv

\* A request comes, or looks its metric up: nothing is added or locked.
LEMMA BeginIInv ==
  ASSUME IInv, NEW r \in Requests, Arrive(r) \/ Lookup(r) \/ Wake(r) PROVE IInv'
<1> USE DEF Arrive, Lookup, Wake
<1>1. Others(r) /\ UNCHANGED <<added, lock>>
  BY DEF IInv, TypeOK, RequestInv, Others
<1>2. \A k \in Counters : lock[k] # r
  BY DEF IInv, TypeOK
<1>3. /\ keys' \in [Requests -> Seq(Counters)] /\ keys'[r] # <<>>
      /\ todo' \in [Requests -> Seq(Counters)] /\ todo'[r] = keys'[r]
  <2>1. CASE Arrive(r)
    <3>1. PICK K \in (SUBSET Counters) \ {{}} : \E order \in SetToSeqs(K) :
             keys' = [keys EXCEPT ![r] = order] /\ todo' = [todo EXCEPT ![r] = order]
      BY <2>1
    <3>2. PICK order \in SetToSeqs(K) :
             keys' = [keys EXCEPT ![r] = order] /\ todo' = [todo EXCEPT ![r] = order]
      BY <3>1
    <3>3. order \in Seq(Counters) /\ order # <<>>
      BY OrderIsSequence
    <3> QED  BY <3>2, <3>3 DEF IInv, TypeOK
  <2>2. CASE Lookup(r) \/ Wake(r)
    BY <2>2 DEF IInv, TypeOK, RequestInv, RequestOK
  <2> QED  BY <2>1, <2>2
<1>4. /\ pc' \in [Requests -> {"new", "lookup", "save", "sleep", "ok", "error"}]
      /\ pc'[r] \in {"lookup", "save", "error"}
      /\ pc'[r] = "lookup" => r \in SingleUpdates /\ pc[r] = "new"
      /\ pc[r] \in {"new", "lookup", "sleep"}
  BY DEF IInv, TypeOK
<1>5. /\ attempt' \in [Requests -> 0..MaxRetries]
      /\ attempt'[r] = IF pc[r] = "sleep" THEN attempt[r] + 1 ELSE attempt[r]
  <2>1. attempt \in [Requests -> 0..MaxRetries] /\ (pc[r] = "sleep" => attempt[r] < MaxRetries)
    BY DEF IInv, TypeOK, RequestInv, RequestOK
  <2>2. CASE Wake(r)
    <3>1. attempt[r] + 1 \in 0..MaxRetries
      BY <2>1, <2>2
    <3> QED  BY <2>1, <2>2, <3>1
  <2>3. CASE Arrive(r) \/ Lookup(r)
    BY <2>1, <2>3
  <2> QED  BY <2>2, <2>3
<1>6. exists' \in [Requests -> BOOLEAN]
  BY DEF IInv, TypeOK, InTable
<1>7. TypeOK'
  BY <1>1, <1>2, <1>3, <1>4, <1>5, <1>6 DEF IInv, TypeOK, Others
<1>8. RequestInv'
  <2> SUFFICES ASSUME NEW q \in Requests PROVE RequestOK(q)'
    BY DEF RequestInv
  <2> HIDE DEF Arrive, Lookup, Wake
  <2>1. RequestOK(q)
    BY DEF IInv, RequestInv
  <2>2. CASE q = r
    <3>1. EndOf(todo'[r], keys'[r])
      BY <1>3, EndOfSelf
    <3> QED  BY <1>3, <1>4, <1>5, <2>1, <2>2, <3>1 DEF RequestOK
  <2>3. CASE q # r
    BY <1>1, <2>1, <2>3 DEF RequestOK, Others
  <2> QED  BY <2>2, <2>3
<1>9. LockInv'
  <2> SUFFICES ASSUME NEW q \in BatchUpdates, pc'[q] = "save",
                      NEW i \in 1..(Len(keys'[q]) - Len(todo'[q]))
               PROVE  lock[keys'[q][i]] = q
    BY <1>1 DEF LockInv, Upserted
  <2>1. q # r
    <3>1. Len(keys'[r]) \in Nat /\ Len(todo'[r]) = Len(keys'[r])
      BY <1>3
    <3> QED  BY <3>1
  <2> QED  BY <1>1, <2>1 DEF IInv, LockInv, Others, Upserted
<1>10. BatchIsAtomic'
  <2>1. pc[r] = "new" => \A k \in Counters : added[k][r] = 0
    BY <1>1 DEF IInv, TypeOK, RequestInv, RequestOK, AddedAtMostOncePerAttempt
  <2>2. pc[r] # "new" => keys' = keys
    OBVIOUS
  <2> QED  BY <1>1, <1>3, <2>1, <2>2 DEF IInv, BatchIsAtomic, Others
<1>11. AddedAtMostOncePerAttempt'
  <2>1. ASSUME NEW q \in Requests, NEW k \in Counters
        PROVE  added[k][q] <= attempt'[q]
                 + (IF pc'[q] \in {"new", "lookup", "save"} THEN 0 ELSE 1)
    <3>1. added[k][q] <= attempt[q] + (IF pc[q] \in {"new", "lookup", "save"} THEN 0 ELSE 1)
      BY DEF IInv, AddedAtMostOncePerAttempt
    <3>2. added[k][q] \in Nat /\ attempt[q] \in Nat
      BY DEF IInv, TypeOK
    <3> QED  BY <1>1, <1>4, <1>5, <3>1, <3>2 DEF Others
  <2>2. ASSUME NEW q \in BatchUpdates, pc'[q] = "ok", NEW i \in DOMAIN keys'[q]
        PROVE  added[keys'[q][i]][q] > 0
    BY <1>1, <1>4, <2>2 DEF IInv, AddedAtMostOncePerAttempt, Others
  <2> QED  BY <1>1, <2>1, <2>2 DEF AddedAtMostOncePerAttempt
<1>12. AnsweredInv'
  BY <1>1, <1>4 DEF IInv, AnsweredInv, Others
<1> QED  BY <1>7, <1>8, <1>9, <1>10, <1>11, <1>12 DEF IInv

\* An attempt that fails: r waits for the next one or is answered, its locks are free,
\* all of its metrics are to be upserted again.
LEMMA FailEnds ==
  ASSUME IInv, NEW r \in Requests, pc[r] = "save", NEW retriable \in BOOLEAN,
         Fail(r, retriable), UNCHANGED <<keys, attempt, exists>>,
         added' \in [Counters -> [Requests -> Nat]]
  PROVE  /\ TypeOK' /\ RequestInv' /\ LockInv' /\ Others(r)
         /\ pc'[r] \in {"sleep", "ok", "error"}
         /\ pc'[r] = "ok" => r \in SingleUpdates
<1> USE DEF Fail, AnswerOfFailure, Release
<1>1. Others(r)
  BY DEF IInv, TypeOK, Others
<1>2. /\ pc' \in [Requests -> {"new", "lookup", "save", "sleep", "ok", "error"}]
      /\ pc'[r] \in {"sleep", "ok", "error"} /\ (pc'[r] = "ok" => r \in SingleUpdates)
      /\ pc'[r] = "sleep" => attempt[r] < MaxRetries
  BY DEF IInv, TypeOK
<1>3. todo' \in [Requests -> Seq(Counters)] /\ todo'[r] = keys[r]
  BY DEF IInv, TypeOK
<1>4. /\ \A k \in Counters : lock'[k] = IF lock[k] = r THEN None ELSE lock[k]
      /\ lock' \in [Counters -> BatchUpdates \cup {None}]
  BY DEF IInv, TypeOK
<1>5. TypeOK'
  BY <1>1, <1>2, <1>3, <1>4 DEF IInv, TypeOK, Others
<1>6. RequestInv'
  <2> SUFFICES ASSUME NEW q \in Requests PROVE RequestOK(q)'
    BY DEF RequestInv
  <2> HIDE DEF Fail
  <2>1. RequestOK(q)
    BY DEF IInv, RequestInv
  <2>2. CASE q = r
    <3>1. EndOf(todo'[r], keys[r])
      BY <1>3, EndOfSelf DEF IInv, TypeOK
    <3> QED  BY <1>2, <1>3, <2>1, <2>2, <3>1 DEF RequestOK
  <2>3. CASE q # r
    BY <1>1, <2>1, <2>3 DEF RequestOK, Others
  <2> QED  BY <2>2, <2>3
<1>7. LockInv'
  <2> SUFFICES ASSUME NEW q \in BatchUpdates, pc'[q] = "save",
                      NEW i \in 1..(Len(keys[q]) - Len(todo'[q]))
               PROVE  lock'[keys[q][i]] = q
    BY DEF LockInv, Upserted
  <2>1. q # r
    BY <1>2
  <2>2. lock[keys[q][i]] = q
    BY <1>1, <2>1 DEF IInv, LockInv, Others, Upserted
  <2>3. keys[q][i] \in Counters
    BY <1>1, <2>1 DEF IInv, TypeOK, Others
  <2> QED  BY <1>4, <2>1, <2>2, <2>3
<1> QED  BY <1>1, <1>2, <1>5, <1>6, <1>7

\* An attempt that adds nothing and fails, with any error or in a deadlock.
LEMMA FailIInv ==
  ASSUME IInv, NEW r \in Requests, SaveFails(r) \/ DeadlockAbort(r) PROVE IInv'
<1>1. PICK retriable \in BOOLEAN : Fail(r, retriable)
  BY DEF SaveFails, DeadlockAbort
<1>2. pc[r] = "save" /\ UNCHANGED <<added, keys, attempt, exists>>
  BY DeadlockedSaves DEF SaveFails, DeadlockAbort
<1>3. /\ TypeOK' /\ RequestInv' /\ LockInv' /\ Others(r)
      /\ pc'[r] \in {"sleep", "ok", "error"}
      /\ pc'[r] = "ok" => r \in SingleUpdates
  BY <1>1, <1>2, FailEnds DEF IInv, TypeOK
<1>4. BatchIsAtomic'
  BY <1>2 DEF IInv, BatchIsAtomic
<1>5. AddedAtMostOncePerAttempt'
  <2>1. ASSUME NEW q \in Requests, NEW k \in Counters
        PROVE  added[k][q] <= attempt[q]
                 + (IF pc'[q] \in {"new", "lookup", "save"} THEN 0 ELSE 1)
    <3>1. added[k][q] <= attempt[q] + (IF pc[q] \in {"new", "lookup", "save"} THEN 0 ELSE 1)
      BY DEF IInv, AddedAtMostOncePerAttempt
    <3>2. added[k][q] \in Nat /\ attempt[q] \in Nat
      BY DEF IInv, TypeOK
    <3> QED  BY <1>2, <1>3, <3>1, <3>2 DEF Others
  <2>2. ASSUME NEW q \in BatchUpdates, pc'[q] = "ok", NEW i \in DOMAIN keys[q]
        PROVE  added[keys[q][i]][q] > 0
    BY <1>3, <2>2 DEF IInv, AddedAtMostOncePerAttempt, Others
  <2> QED  BY <1>2, <2>1, <2>2 DEF AddedAtMostOncePerAttempt
<1>6. AnsweredInv'
  BY <1>2, <1>3 DEF IInv, AnsweredInv, Others
<1> QED  BY <1>3, <1>4, <1>5, <1>6 DEF IInv

\* A save that adds the metrics K of r, whether its answer comes or is lost.
LEMMA AddedOnce ==
  ASSUME IInv, NEW r \in Requests, pc[r] = "save", NEW K, added' = Add(K, r),
         Others(r), UNCHANGED <<keys, attempt>>,
         pc'[r] \in {"sleep", "ok", "error"}, pc'[r] # "ok" => AmbiguousCommit,
         r \in BatchUpdates => \A i \in DOMAIN keys[r] : keys[r][i] \in K
  PROVE  BatchIsAtomic' /\ AddedAtMostOncePerAttempt' /\ AnsweredInv'
<1>1. /\ added' \in [Counters -> [Requests -> Nat]]
      /\ \A k \in Counters, q \in Requests :
           added'[k][q] = IF k \in K /\ q = r THEN added[k][q] + 1 ELSE added[k][q]
  <2>1. added \in [Counters -> [Requests -> Nat]]
    BY DEF IInv, TypeOK
  <2>2. /\ Add(K, r) \in [Counters -> [Requests -> Nat]]
        /\ \A k \in Counters, q \in Requests :
             Add(K, r)[k][q] = IF k \in K /\ q = r THEN added[k][q] + 1 ELSE added[k][q]
    BY <2>1, AddCounts
  <2> QED  BY <2>2
<1>2. \A q \in Requests : \A i \in DOMAIN keys[q] : keys[q][i] \in Counters
  BY DEF IInv, TypeOK
<1>3. \A q \in Requests : \A k \in Counters : added[k][q] \in Nat /\ attempt[q] \in Nat
  BY DEF IInv, TypeOK
<1>4. BatchIsAtomic'
  <2> SUFFICES ASSUME NEW q \in BatchUpdates, NEW i \in DOMAIN keys[q], NEW j \in DOMAIN keys[q]
               PROVE  added'[keys[q][i]][q] = added'[keys[q][j]][q]
    BY DEF BatchIsAtomic
  <2>1. added[keys[q][i]][q] = added[keys[q][j]][q]
    BY DEF IInv, BatchIsAtomic
  <2>2. keys[q][i] \in Counters /\ keys[q][j] \in Counters
    BY <1>2
  <2>3. q = r => keys[q][i] \in K /\ keys[q][j] \in K
    OBVIOUS
  <2> QED  BY <1>1, <2>1, <2>2, <2>3
<1>5. AddedAtMostOncePerAttempt'
  <2>1. ASSUME NEW q \in Requests, NEW k \in Counters
        PROVE  added'[k][q] <= attempt[q]
                 + (IF pc'[q] \in {"new", "lookup", "save"} THEN 0 ELSE 1)
    <3>1. added[k][q] <= attempt[q] + (IF pc[q] \in {"new", "lookup", "save"} THEN 0 ELSE 1)
      BY DEF IInv, AddedAtMostOncePerAttempt
    <3>2. CASE q = r
      BY <1>1, <1>3, <3>1, <3>2
    <3>3. CASE q # r
      BY <1>1, <3>1, <3>3 DEF Others
    <3> QED  BY <3>2, <3>3
  <2>2. ASSUME NEW q \in BatchUpdates, pc'[q] = "ok", NEW i \in DOMAIN keys[q]
        PROVE  added'[keys[q][i]][q] > 0
    <3>1. keys[q][i] \in Counters
      BY <1>2
    <3>2. CASE q = r
      BY <1>1, <1>3, <3>1, <3>2
    <3>3. CASE q # r
      BY <1>1, <2>2, <3>1, <3>3 DEF IInv, AddedAtMostOncePerAttempt, Others
    <3> QED  BY <3>2, <3>3
  <2> QED  BY <2>1, <2>2 DEF AddedAtMostOncePerAttempt
<1>6. AnsweredInv'
  <2> SUFFICES ASSUME ~AmbiguousCommit, NEW q \in Requests, NEW k \in Counters
               PROVE  added'[k][q] <= 1 /\ (pc'[q] # "ok" => added'[k][q] = 0)
    BY DEF AnsweredInv
  <2>1. added[k][q] <= 1 /\ (pc[q] # "ok" => added[k][q] = 0)
    BY DEF IInv, AnsweredInv
  <2> QED  BY <1>1, <2>1 DEF Others
<1> QED  BY <1>4, <1>5, <1>6

\* The upsert of one metric, in a transaction of its own.
LEMMA SaveMetricsIInv == ASSUME IInv, NEW r \in Requests, SaveMetrics(r) PROVE IInv'
<1>1. /\ r \in SingleUpdates /\ pc[r] = "save" /\ UNCHANGED <<keys, attempt, exists>>
      /\ added' = Add({keys[r][1]}, r) /\ r \notin BatchUpdates
  BY DEF SaveMetrics
<1>2. added' \in [Counters -> [Requests -> Nat]]
  BY <1>1, AddCounts DEF IInv, TypeOK
<1>3. /\ TypeOK' /\ RequestInv' /\ LockInv' /\ Others(r)
      /\ pc'[r] \in {"sleep", "ok", "error"}
      /\ pc'[r] # "ok" => AmbiguousCommit
  <2>1. CASE pc' = [pc EXCEPT ![r] = "ok"] /\ UNCHANGED <<lock, todo>>
    <3>1. Others(r) /\ pc'[r] = "ok"
      BY <1>1, <2>1 DEF IInv, TypeOK, Others
    <3>2. TypeOK'
      BY <1>1, <1>2, <2>1 DEF IInv, TypeOK
    <3>3. RequestInv'
      BY <1>1, <2>1, <3>1 DEF IInv, RequestInv, RequestOK, Others
    <3>4. LockInv'
      BY <1>1, <2>1, <3>1 DEF IInv, LockInv, Upserted, Others
    <3> QED  BY <3>1, <3>2, <3>3, <3>4
  <2>2. ASSUME NEW retriable \in BOOLEAN, AmbiguousCommit, Fail(r, retriable)
        PROVE  /\ TypeOK' /\ RequestInv' /\ LockInv' /\ Others(r)
               /\ pc'[r] \in {"sleep", "ok", "error"}
               /\ pc'[r] # "ok" => AmbiguousCommit
    BY <1>1, <1>2, <2>2, FailEnds
  <2> QED  BY <2>1, <2>2 DEF SaveMetrics
<1>4. BatchIsAtomic' /\ AddedAtMostOncePerAttempt' /\ AnsweredInv'
  BY <1>1, <1>3, AddedOnce
<1> QED  BY <1>3, <1>4 DEF IInv

\* The commit of a batch: its transaction holds the locks of all its metrics.
LEMMA CommitIInv == ASSUME IInv, NEW r \in Requests, Commit(r) PROVE IInv'
<1>1. /\ r \in BatchUpdates /\ pc[r] = "save" /\ UNCHANGED <<keys, attempt, exists>>
      /\ todo[r] = <<>> /\ added' = Add(Held(r), r)
  BY DEF Commit
<1>2. added' \in [Counters -> [Requests -> Nat]]
  BY <1>1, AddCounts DEF IInv, TypeOK
<1>3. \A i \in DOMAIN keys[r] : keys[r][i] \in Held(r)
  <2>1. keys[r] \in Seq(Counters)
    BY DEF IInv, TypeOK
  <2>2. Upserted(r) = Len(keys[r])
    BY <1>1, <2>1 DEF Upserted
  <2> QED  BY <1>1, <2>1, <2>2 DEF IInv, LockInv, Held
<1>4. /\ TypeOK' /\ RequestInv' /\ LockInv' /\ Others(r)
      /\ pc'[r] \in {"sleep", "ok", "error"}
      /\ pc'[r] # "ok" => AmbiguousCommit
  <2>1. CASE pc' = [pc EXCEPT ![r] = "ok"] /\ Release(r) /\ UNCHANGED todo
    <3>1. Others(r) /\ pc'[r] = "ok"
      BY <1>1, <2>1 DEF IInv, TypeOK, Others
    <3>2. /\ \A k \in Counters : lock'[k] = IF lock[k] = r THEN None ELSE lock[k]
          /\ lock' \in [Counters -> BatchUpdates \cup {None}]
      BY <2>1 DEF Release, IInv, TypeOK
    <3>3. TypeOK'
      <4>1. pc' \in [Requests -> {"new", "lookup", "save", "sleep", "ok", "error"}]
        BY <2>1 DEF IInv, TypeOK
      <4>2. \A k \in Counters : lock'[k] # None => pc'[lock'[k]] = "save"
        BY <3>1, <3>2 DEF IInv, TypeOK, Others
      <4> QED  BY <1>1, <1>2, <2>1, <3>2, <4>1, <4>2 DEF IInv, TypeOK
    <3>4. RequestInv'
      BY <1>1, <2>1, <3>1 DEF IInv, RequestInv, RequestOK, Others
    <3>5. LockInv'
      <4> SUFFICES ASSUME NEW q \in BatchUpdates, pc'[q] = "save", NEW i \in 1..Upserted(q)
                   PROVE  lock'[keys[q][i]] = q
        BY <1>1, <2>1 DEF LockInv, Upserted
      <4>1. q # r /\ pc[q] = "save"
        BY <3>1 DEF Others
      <4>2. lock[keys[q][i]] = q
        BY <4>1 DEF IInv, LockInv
      <4>3. keys[q][i] \in Counters
        BY DEF IInv, TypeOK, Upserted
      <4> QED  BY <3>2, <4>1, <4>2, <4>3
    <3> QED  BY <3>1, <3>3, <3>4, <3>5
  <2>2. ASSUME NEW retriable \in BOOLEAN, AmbiguousCommit, Fail(r, retriable)
        PROVE  /\ TypeOK' /\ RequestInv' /\ LockInv' /\ Others(r)
               /\ pc'[r] \in {"sleep", "ok", "error"}
               /\ pc'[r] # "ok" => AmbiguousCommit
    BY <1>1, <1>2, <2>2, FailEnds
  <2> QED  BY <2>1, <2>2 DEF Commit
<1>5. BatchIsAtomic' /\ AddedAtMostOncePerAttempt' /\ AnsweredInv'
  BY <1>1, <1>3, <1>4, AddedOnce
<1> QED  BY <1>4, <1>5 DEF IInv

\* One upsert in the transaction of a batch: it takes a lock that is free.
LEMMA UpsertIInv == ASSUME IInv, NEW r \in Requests, saveMetric(r) PROVE IInv'
<1> DEFINE k == Head(todo[r])
<1>1. /\ r \in BatchUpdates /\ pc[r] = "save" /\ todo[r] # <<>> /\ lock[k] = None
      /\ lock' = [lock EXCEPT ![k] = r] /\ todo' = [todo EXCEPT ![r] = Tail(todo[r])]
      /\ UNCHANGED <<added, pc, keys, attempt, exists>>
  BY DEF saveMetric
<1>2. /\ keys[r] \in Seq(Counters) /\ todo[r] \in Seq(Counters) /\ EndOf(todo[r], keys[r])
      /\ todo \in [Requests -> Seq(Counters)]
  BY DEF IInv, TypeOK, RequestInv, RequestOK
<1>3. /\ EndOf(Tail(todo[r]), keys[r]) /\ Tail(todo[r]) \in Seq(Counters)
      /\ Len(Tail(todo[r])) = Len(todo[r]) - 1
      /\ k = keys[r][Len(keys[r]) - Len(Tail(todo[r]))] /\ k \in Counters
  BY <1>1, <1>2, EndOfTail
<1> HIDE DEF k
<1>4. /\ todo'[r] = Tail(todo[r]) /\ todo' \in [Requests -> Seq(Counters)]
      /\ Others(r)
  BY <1>1, <1>2, <1>3 DEF Others
<1>5. /\ lock' \in [Counters -> BatchUpdates \cup {None}]
      /\ \A c \in Counters : lock'[c] = IF c = k THEN r ELSE lock[c]
  BY <1>1, <1>3 DEF IInv, TypeOK
<1>6. TypeOK'
  BY <1>1, <1>4, <1>5 DEF IInv, TypeOK
<1>7. RequestInv'
  <2> SUFFICES ASSUME NEW q \in Requests PROVE RequestOK(q)'
    BY DEF RequestInv
  <2>1. RequestOK(q)
    BY DEF IInv, RequestInv
  <2>2. CASE q = r
    BY <1>1, <1>3, <1>4, <2>1, <2>2 DEF RequestOK
  <2>3. CASE q # r
    BY <1>1, <1>4, <2>1, <2>3 DEF RequestOK, Others
  <2> QED  BY <2>2, <2>3
<1>8. LockInv'
  <2> SUFFICES ASSUME NEW q \in BatchUpdates, pc[q] = "save",
                      NEW i \in 1..(Len(keys[q]) - Len(todo'[q]))
               PROVE  lock'[keys[q][i]] = q
    BY <1>1 DEF LockInv, Upserted
  <2>1. /\ keys[q] \in Seq(Counters) /\ todo[q] \in Seq(Counters) /\ todo'[q] \in Seq(Counters)
        /\ Len(keys[q]) \in Nat /\ Len(todo[q]) \in Nat /\ Len(todo'[q]) \in Nat
    BY <1>4 DEF IInv, TypeOK
  <2>2. i \in 1..Len(keys[q]) /\ keys[q][i] \in Counters
    BY <2>1
  <2>3. i \in 1..Upserted(q) => lock[keys[q][i]] = q
    BY DEF IInv, LockInv
  <2>4. CASE i \in 1..Upserted(q)
    <3>1. keys[q][i] # k
      BY <1>1, <2>3, <2>4
    <3> QED  BY <1>5, <2>2, <2>3, <2>4, <3>1
  <2>5. CASE i \notin 1..Upserted(q)
    <3>1. q = r
      BY <1>4, <2>5 DEF Others, Upserted
    <3>2. i = Len(keys[r]) - Len(Tail(todo[r]))
      <4>1. Len(todo'[r]) = Len(todo[r]) - 1 /\ Len(Tail(todo[r])) = Len(todo'[r])
        BY <1>3, <1>4
      <4>2. i \in 1..(Len(keys[r]) - Len(todo'[r])) /\ ~(i \in 1..(Len(keys[r]) - Len(todo[r])))
        BY <2>5, <3>1 DEF Upserted
      <4>3. \A a \in Nat, b \in Nat : i \in 1..(a - (b - 1)) /\ ~(i \in 1..(a - b)) => i = a - (b - 1)
        OBVIOUS
      <4>4. Len(keys[r]) \in Nat /\ Len(todo[r]) \in Nat
        BY <2>1, <3>1
      <4> QED  BY <4>1, <4>2, <4>3, <4>4
    <3> QED  BY <1>3, <1>5, <3>1, <3>2
  <2> QED  BY <2>4, <2>5
<1>9. BatchIsAtomic' /\ AddedAtMostOncePerAttempt' /\ AnsweredInv'
  BY <1>1 DEF IInv, BatchIsAtomic, AddedAtMostOncePerAttempt, AnsweredInv
<1> QED  BY <1>6, <1>7, <1>8, <1>9 DEF IInv

\* IInv holds in every reachable state, whatever the errors, deadlocks and retries, and
\* whether commits can be ambiguous or not.
THEOREM InductiveInvariant == Spec => []IInv
<1>1. IInv /\ [Next]_vars => IInv'
  <2> SUFFICES ASSUME IInv, [Next]_vars PROVE IInv'
    OBVIOUS
  <2>1. CASE \E r \in Requests : Arrive(r) \/ Handler(r) \/ SaveFails(r)
    <3> PICK r \in Requests : Arrive(r) \/ Handler(r) \/ SaveFails(r)
      BY <2>1
    <3> QED  BY BeginIInv, FailIInv, SaveMetricsIInv, CommitIInv, UpsertIInv DEF Handler
  <2>2. CASE UNCHANGED vars
    <3> USE <2>2 DEF vars
    <3>1. TypeOK' /\ RequestInv' /\ LockInv'
      BY DEF IInv, TypeOK, RequestInv, RequestOK, LockInv, Upserted
    <3>2. BatchIsAtomic' /\ AddedAtMostOncePerAttempt' /\ AnsweredInv'
      BY DEF IInv, BatchIsAtomic, AddedAtMostOncePerAttempt, AnsweredInv
    <3> QED  BY <3>1, <3>2 DEF IInv
  <2> QED  BY <2>1, <2>2 DEF Next, Terminated
<1> QED  BY InitIInv, <1>1, PTL DEF Spec

-----------------------------------------------------------------------------
(* What follows from it *)

\* The variables keep their types; no save is tried more often than there are
\* intervals (withRetryValue), and only a transaction that runs holds a lock.
THEOREM TypeCorrect == Spec => []TypeOK
<1>1. IInv => TypeOK
  BY DEF IInv
<1> QED  BY InductiveInvariant, <1>1, PTL

\* A batch (SaveMetricsBatch) is in the table in all its counters equally often,
\* whatever ends its attempts, ambiguous commits included.
THEOREM BatchesAreAtomic == Spec => []BatchIsAtomic
<1>1. IInv => BatchIsAtomic
  BY DEF IInv
<1> QED  BY InductiveInvariant, <1>1, PTL

\* A retry adds a delta again only after an attempt that was made, once per attempt;
\* a batch that was answered with success is in the table.
THEOREM DuplicatesAreBounded == Spec => []AddedAtMostOncePerAttempt
<1>1. IInv => AddedAtMostOncePerAttempt
  BY DEF IInv
<1> QED  BY InductiveInvariant, <1>1, PTL

\* If no commit is ambiguous, the answer to a batch tells what happened: a success that
\* it was added exactly once, an error that it was not.
THEOREM BatchAnswersAreTrue == ~AmbiguousCommit /\ Spec => []BatchAnswerIsTrue
<1> SUFFICES ASSUME ~AmbiguousCommit PROVE Spec => []BatchAnswerIsTrue
  OBVIOUS
<1>1. IInv => BatchAnswerIsTrue
  <2> SUFFICES ASSUME IInv, NEW r \in BatchUpdates, NEW i \in DOMAIN keys[r]
               PROVE  /\ pc[r] = "ok" => added[keys[r][i]][r] = 1
                      /\ pc[r] = "error" => added[keys[r][i]][r] = 0
    BY DEF BatchAnswerIsTrue
  <2>1. keys[r][i] \in Counters
    BY DEF IInv, TypeOK
  <2>2. added[keys[r][i]][r] \in Nat
    BY <2>1 DEF IInv, TypeOK
  <2> QED  BY <2>1, <2>2 DEF IInv, AnsweredInv, AddedAtMostOncePerAttempt
<1> QED  BY InductiveInvariant, <1>1, PTL
=============================================================================
