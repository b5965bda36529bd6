--------------------------- MODULE PostgresStorage ---------------------------
(***************************************************************************)
(* The server with a database: PostgresStorage with its transactions and    *)
(* retries, and the two kinds of handlers that save through it: those of    *)
(* one metric (UpdateMetrics, UpdateMetricsByJSON), which look it up first, *)
(* and those of a batch (BulkUpdateMetrics, the gRPC UpdateMetrics).        *)
(*                                                                          *)
(* Only counters are modelled: an upsert that adds is the one a retry or a  *)
(* lost update can spoil.  A counter is how often the delta of each request *)
(* was added to it.  PostgreSQL itself is external: row locks that are held *)
(* to the end of a transaction, and a deadlock detector.                    *)
(***************************************************************************)
EXTENDS Naturals, Sequences, FiniteSets, SequencesExt

CONSTANTS
  Counters,         \* rows of the table metrics
  SingleUpdates,    \* requests of one metric
  BatchUpdates,     \* requests of a batch
  MaxRetries,       \* len(postgresRetryIntervals)
  AmbiguousCommit,  \* may the connection be lost after a commit that happened?
  None              \* no transaction

ASSUME RequestsAssumption ==
  SingleUpdates \cap BatchUpdates = {} /\ None \notin SingleUpdates \cup BatchUpdates
\* The table is finite, and so is a request.
ASSUME CountersAssumption == IsFiniteSet(Counters)
ASSUME RetriesAssumption == MaxRetries \in Nat /\ AmbiguousCommit \in BOOLEAN

Requests == SingleUpdates \cup BatchUpdates

VARIABLES
  added,    \* the table: added[k][r] is how often the delta of r was added to k
  lock,     \* the transaction that has locked each row
  pc,       \* where the handler of each request is
  keys,     \* the counters of each request, in the order of its body
  todo,     \* the part of keys its transaction has not upserted yet
  attempt,  \* the counter of withRetryValue's loop
  exists    \* what GetMetricsByID answered to a request of one metric

vars == <<added, lock, pc, keys, todo, attempt, exists>>

Init ==
  /\ added = [k \in Counters |-> [r \in Requests |-> 0]]
  /\ lock = [k \in Counters |-> None]
  /\ pc = [r \in Requests |-> "new"]
  /\ keys = [r \in Requests |-> <<>>]
  /\ todo = [r \in Requests |-> <<>>]
  /\ attempt = [r \in Requests |-> 0]
  /\ exists = [r \in Requests |-> FALSE]

InTable(k) == \E r \in Requests : added[k][r] > 0
Held(r) == {k \in Counters : lock[k] = r}
Release(r) == lock' = [k \in Counters |-> IF lock[k] = r THEN None ELSE lock[k]]

\* The table with the delta of r added to each row of K.
Add(K, r) == [k \in Counters |-> IF k \in K THEN [added[k] EXCEPT ![r] = @ + 1] ELSE added[k]]

-----------------------------------------------------------------------------
(* The handlers *)

\* The agent builds a batch by walking a map: its metrics come in any order.
Arrive(r) ==
  /\ pc[r] = "new"
  /\ \E K \in (SUBSET Counters) \ {{}} : \E order \in SetToSeqs(K) :
       /\ r \in SingleUpdates => Len(order) = 1
       /\ keys' = [keys EXCEPT ![r] = order]
       /\ todo' = [todo EXCEPT ![r] = order]
  /\ pc' = [pc EXCEPT ![r] = IF r \in SingleUpdates THEN "lookup" ELSE "save"]
  /\ UNCHANGED <<added, lock, attempt, exists>>

\* GetMetricsByID, which reads what is committed; its error is the answer.
Lookup(r) ==
  /\ pc[r] = "lookup"
  /\ \/ /\ exists' = [exists EXCEPT ![r] = InTable(keys[r][1])]
        /\ pc' = [pc EXCEPT ![r] = "save"]
     \/ pc' = [pc EXCEPT ![r] = "error"] /\ UNCHANGED exists
  /\ UNCHANGED <<added, lock, keys, todo, attempt>>

\* What the handler answers when the save has failed.  A single update of a metric
\* that exists does not look at the result of services.UpdateMetrics.
AnswerOfFailure(r) == IF r \in SingleUpdates /\ exists[r] THEN "ok" ELSE "error"

-----------------------------------------------------------------------------
(* withRetryValue around one attempt to save *)

\* mutant: one retry more than there are intervals
FailOffByOne(r, retriable) ==
  /\ Release(r)
  /\ todo' = [todo EXCEPT ![r] = keys[r]]
  /\ IF retriable /\ attempt[r] <= MaxRetries
       THEN pc' = [pc EXCEPT ![r] = "sleep"]
       ELSE pc' = [pc EXCEPT ![r] = AnswerOfFailure(r)]

\* mutant: a retry goes on where the attempt before it ended
FailResuming(r, retriable) ==
  /\ Release(r)
  /\ UNCHANGED todo
  /\ IF retriable /\ attempt[r] < MaxRetries
       THEN pc' = [pc EXCEPT ![r] = "sleep"]
       ELSE pc' = [pc EXCEPT ![r] = AnswerOfFailure(r)]

\* mutant: the transaction is not rolled back
FailNotRolledBack(r, retriable) ==
  /\ UNCHANGED lock
  /\ todo' = [todo EXCEPT ![r] = keys[r]]
  /\ IF retriable /\ attempt[r] < MaxRetries
       THEN pc' = [pc EXCEPT ![r] = "sleep"]
       ELSE pc' = [pc EXCEPT ![r] = AnswerOfFailure(r)]

\* The attempt ends with an error: the transaction is rolled back, and the save is
\* tried again after an error of class 08 if an interval is left.
Fail(r, retriable) ==
  /\ Release(r)
  /\ todo' = [todo EXCEPT ![r] = keys[r]]
  /\ IF retriable /\ attempt[r] < MaxRetries
       THEN pc' = [pc EXCEPT ![r] = "sleep"]
       ELSE pc' = [pc EXCEPT ![r] = AnswerOfFailure(r)]

Wake(r) ==
  /\ pc[r] = "sleep"
  /\ attempt' = [attempt EXCEPT ![r] = @ + 1]
  /\ pc' = [pc EXCEPT ![r] = "save"]
  /\ UNCHANGED <<added, lock, keys, todo, exists>>

-----------------------------------------------------------------------------
(* SaveMetrics: one upsert in a transaction of its own *)

\* A connection that is lost after the statement was committed gives an error of class
\* 08, which is tried again, or one that is no PgError, which is not.
SaveMetrics(r) ==
  /\ r \in SingleUpdates /\ pc[r] = "save"
  /\ lock[keys[r][1]] = None
  /\ added' = Add({keys[r][1]}, r)
  /\ \/ pc' = [pc EXCEPT ![r] = "ok"] /\ UNCHANGED <<lock, todo>>
     \/ AmbiguousCommit /\ \E retriable \in BOOLEAN : Fail(r, retriable)
  /\ UNCHANGED <<keys, attempt, exists>>

(* SaveMetricsBatch: one upsert per metric, and a commit *)

\* mutant: the upsert is made on the pool, outside the transaction
saveMetricOutside(r) ==
  /\ r \in BatchUpdates /\ pc[r] = "save"
  /\ todo[r] # <<>>
  /\ lock[Head(todo[r])] = None
  /\ added' = Add({Head(todo[r])}, r)
  /\ todo' = [todo EXCEPT ![r] = Tail(@)]
  /\ UNCHANGED <<lock, pc, keys, attempt, exists>>

\* saveMetric in the transaction of r: the row, or the index entry of a row that
\* another transaction is inserting, is locked to the end of the transaction.
saveMetric(r) ==
  /\ r \in BatchUpdates /\ pc[r] = "save"
  /\ todo[r] # <<>>
  /\ lock[Head(todo[r])] = None
  /\ lock' = [lock EXCEPT ![Head(todo[r])] = r]
  /\ todo' = [todo EXCEPT ![r] = Tail(@)]
  /\ UNCHANGED <<added, pc, keys, attempt, exists>>

\* tx.Commit: as with SaveMetrics, its error may follow a commit that happened.
Commit(r) ==
  /\ r \in BatchUpdates /\ pc[r] = "save"
  /\ todo[r] = <<>>
  /\ added' = Add(Held(r), r)
  /\ \/ pc' = [pc EXCEPT ![r] = "ok"] /\ Release(r) /\ UNCHANGED todo
     \/ AmbiguousCommit /\ \E retriable \in BOOLEAN : Fail(r, retriable)
  /\ UNCHANGED <<keys, attempt, exists>>

\* A statement or the commit fails and nothing of the attempt stays: with class 08
\* (retriable), or otherwise (the request is cancelled, another error).
SaveFails(r) ==
  /\ pc[r] = "save"
  /\ \E retriable \in BOOLEAN : Fail(r, retriable)
  /\ UNCHANGED <<added, keys, attempt, exists>>

-----------------------------------------------------------------------------
(* PostgreSQL's deadlock detector *)

WaitsFor(r) == IF pc[r] = "save" /\ todo[r] # <<>> THEN lock[Head(todo[r])] ELSE None

\* r is on a cycle of transactions that wait for each other.
Deadlocked(r) ==
  \E C \in SUBSET Requests :
    r \in C /\ {WaitsFor(x) : x \in C} = C

\* One of them is aborted with 40P01, which is not retried.
DeadlockAbort(r) ==
  /\ Deadlocked(r)
  /\ Fail(r, FALSE)
  /\ UNCHANGED <<added, keys, attempt, exists>>

-----------------------------------------------------------------------------

Handler(r) == \/ Lookup(r) \/ Wake(r) \/ SaveMetrics(r) \/ saveMetric(r) \/ Commit(r)
              \/ DeadlockAbort(r)

Ended(r) == pc[r] \in {"ok", "error"}

\* Every request was answered.
Terminated == (\A r \in Requests : Ended(r)) /\ UNCHANGED vars

Next == \/ \E r \in Requests : Arrive(r) \/ Handler(r) \/ SaveFails(r)
        \/ Terminated

Spec == Init /\ [][Next]_vars

\* The handlers run, the database answers and grants a lock that is free to one
\* of those who wait for it in turn.
Fairness == \A r \in Requests :
  WF_vars(Handler(r)) /\ SF_vars(SaveMetrics(r) \/ saveMetric(r))

FairSpec == Spec /\ Fairness

-----------------------------------------------------------------------------
(* Properties *)

\* Every variable keeps its type; no save is tried more often than there are
\* intervals, and only a transaction that runs holds a lock.
TypeOK ==
  /\ added \in [Counters -> [Requests -> Nat]]
  /\ lock \in [Counters -> BatchUpdates \cup {None}]
  /\ \A k \in Counters : lock[k] # None => pc[lock[k]] = "save"
  /\ pc \in [Requests -> {"new", "lookup", "save", "sleep", "ok", "error"}]
  /\ keys \in [Requests -> Seq(Counters)] /\ todo \in [Requests -> Seq(Counters)]
  /\ attempt \in [Requests -> 0..MaxRetries]
  /\ exists \in [Requests -> BOOLEAN]

\* At every moment a batch is in the table in all its counters equally often,
\* whatever statement, commit, retry or deadlock ends it.
BatchIsAtomic ==
  \A r \in BatchUpdates : \A i, j \in DOMAIN keys[r] : added[keys[r][i]][r] = added[keys[r][j]][r]

\* The answer to a batch tells what happened to it: a success that it was added
\* exactly once, an error that it was not.
BatchAnswerIsTrue ==
  \A r \in BatchUpdates : \A i \in DOMAIN keys[r] :
    /\ pc[r] = "ok" => added[keys[r][i]][r] = 1
    /\ pc[r] = "error" => added[keys[r][i]][r] = 0

\* An update of one metric is in the table when it is answered with success, as the
\* handlers' comments say of them.
SingleAnswerIsTrue ==
  \A r \in SingleUpdates : pc[r] = "ok" => added[keys[r][1]][r] = 1

\* Every request is answered: transactions that lock the counters of their batches
\* in different orders do not wait for each other for ever.
RequestsAreAnswered == \A r \in Requests : pc[r] # "new" ~> Ended(r)
-----------------------------------------------------------------------------
(* The inductive invariant *)

\* How many metrics of its batch the transaction of r has upserted.
Upserted(r) == Len(keys[r]) - Len(todo[r])

EndOf(s, t) ==
  Len(s) <= Len(t) /\ \A i \in 1..Len(s) : s[i] = t[i + (Len(t) - Len(s))]

\* What is left of a request is the end of it, and all of it outside an attempt.
RequestOK(r) ==
  /\ pc[r] # "new" => keys[r] # <<>>
  /\ EndOf(todo[r], keys[r])
  /\ r \in SingleUpdates \/ pc[r] \in {"new", "sleep"} => todo[r] = keys[r]
  /\ pc[r] = "lookup" => r \in SingleUpdates
  /\ pc[r] = "sleep" => attempt[r] < MaxRetries
  /\ pc[r] \in {"new", "lookup"} => attempt[r] = 0
RequestInv == \A r \in Requests : RequestOK(r)

\* A transaction holds the locks of all it has upserted.
LockInv ==
  \A r \in BatchUpdates : pc[r] = "save" =>
    \A i \in 1..Upserted(r) : lock[keys[r][i]] = r

\* Each attempt adds a delta once at most, also when commits are ambiguous; a batch
\* that was answered with success was added.
AddedAtMostOncePerAttempt ==
  /\ \A r \in Requests, k \in Counters :
       added[k][r] <= attempt[r] + (IF pc[r] \in {"new", "lookup", "save"} THEN 0 ELSE 1)
  /\ \A r \in BatchUpdates : pc[r] = "ok" =>
       \A i \in DOMAIN keys[r] : added[keys[r][i]][r] > 0

\* Without ambiguous commits nothing is added that is not answered with success.
AnsweredInv ==
  ~AmbiguousCommit =>
    \A r \in Requests, k \in Counters :
      added[k][r] <= 1 /\ (pc[r] # "ok" => added[k][r] = 0)

\* Every step keeps IInv: it is what PostgresStorageProofs proves.
IInv ==
  /\ TypeOK /\ RequestInv /\ LockInv
  /\ BatchIsAtomic /\ AddedAtMostOncePerAttempt /\ AnsweredInv
=============================================================================
