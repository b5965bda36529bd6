------------------------------ MODULE Delivery ------------------------------
(***************************************************************************)
(* The agent, the network and the server's counter PollCount: what the      *)
(* counter holds when attempts fail, answers are lost and requests arrive   *)
(* after their sender gave them up.                                         *)
(*                                                                          *)
(* MetricsAgent's steps go on as they are; a request that the server        *)
(* handles also adds the PollCount of its sample, which is the number of    *)
(* all polls so far and not of those since the last report.                 *)
(***************************************************************************)
EXTENDS MetricsAgent

CONSTANTS
  Storages,   \* the storages to look at, a subset of {"memory", "postgres"}
  MaxInt      \* the largest integer, 2^63 - 1 in the code

ASSUME StoragesAssumption == Storages \subseteq {"memory", "postgres"} /\ Storages # {}
\* No agent lives for 2^63 polls.
ASSUME MaxIntAssumption == MaxInt \in Nat /\ MaxPolls <= MaxInt

VARIABLES
  storage,    \* where the server keeps its metrics
  total,      \* the server's counter PollCount
  added,      \* history: the sum of all that was added to it, in unbounded integers
  applied,    \* history: how often each sample was added to it
  doubts,     \* history: attempts of each sample whose outcome the agent does not know
  inTransit   \* network: how many requests with each sample were given up on their way

counterVars == <<storage, total, added, applied, doubts, inTransit>>
deliveryVars == <<vars, counterVars>>

Samples == 1..MaxPolls
None == [r \in Samples |-> 0]

DeliveryInit ==
  /\ Init
  /\ storage \in Storages
  /\ total = 0 /\ added = 0
  /\ applied = None /\ doubts = None /\ inTransit = None

-----------------------------------------------------------------------------
(* The counter *)

MinInt == -MaxInt - 1

\* The sum of two integers of the code, in two's complement.
Wrap(n) == ((n - MinInt) % (2 * (MaxInt + 1))) + MinInt

PollCount(r) == Wrap(r)

\* A sum outside of the column's range fails the statement in PostgreSQL, and
\* with it the transaction of the batch; the addition in memory wraps around.
Fits(r) == storage = "postgres" => total + PollCount(r) <= MaxInt

\* mutant: the counter takes the value that was sent, as a gauge does
AddAsGauge(r) ==
  /\ Fits(r)
  /\ total' = PollCount(r)
  /\ added' = added + PollCount(r)
  /\ applied' = [applied EXCEPT ![r] = @ + 1]
  /\ UNCHANGED storage

Add(r) ==
  /\ Fits(r)
  /\ total' = Wrap(total + PollCount(r))
  /\ added' = added + PollCount(r)
  /\ applied' = [applied EXCEPT ![r] = @ + 1]
  /\ UNCHANGED storage

-----------------------------------------------------------------------------
(* The steps of the agent with what they mean for the counter *)

\* Everything that no request takes part in.
AgentStep ==
  /\ \/ Cancel \/ PollTick \/ ReportTick \/ RunAgent \/ Terminated
     \/ \E w \in Workers : worker(w)
     \/ \E s \in Senders : SendStep(s)
  /\ UNCHANGED counterVars

\* The batch of a request is saved.
Handle(s) ==
  /\ ServerApplies(s)
  /\ Add(snap[s])
  /\ UNCHANGED <<doubts, inTransit>>

\* An attempt ends with an error: one that says that nothing was applied, or one
\* that leaves it open.
Fail(s, e) ==
  /\ AttemptFails(s, e)
  /\ doubts' = IF e \in Rejections THEN doubts ELSE [doubts EXCEPT ![snap[s]] = @ + 1]
  /\ inTransit' = IF LeavesLate(s, e) THEN [inTransit EXCEPT ![snap[s]] = @ + 1]
                                      ELSE inTransit
  /\ UNCHANGED <<storage, total, added, applied>>

\* One of the requests that were given up arrives; a copy that never does, or that
\* the storage refuses, stays in transit.
ArriveLate(r) ==
  /\ inTransit[r] > 0
  /\ LateArrival(r)
  /\ inTransit' = [inTransit EXCEPT ![r] = @ - 1]
  /\ late' = {q \in late : inTransit'[q] > 0}
  /\ Add(r)
  /\ UNCHANGED doubts

DeliveryNext ==
  \/ AgentStep
  \/ \E s \in Senders : Handle(s)
  \/ \E s \in Senders, e \in Errors : Fail(s, e)
  \/ \E r \in late : ArriveLate(r)

DeliverySpec == DeliveryInit /\ [][DeliveryNext]_deliveryVars

-----------------------------------------------------------------------------
(* Properties *)

\* Every variable keeps its type.
DeliveryTypeOK ==
  /\ storage \in {"memory", "postgres"}
  /\ total \in MinInt..MaxInt
  /\ added \in Nat
  /\ applied \in [Samples -> Nat]
  /\ doubts \in [Samples -> Nat]
  /\ inTransit \in [Samples -> Nat]

\* A sample is added to the counter once, and once more at most for each attempt
\* whose outcome the agent could not know: an attempt is repeated by the retries
\* and by the next report, never by two workers at the same time.  Each request is
\* added once when the server handles it: that PostgresStorage may itself repeat a
\* commit whose outcome it does not know (AmbiguousCommit there) is not part of this.
CountedOncePerDoubt == \A r \in Samples : applied[r] <= 1 + doubts[r]

\* PollCount is sent as a delta but counts from the start: when the agent ends
\* without an error the server's counter holds at least all polls, and, if no
\* answer was ever lost, at most 1 + 2 + ... + revision.  In memory that is so until the
\* sum wraps around; in PostgreSQL always: what the range of the column refuses is
\* never confirmed to the agent.
CleanExitCounts ==
  result = "nil" /\ (storage = "memory" => added <= MaxInt) =>
    /\ total >= revision
    /\ (\A r \in Samples : doubts[r] = 0) => 2 * total <= revision * (revision + 1)

-----------------------------------------------------------------------------
(* The inductive invariant behind CountedOncePerDoubt *)

\* The agent knows that the server applied r, or is about to learn it.
Known(r) ==
  \/ r <= sentRevision
  \/ \E s \in Senders :
       snap[s] = r /\ (pc[s] = "mark" \/ (pc[s] = "await" /\ accepted[s]))

\* Each application of a sample beyond that one, made or still to come, goes back
\* to an attempt whose outcome the agent does not know.
CountInv ==
  /\ applied \in [Samples -> Nat] /\ doubts \in [Samples -> Nat]
  /\ inTransit \in [Samples -> Nat]
  /\ \A r \in Samples : applied[r] + inTransit[r] <= doubts[r] + (IF Known(r) THEN 1 ELSE 0)

-----------------------------------------------------------------------------
(* The inductive invariant behind the properties of the counter *)

\* The poll ticker is bounded, and with it the revisions.
PollsInv == polls <= MaxPolls /\ ("poll" \in ticks => polls < MaxPolls)

\* The counter is the sum of what was added, wrapped around in memory; in PostgreSQL
\* that sum stays in the range.
SumInv ==
  /\ total = Wrap(added)
  /\ storage = "postgres" => added <= MaxInt

\* What was added goes back to samples: each one that the server applied is in the
\* sum, and no request is under way that is not in doubt.
AddedInv ==
  /\ stored = 0 \/ (stored \in Samples /\ applied[stored] > 0)
  /\ \A r \in delivered : applied[r] > 0
  /\ \A r \in Samples : applied[r] > 0 => added >= r
  /\ \A r \in Samples : inTransit[r] <= doubts[r]

\* While no attempt is in doubt the samples are added in their order, each at most
\* once.
OnceInv == (\A r \in Samples : doubts[r] = 0) => 2 * added <= stored * (stored + 1)

DeliveryInv ==
  /\ PollsInv /\ CollectInv /\ CountInv
  /\ DeliveryTypeOK /\ SumInv /\ AddedInv /\ OnceInv
=============================================================================
