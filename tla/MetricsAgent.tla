---------------------------- MODULE MetricsAgent ----------------------------
(***************************************************************************)
(* The agent: RunAgent's loop, the worker pool it hands its tasks to, the   *)
(* shared SafeMetrics, the two senders (HTTP and gRPC) with their retries,  *)
(* and the shutdown that drains the pool and sends what is left.            *)
(*                                                                          *)
(* A sample is identified by its revision: SafeMetrics.collect increments   *)
(* revision and PollCount together, so the values of a sample matter to     *)
(* nothing below.  The server appears as the set of revisions it has        *)
(* applied and the one its gauges hold now.                                 *)
(***************************************************************************)
EXTENDS Integers, Sequences, FiniteSets

CONSTANTS
  RateLimit,     \* workers in the pool, and the capacity of its channel
  MaxRetries,    \* len(retryIntervals)
  Transport,     \* "http" or "grpc": which sender is configured
  LateDelivery,  \* may a request whose caller gave up still be applied?
  MaxPolls,      \* bound: ticks of the poll ticker that are looked at
  MaxReports     \* bound: ticks of the report ticker that are looked at

ASSUME RateLimitAssumption == RateLimit \in Nat
ASSUME MaxRetriesAssumption == MaxRetries \in Nat
ASSUME TransportAssumption == Transport \in {"http", "grpc"}
ASSUME LateDeliveryAssumption == LateDelivery \in BOOLEAN
ASSUME BoundsAssumption == MaxPolls \in Nat /\ MaxReports \in Nat

Workers == 1..RateLimit
Main == 0                      \* the goroutine of RunAgent itself
Senders == {Main} \cup Workers
NoOne == -1                    \* nobody holds sendMu

VARIABLES
  ctxDone,       \* ctx is cancelled
  loop,          \* where RunAgent is
  result,        \* what RunAgent returned: "none", "nil" or "error"
  ticks,         \* the tickers whose channel holds a tick
  polls,         \* poll ticks received so far
  reports,       \* report ticks received so far
  taskChan,      \* Pool.taskChan
  closed,        \* close(taskChan) was called
  pc,            \* where each goroutine is in its task
  snap,          \* the revision of the snapshot each goroutine is sending
  attempt,       \* the retry loop's counter in each goroutine
  accepted,      \* has the server applied the request of this attempt?
  sendMu,        \* who holds SafeMetrics.sendMu
  revision,      \* SafeMetrics.revision
  sentRevision,  \* SafeMetrics.sentRevision
  delivered,     \* server: the revisions it has applied
  stored,        \* server: the revision applied last
  late           \* network: requests given up by the agent and still in transit

loopVars == <<ctxDone, loop, result, ticks, polls, reports>>
poolVars == <<taskChan, closed>>
sendVars == <<snap, attempt, accepted>>
metricVars == <<revision, sentRevision>>
serverVars == <<delivered, stored, late>>
vars == <<loopVars, poolVars, pc, sendVars, sendMu, metricVars, serverVars>>

LoopPhases == {"config", "startup", "select", "addCollect", "addSend",
               "wait", "flush", "returned"}

\* From sendMu.Lock() to its deferred Unlock.
HoldingPhases == {"snapshot", "check", "attempt", "await", "sleep", "mark"}
\* The part of that in which hasUnsent has answered true.
SendingPhases == {"attempt", "await", "sleep", "mark"}
Phases == {"idle", "collect", "lock", "exited"} \cup HoldingPhases

Running == {"select", "addCollect", "addSend"}
\* The tickers exist from the end of the startup delay until RunAgent returns.
Ticking == Running \cup {"wait", "flush"}

Init ==
  /\ ctxDone = FALSE
  /\ loop = "config"
  /\ result = "none"
  /\ ticks = {}
  /\ polls = 0 /\ reports = 0
  /\ taskChan = <<>>
  /\ closed = FALSE
  /\ pc = [s \in Senders |-> "idle"]
  /\ snap = [s \in Senders |-> 0]
  /\ attempt = [s \in Senders |-> 0]
  /\ accepted = [s \in Senders |-> FALSE]
  /\ sendMu = NoOne
  /\ revision = 0 /\ sentRevision = 0
  /\ delivered = {}
  /\ stored = 0
  /\ late = {}

-----------------------------------------------------------------------------
(* RunAgent *)

\* The context is cancelled by a signal, at any time.
Cancel ==
  /\ ~ctxDone
  /\ loop # "returned"
  /\ ctxDone' = TRUE
  /\ UNCHANGED <<loop, result, ticks, polls, reports, poolVars, pc, sendVars,
                 sendMu, metricVars, serverVars>>

\* The public key, the certificate and the gRPC connection are set up, or
\* RunAgent returns the error.
Configure ==
  /\ loop = "config"
  /\ \/ loop' = "startup" /\ UNCHANGED result
     \/ loop' = "returned" /\ result' = "error"
  /\ UNCHANGED <<ctxDone, ticks, polls, reports, poolVars, pc, sendVars, sendMu,
                 metricVars, serverVars>>

\* The startup timer against the context: select takes either when both are
\* ready.
Startup ==
  /\ loop = "startup"
  /\ \/ loop' = "select" /\ UNCHANGED result
     \/ ctxDone /\ loop' = "returned" /\ result' = "nil"
  /\ UNCHANGED <<ctxDone, ticks, polls, reports, poolVars, pc, sendVars, sendMu,
                 metricVars, serverVars>>

\* A ticker drops a tick when its channel still holds one.
PollTick ==
  /\ loop \in Ticking
  /\ polls < MaxPolls
  /\ ticks' = ticks \cup {"poll"}
  /\ UNCHANGED <<ctxDone, loop, result, polls, reports, poolVars, pc, sendVars,
                 sendMu, metricVars, serverVars>>

ReportTick ==
  /\ loop \in Ticking
  /\ reports < MaxReports
  /\ ticks' = ticks \cup {"report"}
  /\ UNCHANGED <<ctxDone, loop, result, polls, reports, poolVars, pc, sendVars,
                 sendMu, metricVars, serverVars>>

SelectPoll ==
  /\ loop = "select"
  /\ "poll" \in ticks
  /\ ticks' = ticks \ {"poll"}
  /\ polls' = polls + 1
  /\ loop' = "addCollect"
  /\ UNCHANGED <<ctxDone, result, reports, poolVars, pc, sendVars, sendMu,
                 metricVars, serverVars>>

SelectReport ==
  /\ loop = "select"
  /\ "report" \in ticks
  /\ ticks' = ticks \ {"report"}
  /\ reports' = reports + 1
  /\ loop' = "addSend"
  /\ UNCHANGED <<ctxDone, result, polls, poolVars, pc, sendVars, sendMu,
                 metricVars, serverVars>>

\* pool.Close() closes the channel; pool.Wait() follows.
SelectDone ==
  /\ loop = "select"
  /\ ctxDone
  /\ closed' = TRUE
  /\ loop' = "wait"
  /\ UNCHANGED <<ctxDone, result, ticks, polls, reports, taskChan, pc, sendVars,
                 sendMu, metricVars, serverVars>>

\* Pool.AddTask blocks while the channel is full.
AddTask ==
  /\ loop \in {"addCollect", "addSend"}
  /\ Len(taskChan) < RateLimit
  /\ taskChan' = Append(taskChan, IF loop = "addCollect" THEN "collect" ELSE "send")
  /\ loop' = "select"
  /\ UNCHANGED <<ctxDone, result, ticks, polls, reports, closed, pc, sendVars,
                 sendMu, metricVars, serverVars>>

AllExited == \A w \in Workers : pc[w] = "exited"

\* mutant: the last send does not wait for the workers
PoolWaitSkipped ==
  /\ loop = "wait"
  /\ loop' = "flush"
  /\ pc' = [pc EXCEPT ![Main] = "lock"]
  /\ UNCHANGED <<ctxDone, result, ticks, polls, reports, poolVars, sendVars,
                 sendMu, metricVars, serverVars>>

\* pool.Wait() returns and the last send starts, in RunAgent's own goroutine.
PoolWait ==
  /\ loop = "wait"
  /\ AllExited
  /\ loop' = "flush"
  /\ pc' = [pc EXCEPT ![Main] = "lock"]
  /\ UNCHANGED <<ctxDone, result, ticks, polls, reports, poolVars, sendVars,
                 sendMu, metricVars, serverVars>>

-----------------------------------------------------------------------------
(* Pool.worker *)

\* for task := range p.taskChan { task() }
TakeTask(w) ==
  /\ pc[w] = "idle"
  /\ taskChan # <<>>
  /\ taskChan' = Tail(taskChan)
  /\ pc' = [pc EXCEPT ![w] = IF Head(taskChan) = "collect" THEN "collect" ELSE "lock"]
  /\ UNCHANGED <<loopVars, closed, sendVars, sendMu, metricVars, serverVars>>

\* mutant: a worker ends at once when the channel is closed
ExitWorkerUndrained(w) ==
  /\ pc[w] = "idle"
  /\ closed
  /\ pc' = [pc EXCEPT ![w] = "exited"]
  /\ UNCHANGED <<loopVars, poolVars, sendVars, sendMu, metricVars, serverVars>>

\* The range loop ends when the channel is closed and drained.
ExitWorker(w) ==
  /\ pc[w] = "idle"
  /\ closed /\ taskChan = <<>>
  /\ pc' = [pc EXCEPT ![w] = "exited"]
  /\ UNCHANGED <<loopVars, poolVars, sendVars, sendMu, metricVars, serverVars>>

\* The critical section of SafeMetrics.collect; an error of the memory or CPU
\* reading leaves it as it is.
Collect(w) ==
  /\ pc[w] = "collect"
  /\ revision' = revision + 1
  /\ pc' = [pc EXCEPT ![w] = "idle"]
  /\ UNCHANGED <<loopVars, poolVars, sendVars, sendMu, sentRevision, serverVars>>

-----------------------------------------------------------------------------
(* sendUnsentMetrics and sendUnsentMetricsGRPC: a worker's task or the last *)
(* send of RunAgent.                                                        *)

\* mutant: the error path leaves sendMu locked
ReturnStillLocked(s, failed) ==
  /\ sendMu' = IF failed THEN sendMu ELSE NoOne
  /\ pc' = [pc EXCEPT ![s] = "idle"]
  /\ IF s = Main
       THEN loop' = "returned" /\ result' = IF failed THEN "error" ELSE "nil"
       ELSE UNCHANGED <<loop, result>>
  /\ UNCHANGED <<ctxDone, ticks, polls, reports, poolVars>>

\* The deferred Unlock and the return: a worker goes on to its next task,
\* RunAgent ends with the error of its last send or without one.
Return(s, failed) ==
  /\ sendMu' = NoOne
  /\ pc' = [pc EXCEPT ![s] = "idle"]
  /\ IF s = Main
       THEN loop' = "returned" /\ result' = IF failed THEN "error" ELSE "nil"
       ELSE UNCHANGED <<loop, result>>
  /\ UNCHANGED <<ctxDone, ticks, polls, reports, poolVars>>

\* mutant: sendMu is not taken
LockSendMissing(s) ==
  /\ pc[s] = "lock"
  /\ pc' = [pc EXCEPT ![s] = "snapshot"]
  /\ UNCHANGED <<loopVars, poolVars, sendVars, sendMu, metricVars, serverVars>>

LockSend(s) ==
  /\ pc[s] = "lock"
  /\ sendMu = NoOne
  /\ sendMu' = s
  /\ pc' = [pc EXCEPT ![s] = "snapshot"]
  /\ UNCHANGED <<loopVars, poolVars, sendVars, metricVars, serverVars>>

\* snapshotWithRevision and hasUnsent take mu one after the other: a collect
\* may run between them.
Snapshot(s) ==
  /\ pc[s] = "snapshot"
  /\ snap' = [snap EXCEPT ![s] = revision]
  /\ pc' = [pc EXCEPT ![s] = "check"]
  /\ UNCHANGED <<loopVars, poolVars, attempt, accepted, sendMu, metricVars, serverVars>>

hasUnsent(s) == snap[s] > sentRevision

CheckUnsent(s) ==
  /\ pc[s] = "check"
  /\ IF hasUnsent(s)
       THEN /\ attempt' = [attempt EXCEPT ![s] = 0]
            /\ pc' = [pc EXCEPT ![s] = "attempt"]
            /\ UNCHANGED <<loopVars, poolVars, sendMu>>
       ELSE Return(s, FALSE) /\ UNCHANGED attempt
  /\ UNCHANGED <<snap, accepted, metricVars, serverVars>>

\* The errors a request can end with.  "encode" is raised before anything is
\* sent; "closed" is a connection the server closed without an answer (io.EOF,
\* which is no net.Error); "badBody" is an answer that could not be read.
HTTPErrors == {"encode", "refused", "timeout", "closed", "badBody",
               "tooManyRequests", "clientError", "serverError"}
isRetriableRequestError(e) ==
  e \in {"tooManyRequests", "serverError", "refused", "timeout"}

GRPCErrors == {"encode", "DeadlineExceeded", "Unavailable", "ResourceExhausted",
               "Aborted", "Internal", "InvalidArgument", "PermissionDenied", "Unknown"}
isRetriableGRPCError(e) ==
  e \in {"DeadlineExceeded", "Unavailable", "ResourceExhausted", "Aborted", "Internal"}

Errors == IF Transport = "http" THEN HTTPErrors ELSE GRPCErrors
Retriable(e) == IF Transport = "http" THEN isRetriableRequestError(e)
                                      ELSE isRetriableGRPCError(e)
\* Errors that say the server did not apply the request.
Rejections == {"encode", "refused", "tooManyRequests", "clientError",
               "InvalidArgument", "PermissionDenied"}
\* Errors after which the request may still be on its way.
Abandoned == {"timeout", "DeadlineExceeded", "Unavailable"}

\* client.Do or client.UpdateMetrics is called.
Attempt(s) ==
  /\ pc[s] = "attempt"
  /\ accepted' = [accepted EXCEPT ![s] = FALSE]
  /\ pc' = [pc EXCEPT ![s] = "await"]
  /\ UNCHANGED <<loopVars, poolVars, snap, attempt, sendMu, metricVars, serverVars>>

Apply(r) ==
  /\ delivered' = delivered \cup {r}
  /\ stored' = r

\* The server handles the request while the agent waits for the answer.
ServerApplies(s) ==
  /\ pc[s] = "await"
  /\ ~accepted[s]
  /\ Apply(snap[s])
  /\ accepted' = [accepted EXCEPT ![s] = TRUE]
  /\ UNCHANGED <<loopVars, poolVars, pc, snap, attempt, sendMu, metricVars, late>>

AttemptSucceeds(s) ==
  /\ pc[s] = "await"
  /\ accepted[s]
  /\ pc' = [pc EXCEPT ![s] = "mark"]
  /\ UNCHANGED <<loopVars, poolVars, sendVars, sendMu, metricVars, serverVars>>

\* The request of this attempt stays on its way when the caller stops waiting.
LeavesLate(s, e) == LateDelivery /\ ~accepted[s] /\ e \in Abandoned

\* mutant: one retry more than there are intervals
AttemptFailsOffByOne(s, e) ==
  /\ pc[s] = "await"
  /\ accepted[s] => e \notin Rejections
  /\ late' = late
  /\ IF Retriable(e) /\ attempt[s] <= MaxRetries
       THEN /\ pc' = [pc EXCEPT ![s] = "sleep"]
            /\ UNCHANGED <<loopVars, poolVars, sendMu>>
       ELSE Return(s, TRUE)
  /\ UNCHANGED <<sendVars, metricVars, delivered, stored>>

\* The attempt fails with e: the caller sleeps and tries again, or gives up.
AttemptFails(s, e) ==
  /\ pc[s] = "await"
  /\ accepted[s] => e \notin Rejections
  /\ late' = IF LeavesLate(s, e) THEN late \cup {snap[s]} ELSE late
  /\ IF Retriable(e) /\ attempt[s] < MaxRetries
       THEN /\ pc' = [pc EXCEPT ![s] = "sleep"]
            /\ UNCHANGED <<loopVars, poolVars, sendMu>>
       ELSE Return(s, TRUE)
  /\ UNCHANGED <<sendVars, metricVars, delivered, stored>>

\* sleep(retryIntervals[attempt]) returns.
Wake(s) ==
  /\ pc[s] = "sleep"
  /\ attempt' = [attempt EXCEPT ![s] = @ + 1]
  /\ pc' = [pc EXCEPT ![s] = "attempt"]
  /\ UNCHANGED <<loopVars, poolVars, snap, accepted, sendMu, metricVars, serverVars>>

markSent(r) == sentRevision' = IF r > sentRevision THEN r ELSE sentRevision

\* mutant: the revision of the moment is marked, not the snapshot's
MarkSentLatest(s) ==
  /\ pc[s] = "mark"
  /\ markSent(revision)
  /\ Return(s, FALSE)
  /\ UNCHANGED <<sendVars, revision, serverVars>>

\* mutant: a success is not recorded
MarkSentMissing(s) ==
  /\ pc[s] = "mark"
  /\ Return(s, FALSE)
  /\ UNCHANGED <<sendVars, metricVars, serverVars>>

MarkSent(s) ==
  /\ pc[s] = "mark"
  /\ markSent(snap[s])
  /\ Return(s, FALSE)
  /\ UNCHANGED <<sendVars, revision, serverVars>>

-----------------------------------------------------------------------------
(* A request the agent gave up reaches the server, later than some other, *)
(* or is lost: late is a set, so a revision given up more than once may    *)
(* arrive any number of times.                                             *)
LateArrival(r) ==
  /\ r \in late
  /\ Apply(r)
  /\ late' \in {late, late \ {r}}
  /\ UNCHANGED <<loopVars, poolVars, pc, sendVars, sendMu, metricVars>>

\* RunAgent has returned: the process exits.
Terminated == loop = "returned" /\ UNCHANGED vars

RunAgent == \/ Configure \/ Startup \/ SelectPoll \/ SelectReport \/ SelectDone
            \/ AddTask \/ PoolWait

worker(w) == TakeTask(w) \/ ExitWorker(w) \/ Collect(w)

\* What a sender does but for the handling of its request and a failing attempt.
SendStep(s) ==
  \/ LockSend(s) \/ Snapshot(s) \/ CheckUnsent(s) \/ Attempt(s)
  \/ AttemptSucceeds(s) \/ Wake(s) \/ MarkSent(s)

sendUnsentMetrics(s) ==
  SendStep(s) \/ ServerApplies(s) \/ \E e \in Errors : AttemptFails(s, e)

Next ==
  \/ Cancel \/ PollTick \/ ReportTick
  \/ RunAgent
  \/ \E w \in Workers : worker(w)
  \/ \E s \in Senders : sendUnsentMetrics(s)
  \/ \E r \in late : LateArrival(r)
  \/ Terminated

Spec == Init /\ [][Next]_vars

\* Every goroutine runs; the timers fire and an attempt ends (client.Timeout,
\* the deadline of the gRPC call).  Go's select takes a ready case at random and
\* sync.Mutex hands the lock to a starving waiter, hence strong fairness there.
Fairness ==
  /\ WF_vars(Configure) /\ WF_vars(Startup)
  /\ WF_vars(SelectPoll \/ SelectReport) /\ SF_vars(SelectDone)
  /\ WF_vars(AddTask) /\ WF_vars(PoolWait)
  /\ \A w \in Workers : WF_vars(worker(w))
  /\ \A s \in Senders : SF_vars(LockSend(s)) /\ WF_vars(sendUnsentMetrics(s))

FairSpec == Spec /\ Fairness

-----------------------------------------------------------------------------
(* Properties *)

\* Every variable keeps its type; the retry counter stays within the retry
\* intervals and the channel within its capacity.
TypeOK ==
  /\ ctxDone \in BOOLEAN
  /\ loop \in LoopPhases
  /\ result \in {"none", "nil", "error"}
  /\ ticks \subseteq {"poll", "report"}
  /\ polls \in Nat /\ reports \in Nat
  /\ taskChan \in Seq({"collect", "send"}) /\ Len(taskChan) <= RateLimit
  /\ closed \in BOOLEAN
  /\ pc \in [Senders -> Phases]
  /\ snap \in [Senders -> Nat]
  /\ attempt \in [Senders -> 0..MaxRetries]
  /\ accepted \in [Senders -> BOOLEAN]
  /\ sendMu \in Senders \cup {NoOne}
  /\ revision \in Nat /\ sentRevision \in Nat
  /\ delivered \subseteq Nat /\ stored \in Nat /\ late \subseteq Nat

\* The revision the agent records as sent was applied by the server: whatever
\* collects run during a send, markSent never covers a sample that was not in
\* the request.
ConfirmedWasApplied == sentRevision \in delivered \cup {0}

\* What goes over the network is newer than everything confirmed: two send
\* tasks in two workers never send the same snapshot, and a counter is not
\* added twice by two workers (sendMu is held across the check and the send).
SendsOnlyUnsent ==
  \A s \in Senders : pc[s] \in SendingPhases => snap[s] > sentRevision

\* The server's values never go back to those of an older sample, the order of
\* snapshots that sendMu is held for.
ServerNeverRegresses == [][stored' >= stored]_vars

\* They go back only when a request that the agent gave up arrives: neither the
\* retries nor the workers that send at the same time reorder the snapshots.
OnlyLateRegresses == [][stored' < stored => \E r \in late : LateArrival(r)]_vars

\* RunAgent returns nil only when every sample it collected is on the server.
CleanExitFlushed == result = "nil" => sentRevision = revision

\* No poll tick that reached AddTask is lost: when the pool has been waited for,
\* every collect task has run, and the last send covers all of them.
EveryCollectionCounted == loop \in {"flush", "returned"} => revision = polls

\* Once cancelled the agent ends, whatever the workers, the queue, the retries
\* and the waiters on sendMu are doing at that moment.
ShutdownCompletes == ctxDone ~> loop = "returned"

\* s holds sendMu while its request is out or while it sleeps before a retry.
InRequest(s) == sendMu = s /\ pc[s] \in {"await", "sleep"}

\* The comment of sendUnsentMetrics says that holding sendMu over the request and its
\* retries does not hold up the collection.  It is held up when a collect task waits in
\* the channel and every worker is in a request or waits for the sendMu of one.
CollectionNotBlockedBySends ==
  ~ /\ \E i \in 1..Len(taskChan) : taskChan[i] = "collect"
    /\ RateLimit > 0
    /\ \A w \in Workers :
         InRequest(w) \/ (pc[w] = "lock" /\ \E s \in Senders : InRequest(s))

\* The agent is a Reporter.
Abstract == INSTANCE Reporter WITH
  collected <- revision,
  confirmed <- sentRevision,
  outcome   <- IF result = "none" THEN "running" ELSE result

ImplementsReporter == Abstract!Spec

-----------------------------------------------------------------------------
(* The inductive invariant behind the safety properties *)

\* The phases of a send in which its snapshot is taken.
SnappedPhases == HoldingPhases \ {"snapshot"}

\* sendMu: a goroutine is between its Lock and its Unlock exactly when it owns it.
MutexInv == \A s \in Senders : pc[s] \in HoldingPhases <=> sendMu = s

SnapshotInv == \A s \in Senders : pc[s] \in SnappedPhases => snap[s] <= revision

AnswerInv ==
  \A s \in Senders :
    pc[s] = "mark" \/ (pc[s] = "await" /\ accepted[s]) => snap[s] \in delivered

ServerInv ==
  /\ delivered \subseteq 1..revision
  /\ late \subseteq 1..revision
  /\ sentRevision <= revision
  /\ stored <= revision

\* A sender that sleeps has a retry left.
RetryInv == \A s \in Senders : pc[s] = "sleep" => attempt[s] < MaxRetries

\* Neither the server nor the network holds anything newer than what is being sent.
OrderInv ==
  /\ ~LateDelivery => late = {}
  /\ \A s \in Senders : pc[s] \in SnappedPhases =>
       stored <= snap[s] /\ \A r \in late : r <= snap[s]

\* RunAgent's goroutine sends only in the last phase, and what it sends then is
\* the last sample; nothing is collected before the startup delay is over.
MainInv ==
  /\ loop # "flush" => pc[Main] = "idle"
  /\ loop = "flush" => pc[Main] \in {"lock"} \cup HoldingPhases
  /\ pc[Main] \in SnappedPhases => snap[Main] = revision
  /\ result = "none" <=> loop # "returned"
  /\ loop \in {"config", "startup"} => revision = 0

\* The pool is at rest before it is started and after it was waited for; nothing
\* is added once the channel is closed.
PoolInv ==
  /\ loop \in {"config", "startup", "flush", "returned"} =>
       taskChan = <<>> /\ \A w \in Workers : pc[w] \in {"idle", "exited"}
  /\ \A w \in Workers : pc[w] = "exited" => closed /\ taskChan = <<>>
  /\ closed => loop \in {"wait", "flush", "returned"}

\* What every reachable state satisfies: each part needs some of the others to
\* be preserved by a step, together they are preserved by every step.
IInv ==
  /\ TypeOK /\ MutexInv /\ SnapshotInv /\ AnswerInv /\ ServerInv /\ RetryInv
  /\ OrderInv /\ MainInv /\ PoolInv
  /\ SendsOnlyUnsent /\ ConfirmedWasApplied /\ CleanExitFlushed

\* The collect tasks that wait in the channel, and the workers that run one.
Queued == {i \in DOMAIN taskChan : taskChan[i] = "collect"}
Collecting == {w \in Workers : pc[w] = "collect"}

\* Each poll tick that was received has been collected or is on its way there: it is
\* about to be added, in the channel or with a worker.
CollectInv ==
  polls = revision + Cardinality(Queued) + Cardinality(Collecting)
                   + (IF loop = "addCollect" THEN 1 ELSE 0)
=============================================================================
