------------------------- MODULE MetricsAgentProofs -------------------------
(***************************************************************************)
(* Proofs about MetricsAgent for every rate limit, number of retries and    *)
(* bound: the inductive invariant IInv, the safety properties it implies,   *)
(* the order of the server's values, and the refinement of Reporter.        *)
(***************************************************************************)
EXTENDS MetricsAgent, SequenceTheorems, FiniteSetTheorems, TLAPS

USE RateLimitAssumption, MaxRetriesAssumption, TransportAssumption,
    LateDeliveryAssumption, BoundsAssumption

-----------------------------------------------------------------------------
(* The inductive invariant, one lemma per group of actions *)

\* Init establishes IInv: nothing is collected, nothing is sent.
LEMMA InitIInv == Init => IInv
<1> SUFFICES ASSUME Init PROVE IInv
  OBVIOUS
<1>1. TypeOK
  <2>1. taskChan \in Seq({"collect", "send"}) /\ Len(taskChan) <= RateLimit
    BY EmptySeq DEF Init
  <2>2. attempt \in [Senders -> 0..MaxRetries]
    BY DEF Init
  <2> QED  BY <2>1, <2>2 DEF Init, TypeOK, LoopPhases, Phases, NoOne
<1>2. MutexInv /\ Main \in Senders /\ NoOne \notin Senders
  BY DEF Init, MutexInv, HoldingPhases, NoOne, Senders, Main, Workers
<1>3. MainInv /\ PoolInv
  BY <1>2 DEF Init, MainInv, PoolInv, HoldingPhases, SnappedPhases, Senders
<1>4. SnapshotInv /\ AnswerInv /\ ServerInv /\ RetryInv /\ OrderInv
  BY DEF Init, SnapshotInv, AnswerInv, ServerInv, RetryInv, OrderInv, SnappedPhases, HoldingPhases
<1>5. SendsOnlyUnsent /\ ConfirmedWasApplied /\ CleanExitFlushed
  BY DEF Init, SendsOnlyUnsent, ConfirmedWasApplied, CleanExitFlushed, SendingPhases
<1> QED  BY <1>1, <1>2, <1>3, <1>4, <1>5 DEF IInv

\* The context, the tickers and RunAgent's own steps.
LEMMA LoopIInv ==
  IInv /\ (Cancel \/ PollTick \/ ReportTick \/ RunAgent) => IInv'
<1> SUFFICES ASSUME IInv, Cancel \/ PollTick \/ ReportTick \/ RunAgent PROVE IInv'
  OBVIOUS
<1> USE DEF poolVars, sendVars, metricVars, serverVars, LoopPhases, HoldingPhases,
            SendingPhases, SnappedPhases
<1>a. Main \in Senders /\ Main \notin Workers /\ NoOne \notin Senders
  BY DEF Main, NoOne, Senders, Workers
<1>1. CASE Cancel \/ PollTick \/ ReportTick \/ Configure \/ Startup \/ SelectPoll
           \/ SelectReport \/ SelectDone \/ AddTask
  <2> USE <1>1, <1>a DEF Cancel, PollTick, ReportTick, Configure, Startup, SelectPoll,
        SelectReport, SelectDone, AddTask
  <2>1. TypeOK'
    <3>1. taskChan' \in Seq({"collect", "send"}) /\ Len(taskChan') <= RateLimit
      <4> USE DEF IInv, TypeOK
      <4>1. CASE AddTask
        BY <4>1, AppendProperties
      <4>2. CASE ~AddTask
        <5>1. taskChan' = taskChan  BY <4>2
        <5> QED  BY <5>1
      <4> QED  BY <4>1, <4>2
    <3>2. loop' \in LoopPhases /\ ctxDone' \in BOOLEAN /\ closed' \in BOOLEAN
          /\ result' \in {"none", "nil", "error"} /\ ticks' \subseteq {"poll", "report"}
      BY DEF IInv, TypeOK
    <3>3. polls' \in Nat /\ reports' \in Nat
      <4>1. polls' \in {polls, polls + 1} /\ reports' \in {reports, reports + 1}
        OBVIOUS
      <4> QED  BY <4>1 DEF IInv, TypeOK
    <3> QED  BY <3>1, <3>2, <3>3 DEF IInv, TypeOK
  <2>2. MutexInv' /\ SnapshotInv' /\ AnswerInv' /\ ServerInv' /\ RetryInv' /\ OrderInv'
        /\ SendsOnlyUnsent' /\ ConfirmedWasApplied'
    BY DEF IInv, MutexInv, SnapshotInv, AnswerInv, ServerInv, RetryInv, OrderInv,
           SendsOnlyUnsent, ConfirmedWasApplied
  <2>3. MainInv'
    BY DEF IInv, MainInv, Ticking, Running
  <2>4. PoolInv'
    BY DEF IInv, TypeOK, PoolInv
  <2>5. CleanExitFlushed'
    BY DEF IInv, TypeOK, CleanExitFlushed, ServerInv, MainInv
  <2> QED  BY <2>1, <2>2, <2>3, <2>4, <2>5 DEF IInv
<1>2. CASE PoolWait
  <2> USE <1>2, <1>a DEF PoolWait
  <2>1. pc' = [pc EXCEPT ![Main] = "lock"] /\ pc[Main] = "idle" /\ pc \in [Senders -> Phases]
    BY DEF IInv, MainInv, TypeOK
  <2>2. TypeOK'
    BY <2>1 DEF IInv, TypeOK, Phases
  <2>3. MutexInv' /\ SnapshotInv' /\ AnswerInv' /\ ServerInv' /\ RetryInv' /\ OrderInv'
        /\ SendsOnlyUnsent' /\ ConfirmedWasApplied' /\ CleanExitFlushed'
    BY <2>1 DEF IInv, MutexInv, SnapshotInv, AnswerInv, ServerInv, RetryInv, OrderInv,
           SendsOnlyUnsent, ConfirmedWasApplied, CleanExitFlushed
  <2>4. MainInv'
    BY <2>1 DEF IInv, MainInv
  <2>5. taskChan = <<>>
    <3>1. CASE Workers = {}
      <4>1. RateLimit = 0
        BY <3>1 DEF Workers
      <4> QED  BY <4>1, EmptySeq DEF IInv, TypeOK
    <3>2. CASE Workers # {}
      BY <3>2 DEF IInv, PoolInv, AllExited
    <3> QED  BY <3>1, <3>2
  <2>6. PoolInv'
    BY <2>1, <2>5 DEF IInv, PoolInv, AllExited, Senders
  <2> QED  BY <2>2, <2>3, <2>4, <2>6 DEF IInv
<1> QED  BY <1>1, <1>2 DEF RunAgent

\* The pool's workers: taking a task, ending, collecting.
LEMMA WorkerIInv ==
  ASSUME IInv, NEW w \in Workers, worker(w)
  PROVE  IInv'
<1> USE DEF loopVars, poolVars, sendVars, metricVars, serverVars, LoopPhases, HoldingPhases,
            SendingPhases, SnappedPhases
<1>a. Main \in Senders /\ w \in Senders /\ w # Main
  BY DEF Main, Senders, Workers
<1>b. pc \in [Senders -> Phases] /\ revision \in Nat
  BY DEF IInv, TypeOK
<1>1. CASE TakeTask(w)
  <2> USE <1>1, <1>a, <1>b DEF TakeTask
  <2>1. pc' = [pc EXCEPT ![w] = pc'[w]] /\ pc'[w] \in {"collect", "lock"} /\ pc[w] = "idle"
    OBVIOUS
  <2>2. TypeOK'
    <3>1. taskChan' \in Seq({"collect", "send"}) /\ Len(taskChan') <= RateLimit
      BY HeadTailProperties DEF IInv, TypeOK
    <3> QED  BY <2>1, <3>1 DEF IInv, TypeOK, Phases
  <2>3. MutexInv' /\ SnapshotInv' /\ AnswerInv' /\ ServerInv' /\ RetryInv' /\ OrderInv'
        /\ SendsOnlyUnsent' /\ ConfirmedWasApplied' /\ CleanExitFlushed'
    BY <2>1 DEF IInv, MutexInv, SnapshotInv, AnswerInv, ServerInv, RetryInv, OrderInv,
           SendsOnlyUnsent, ConfirmedWasApplied, CleanExitFlushed
  <2>4. MainInv' /\ PoolInv'
    BY <2>1 DEF IInv, MainInv, PoolInv
  <2> QED  BY <2>2, <2>3, <2>4 DEF IInv
<1>2. CASE ExitWorker(w)
  <2> USE <1>2, <1>a, <1>b DEF ExitWorker
  <2>1. TypeOK'
    BY DEF IInv, TypeOK, Phases
  <2>2. MutexInv' /\ SnapshotInv' /\ AnswerInv' /\ ServerInv' /\ RetryInv' /\ OrderInv'
        /\ SendsOnlyUnsent' /\ ConfirmedWasApplied' /\ CleanExitFlushed'
    BY DEF IInv, MutexInv, SnapshotInv, AnswerInv, ServerInv, RetryInv, OrderInv,
           SendsOnlyUnsent, ConfirmedWasApplied, CleanExitFlushed
  <2>3. MainInv' /\ PoolInv'
    BY DEF IInv, MainInv, PoolInv
  <2> QED  BY <2>1, <2>2, <2>3 DEF IInv
<1>3. CASE Collect(w)
  <2> USE <1>3, <1>a, <1>b DEF Collect
  <2>1. TypeOK'
    BY DEF IInv, TypeOK, Phases
  <2>2. loop \in {"select", "addCollect", "addSend", "wait"} /\ pc[Main] = "idle"
    BY DEF IInv, TypeOK, PoolInv, MainInv
  <2>3. MutexInv' /\ AnswerInv' /\ RetryInv' /\ OrderInv' /\ SendsOnlyUnsent'
        /\ ConfirmedWasApplied'
    BY DEF IInv, MutexInv, AnswerInv, RetryInv, OrderInv, SendsOnlyUnsent, ConfirmedWasApplied
  <2>4. SnapshotInv'
    BY DEF IInv, TypeOK, SnapshotInv
  <2>5. ServerInv'
    BY DEF IInv, TypeOK, ServerInv
  <2>6. MainInv' /\ PoolInv' /\ CleanExitFlushed'
    BY <2>2 DEF IInv, MainInv, PoolInv, CleanExitFlushed
  <2> QED  BY <2>1, <2>3, <2>4, <2>5, <2>6 DEF IInv
<1> QED  BY <1>1, <1>2, <1>3 DEF worker

-----------------------------------------------------------------------------
(* The senders *)

\* Who is in a send when: RunAgent in its last phase, a worker before it, and
\* sendMu keeps all others out.
LEMMA SenderFacts ==
  ASSUME IInv, NEW s \in Senders, pc[s] \in {"lock"} \cup HoldingPhases
  PROVE  /\ s = Main <=> loop = "flush"
         /\ s # Main => s \in Workers /\ loop \in {"select", "addCollect", "addSend", "wait"}
         /\ result = "none"
         /\ pc[s] \in HoldingPhases => \A t \in Senders \ {s} : pc[t] \notin HoldingPhases
         /\ NoOne \notin Senders
<1> USE DEF HoldingPhases
<1>1. s # Main => s \in Workers
  BY DEF Senders
<1>2. s = Main => loop = "flush"
  BY DEF IInv, MainInv
<1>3. s # Main => loop \in {"select", "addCollect", "addSend", "wait"}
  BY <1>1 DEF IInv, TypeOK, LoopPhases, PoolInv
<1>4. result = "none"
  BY <1>1, <1>2, <1>3 DEF IInv, MainInv
<1>5. pc[s] \in HoldingPhases => \A t \in Senders \ {s} : pc[t] \notin HoldingPhases
  BY DEF IInv, MutexInv
<1>6. NoOne \notin Senders
  BY DEF NoOne, Senders, Main, Workers
<1> QED  BY <1>1, <1>2, <1>3, <1>4, <1>5, <1>6

\* The end of a send, successful or not: sendMu is released, a worker becomes
\* idle and RunAgent returns.  sentRevision may have been brought up to the
\* snapshot that the server has.
LEMMA ReturnIInv ==
  ASSUME IInv, NEW s \in Senders, NEW failed \in BOOLEAN,
         pc[s] \in HoldingPhases, Return(s, failed),
         UNCHANGED <<snap, attempt, accepted, revision, delivered, stored>>,
         sentRevision' = sentRevision \/ (snap[s] \in delivered /\ sentRevision' = snap[s]),
         s = Main /\ ~failed => sentRevision' = revision,
         late' \subseteq 1..revision, ~LateDelivery => late' = {}
  PROVE  IInv'
<1> USE DEF HoldingPhases, SendingPhases, SnappedPhases, loopVars, poolVars
<1>1. /\ s = Main <=> loop = "flush"
      /\ s # Main => s \in Workers /\ loop \in {"select", "addCollect", "addSend", "wait"}
      /\ result = "none"
      /\ \A t \in Senders \ {s} : pc[t] \notin HoldingPhases
      /\ NoOne \notin Senders
  BY SenderFacts
<1>2. pc' = [pc EXCEPT ![s] = "idle"] /\ pc \in [Senders -> Phases]
      /\ sendMu' = NoOne /\ taskChan' = taskChan /\ closed' = closed
  BY DEF Return, IInv, TypeOK
<1>3. \A t \in Senders : pc'[t] \notin HoldingPhases
  BY <1>1, <1>2
<1>4. /\ s = Main => loop' = "returned" /\ result' = IF failed THEN "error" ELSE "nil"
      /\ s # Main => loop' = loop /\ result' = result
  BY DEF Return
<1>5. sentRevision' \in Nat /\ sentRevision' <= revision /\ sentRevision' \in delivered \cup {0}
  BY DEF IInv, TypeOK, ServerInv, ConfirmedWasApplied
<1>6. TypeOK'
  <2>1. loop' \in LoopPhases /\ result' \in {"none", "nil", "error"}
    BY <1>4 DEF IInv, TypeOK, LoopPhases
  <2>2. late' \subseteq Nat
    BY DEF IInv, TypeOK
  <2>3. UNCHANGED <<ctxDone, ticks, polls, reports>>
    BY DEF Return
  <2>4. pc' \in [Senders -> Phases] /\ sendMu' \in Senders \cup {NoOne}
    BY <1>2 DEF Phases
  <2> QED  BY <1>2, <1>5, <2>1, <2>2, <2>3, <2>4 DEF IInv, TypeOK
<1>7. MutexInv' /\ SnapshotInv' /\ AnswerInv' /\ RetryInv' /\ SendsOnlyUnsent'
  BY <1>1, <1>2, <1>3 DEF MutexInv, SnapshotInv, AnswerInv, RetryInv, SendsOnlyUnsent
<1>8. ServerInv' /\ ConfirmedWasApplied' /\ OrderInv'
  BY <1>3, <1>5 DEF IInv, ServerInv, ConfirmedWasApplied, OrderInv
<1>9. MainInv'
  BY <1>1, <1>2, <1>3, <1>4 DEF IInv, MainInv
<1>10. PoolInv'
  BY <1>1, <1>2, <1>4 DEF IInv, PoolInv, Senders
<1>11. CleanExitFlushed'
  BY <1>1, <1>4 DEF CleanExitFlushed
<1> QED  BY <1>6, <1>7, <1>8, <1>9, <1>10, <1>11 DEF IInv

\* A step inside a send that neither ends it nor touches what workers share:
\* the goroutine moves on to another phase of the send.
LEMMA SendingIInv ==
  ASSUME IInv, NEW s \in Senders,
         LockSend(s) \/ Snapshot(s) \/ (CheckUnsent(s) /\ hasUnsent(s)) \/ Attempt(s)
         \/ ServerApplies(s) \/ AttemptSucceeds(s) \/ Wake(s)
  PROVE  IInv'
<1> USE DEF loopVars, poolVars, sendVars, metricVars, serverVars, HoldingPhases,
            SendingPhases, SnappedPhases
<1>0. pc[s] \in {"lock"} \cup HoldingPhases
  BY DEF LockSend, Snapshot, CheckUnsent, Attempt, ServerApplies, AttemptSucceeds, Wake
<1>1. /\ s = Main <=> loop = "flush"
      /\ s # Main => s \in Workers /\ loop \in {"select", "addCollect", "addSend", "wait"}
      /\ pc[s] \in HoldingPhases => \A t \in Senders \ {s} : pc[t] \notin HoldingPhases
      /\ NoOne \notin Senders
  BY <1>0, SenderFacts
<1>t. TypeOK
  BY DEF IInv
<1>2. CASE LockSend(s)
  <2> USE <1>1, <1>t, <1>2 DEF LockSend
  <2>1. \A t \in Senders : pc[t] \notin HoldingPhases
    BY DEF IInv, MutexInv
  <2>2. TypeOK'
    BY DEF TypeOK, Phases
  <2>3. MutexInv' /\ SnapshotInv' /\ AnswerInv' /\ ServerInv' /\ RetryInv' /\ OrderInv'
        /\ SendsOnlyUnsent' /\ ConfirmedWasApplied' /\ CleanExitFlushed'
    BY <2>1 DEF TypeOK, IInv, MutexInv, SnapshotInv, AnswerInv, ServerInv, RetryInv, OrderInv,
           SendsOnlyUnsent, ConfirmedWasApplied, CleanExitFlushed
  <2>4. MainInv' /\ PoolInv'
    BY DEF TypeOK, IInv, MainInv, PoolInv, Senders
  <2> QED  BY <2>2, <2>3, <2>4 DEF IInv
<1>3. CASE Snapshot(s)
  <2> USE <1>1, <1>t, <1>3 DEF Snapshot
  <2>1. TypeOK'
    BY DEF TypeOK, Phases
  <2>2. MutexInv' /\ AnswerInv' /\ ServerInv' /\ RetryInv'
        /\ SendsOnlyUnsent' /\ ConfirmedWasApplied' /\ CleanExitFlushed'
    BY DEF TypeOK, IInv, MutexInv, AnswerInv, ServerInv, RetryInv,
           SendsOnlyUnsent, ConfirmedWasApplied, CleanExitFlushed
  <2>3. SnapshotInv' /\ OrderInv'
    BY DEF TypeOK, IInv, SnapshotInv, OrderInv, ServerInv
  <2>4. MainInv' /\ PoolInv'
    BY DEF TypeOK, IInv, MainInv, PoolInv, Senders
  <2> QED  BY <2>1, <2>2, <2>3, <2>4 DEF IInv
<1>4. CASE CheckUnsent(s) /\ hasUnsent(s)
  <2> USE <1>1, <1>t, <1>4 DEF CheckUnsent, hasUnsent
  <2>1. TypeOK'
    <3>1. attempt' \in [Senders -> 0..MaxRetries]
      <4>1. 0 \in 0..MaxRetries  OBVIOUS
      <4> QED  BY <4>1 DEF TypeOK
    <3>2. pc' \in [Senders -> Phases]
      BY DEF TypeOK, Phases
    <3> QED  BY <3>1, <3>2 DEF TypeOK
  <2>2. MutexInv' /\ SnapshotInv' /\ AnswerInv' /\ ServerInv' /\ RetryInv' /\ OrderInv'
        /\ SendsOnlyUnsent' /\ ConfirmedWasApplied' /\ CleanExitFlushed'
    BY DEF TypeOK, IInv, MutexInv, SnapshotInv, AnswerInv, ServerInv, RetryInv, OrderInv,
           SendsOnlyUnsent, ConfirmedWasApplied, CleanExitFlushed
  <2>3. MainInv' /\ PoolInv'
    BY DEF TypeOK, IInv, MainInv, PoolInv, Senders
  <2> QED  BY <2>1, <2>2, <2>3 DEF IInv
<1>5. CASE Attempt(s)
  <2> USE <1>1, <1>t, <1>5 DEF Attempt
  <2>1. TypeOK'
    <3>1. accepted' \in [Senders -> BOOLEAN]
      BY DEF TypeOK
    <3>2. pc' \in [Senders -> Phases]
      BY DEF TypeOK, Phases
    <3> QED  BY <3>1, <3>2 DEF TypeOK
  <2>2. MutexInv' /\ SnapshotInv' /\ AnswerInv' /\ ServerInv' /\ RetryInv' /\ OrderInv'
        /\ SendsOnlyUnsent' /\ ConfirmedWasApplied' /\ CleanExitFlushed'
    BY DEF TypeOK, IInv, MutexInv, SnapshotInv, AnswerInv, ServerInv, RetryInv, OrderInv,
           SendsOnlyUnsent, ConfirmedWasApplied, CleanExitFlushed
  <2>3. MainInv' /\ PoolInv'
    BY DEF TypeOK, IInv, MainInv, PoolInv, Senders
  <2> QED  BY <2>1, <2>2, <2>3 DEF IInv
<1>6. CASE ServerApplies(s)
  <2> USE <1>1, <1>t, <1>6 DEF ServerApplies, Apply
  <2>1. snap[s] \in 1..revision /\ snap[s] \in Nat
    BY DEF TypeOK, IInv, SnapshotInv, SendsOnlyUnsent
  <2>2. TypeOK'
    BY <2>1 DEF TypeOK
  <2>3. MutexInv' /\ SnapshotInv' /\ AnswerInv' /\ RetryInv'
        /\ SendsOnlyUnsent' /\ ConfirmedWasApplied' /\ CleanExitFlushed'
    BY DEF TypeOK, IInv, MutexInv, SnapshotInv, AnswerInv, RetryInv,
           SendsOnlyUnsent, ConfirmedWasApplied, CleanExitFlushed
  <2>4. ServerInv' /\ OrderInv'
    <3>1. ServerInv'
      <4>1. delivered' \subseteq 1..revision /\ stored' <= revision
        <5>1. delivered' = delivered \cup {snap[s]} /\ stored' = snap[s]
          OBVIOUS
        <5>2. delivered \subseteq 1..revision /\ revision \in Nat
          BY DEF TypeOK, IInv, ServerInv
        <5>3. stored' <= revision
          BY ONLY <2>1, <5>1, <5>2
        <5> QED  BY ONLY <2>1, <5>1, <5>2, <5>3
      <4>2. late \subseteq 1..revision /\ sentRevision <= revision
        BY DEF IInv, ServerInv
      <4>3. UNCHANGED <<revision, sentRevision, late>>
        OBVIOUS
      <4> QED  BY <4>1, <4>2, <4>3 DEF ServerInv
    <3>2. \A t \in Senders : pc'[t] \in SnappedPhases => t = s
      OBVIOUS
    <3>3. OrderInv'
      BY <2>1, <3>2 DEF TypeOK, IInv, OrderInv
    <3> QED  BY <3>1, <3>3
  <2>5. MainInv' /\ PoolInv'
    BY DEF TypeOK, IInv, MainInv, PoolInv
  <2> QED  BY <2>2, <2>3, <2>4, <2>5 DEF IInv
<1>7. CASE AttemptSucceeds(s)
  <2> USE <1>1, <1>t, <1>7 DEF AttemptSucceeds
  <2>1. TypeOK'
    BY DEF TypeOK, Phases
  <2>2. MutexInv' /\ SnapshotInv' /\ AnswerInv' /\ ServerInv' /\ RetryInv' /\ OrderInv'
        /\ SendsOnlyUnsent' /\ ConfirmedWasApplied' /\ CleanExitFlushed'
    BY DEF TypeOK, IInv, MutexInv, SnapshotInv, AnswerInv, ServerInv, RetryInv, OrderInv,
           SendsOnlyUnsent, ConfirmedWasApplied, CleanExitFlushed
  <2>3. MainInv' /\ PoolInv'
    BY DEF TypeOK, IInv, MainInv, PoolInv, Senders
  <2> QED  BY <2>1, <2>2, <2>3 DEF IInv
<1>8. CASE Wake(s)
  <2> USE <1>1, <1>t, <1>8 DEF Wake
  <2>1. attempt' = [attempt EXCEPT ![s] = attempt[s] + 1] /\ attempt[s] + 1 \in 0..MaxRetries
    BY DEF TypeOK, IInv, RetryInv
  <2>2. TypeOK'
    BY <2>1 DEF TypeOK, Phases
  <2>3. MutexInv' /\ SnapshotInv' /\ AnswerInv' /\ ServerInv' /\ RetryInv' /\ OrderInv'
        /\ SendsOnlyUnsent' /\ ConfirmedWasApplied' /\ CleanExitFlushed'
    BY <2>1 DEF TypeOK, IInv, MutexInv, SnapshotInv, AnswerInv, ServerInv, RetryInv, OrderInv,
           SendsOnlyUnsent, ConfirmedWasApplied, CleanExitFlushed
  <2>4. MainInv' /\ PoolInv'
    BY DEF TypeOK, IInv, MainInv, PoolInv, Senders
  <2> QED  BY <2>2, <2>3, <2>4 DEF IInv
<1> QED  BY <1>2, <1>3, <1>4, <1>5, <1>6, <1>7, <1>8

\* Every step of a send.
LEMMA SendIInv ==
  ASSUME IInv, NEW s \in Senders, sendUnsentMetrics(s)
  PROVE  IInv'
<1> USE DEF sendVars, metricVars, serverVars, HoldingPhases, SendingPhases, SnappedPhases
<1>1. CASE LockSend(s) \/ Snapshot(s) \/ (CheckUnsent(s) /\ hasUnsent(s)) \/ Attempt(s)
           \/ ServerApplies(s) \/ AttemptSucceeds(s) \/ Wake(s)
  BY <1>1, SendingIInv
<1>2. CASE CheckUnsent(s) /\ ~hasUnsent(s)
  <2>1. pc[s] \in HoldingPhases /\ Return(s, FALSE)
        /\ UNCHANGED <<snap, attempt, accepted, metricVars, serverVars>>
    BY <1>2 DEF CheckUnsent
  <2>2. s = Main => sentRevision = revision
    BY <1>2 DEF CheckUnsent, hasUnsent, IInv, TypeOK, MainInv, ServerInv
  <2>3. late \subseteq 1..revision /\ (~LateDelivery => late = {})
    BY DEF IInv, ServerInv, OrderInv
  <2> QED  BY <2>1, <2>2, <2>3, ReturnIInv
<1>3. ASSUME NEW e \in Errors, AttemptFails(s, e) PROVE IInv'
  <2>1. pc[s] = "await" /\ UNCHANGED <<snap, attempt, accepted, revision, sentRevision, delivered, stored>>
    BY <1>3 DEF AttemptFails
  <2>2. snap[s] \in 1..revision
    BY <2>1 DEF IInv, TypeOK, SnapshotInv, SendsOnlyUnsent
  <2>3. late' \subseteq 1..revision /\ (~LateDelivery => late' = {})
    BY <1>3, <2>2 DEF AttemptFails, LeavesLate, IInv, ServerInv, OrderInv
  <2>4. \/ Return(s, TRUE)
        \/ attempt[s] < MaxRetries /\ pc' = [pc EXCEPT ![s] = "sleep"]
           /\ UNCHANGED <<loopVars, poolVars, sendMu>>
    BY <1>3 DEF AttemptFails
  <2>5. CASE Return(s, TRUE)
    BY <2>1, <2>3, <2>5, ReturnIInv
  <2>6. CASE attempt[s] < MaxRetries /\ pc' = [pc EXCEPT ![s] = "sleep"]
             /\ UNCHANGED <<loopVars, poolVars, sendMu>>
    <3> USE <2>1, <2>3, <2>6 DEF loopVars, poolVars
    <3>1. /\ s = Main <=> loop = "flush"
          /\ s # Main => s \in Workers /\ loop \in {"select", "addCollect", "addSend", "wait"}
          /\ \A t \in Senders \ {s} : pc[t] \notin HoldingPhases
      BY SenderFacts
    <3>2. TypeOK'
      <4>1. pc' \in [Senders -> Phases] /\ late' \subseteq Nat
        BY DEF IInv, TypeOK, Phases
      <4> QED  BY <4>1 DEF IInv, TypeOK
    <3>3. MutexInv' /\ SnapshotInv' /\ AnswerInv' /\ RetryInv'
          /\ SendsOnlyUnsent' /\ ConfirmedWasApplied' /\ CleanExitFlushed'
      BY DEF TypeOK, IInv, MutexInv, SnapshotInv, AnswerInv, RetryInv,
             SendsOnlyUnsent, ConfirmedWasApplied, CleanExitFlushed
    <3>o. OrderInv'
      <4>1. late' \in {late, late \cup {snap[s]}} /\ snap[s] \in Nat
        BY <1>3 DEF AttemptFails, IInv, TypeOK
      <4>2. stored <= snap[s] /\ \A r \in late : r <= snap[s]
        BY DEF IInv, OrderInv
      <4>3. \A t \in Senders : pc'[t] \in SnappedPhases => t = s
        BY <3>1 DEF IInv, TypeOK
      <4> QED  BY <4>1, <4>2, <4>3 DEF OrderInv
    <3>4. ServerInv'
      BY DEF IInv, ServerInv
    <3>5. MainInv' /\ PoolInv'
      BY <3>1 DEF TypeOK, IInv, MainInv, PoolInv, Senders
    <3> QED  BY <3>2, <3>3, <3>o, <3>4, <3>5 DEF IInv
  <2> QED  BY <2>4, <2>5, <2>6
<1>4. CASE MarkSent(s)
  <2>1. pc[s] = "mark" /\ Return(s, FALSE) /\ UNCHANGED <<sendVars, revision, serverVars>>
    BY <1>4 DEF MarkSent
  <2>2. snap[s] \in delivered /\ snap[s] > sentRevision
    BY <2>1 DEF IInv, AnswerInv, SendsOnlyUnsent
  <2>3. sentRevision' = snap[s]
    BY <1>4, <2>2 DEF MarkSent, markSent
  <2>4. s = Main => snap[s] = revision
    BY <2>1 DEF IInv, MainInv
  <2>5. late \subseteq 1..revision /\ (~LateDelivery => late = {})
    BY DEF IInv, ServerInv, OrderInv
  <2> QED  BY <2>1, <2>2, <2>3, <2>4, <2>5, ReturnIInv
<1> QED  BY <1>1, <1>2, <1>3, <1>4 DEF sendUnsentMetrics, SendStep

\* A late request is one of a sample that was collected; there is none without
\* late delivery.
LEMMA LateIInv ==
  ASSUME IInv, NEW r \in late, LateArrival(r)
  PROVE  IInv'
<1> USE DEF loopVars, poolVars, sendVars, metricVars, SnappedPhases, HoldingPhases, SendingPhases
<1>1. delivered' = delivered \cup {r} /\ stored' = r /\ late' \in {late, late \ {r}}
  BY DEF LateArrival, Apply
<1>2. r \in 1..revision /\ late' \subseteq late /\ LateDelivery
  BY <1>1 DEF IInv, ServerInv, OrderInv
<1>3. UNCHANGED <<loopVars, poolVars, pc, sendVars, sendMu, metricVars>>
  BY DEF LateArrival
<1>4. TypeOK'
  <2>1. delivered' \subseteq Nat /\ stored' \in Nat /\ late' \subseteq Nat
    BY <1>1, <1>2 DEF IInv, TypeOK
  <2> QED  BY <1>3, <2>1 DEF IInv, TypeOK
<1>5. MutexInv' /\ SnapshotInv' /\ AnswerInv' /\ RetryInv' /\ SendsOnlyUnsent'
      /\ ConfirmedWasApplied' /\ CleanExitFlushed' /\ MainInv' /\ PoolInv'
  BY <1>1, <1>3 DEF IInv, MutexInv, SnapshotInv, AnswerInv, RetryInv, SendsOnlyUnsent,
     ConfirmedWasApplied, CleanExitFlushed, MainInv, PoolInv
<1>6. ServerInv'
  BY <1>1, <1>2, <1>3 DEF IInv, TypeOK, ServerInv
<1>7. OrderInv'
  BY <1>1, <1>2, <1>3 DEF IInv, OrderInv
<1> QED  BY <1>4, <1>5, <1>6, <1>7 DEF IInv

\* IInv depends on the variables alone.
LEMMA StutterIInv == IInv /\ UNCHANGED vars => IInv'
BY DEF vars, loopVars, poolVars, sendVars, metricVars, serverVars, IInv, TypeOK, MutexInv,
   SnapshotInv, AnswerInv, ServerInv, RetryInv, OrderInv, MainInv, PoolInv, SendsOnlyUnsent,
   ConfirmedWasApplied, CleanExitFlushed

LEMMA StepIInv == IInv /\ [Next]_vars => IInv'
BY LoopIInv, WorkerIInv, SendIInv, LateIInv, StutterIInv DEF Next, Terminated

-----------------------------------------------------------------------------
(* What holds in every run *)

\* IInv is an invariant of the agent.
THEOREM InductiveInvariant == Spec => []IInv
<1>1. Init => IInv             BY InitIInv
<1>2. IInv /\ [Next]_vars => IInv'  BY StepIInv
<1> QED  BY <1>1, <1>2, PTL DEF Spec

\* The variables keep their types: among them, the channel never holds more than
\* RateLimit tasks and no send is retried more than MaxRetries times.
THEOREM TypeCorrect == Spec => []TypeOK
<1>1. IInv => TypeOK  BY DEF IInv
<1> QED  BY <1>1, InductiveInvariant, PTL

\* The revision recorded as sent was applied by the server (markSent).
THEOREM ConfirmedIsApplied == Spec => []ConfirmedWasApplied
<1>1. IInv => ConfirmedWasApplied  BY DEF IInv
<1> QED  BY <1>1, InductiveInvariant, PTL

\* No worker sends a snapshot that another one has already confirmed (sendMu).
THEOREM OnlyUnsentIsSent == Spec => []SendsOnlyUnsent
<1>1. IInv => SendsOnlyUnsent  BY DEF IInv
<1> QED  BY <1>1, InductiveInvariant, PTL

\* RunAgent returns nil only with every sample confirmed.
THEOREM CleanExit == Spec => []CleanExitFlushed
<1>1. IInv => CleanExitFlushed  BY DEF IInv
<1> QED  BY <1>1, InductiveInvariant, PTL

-----------------------------------------------------------------------------
(* The order of the server's values *)

\* Only a request that is handled and a late one change what the server holds.
LEMMA StoredUnchanged ==
  ASSUME Next, \A r \in late : ~LateArrival(r), \A s \in Senders : ~ServerApplies(s)
  PROVE  stored' = stored
<1> USE DEF vars, serverVars, loopVars, poolVars, sendVars, metricVars
<1>1. CASE Cancel \/ PollTick \/ ReportTick \/ RunAgent
  BY <1>1 DEF Cancel, PollTick, ReportTick, RunAgent, Configure, Startup, SelectPoll,
     SelectReport, SelectDone, AddTask, PoolWait
<1>2. ASSUME NEW w \in Workers, worker(w) PROVE stored' = stored
  BY <1>2 DEF worker, TakeTask, ExitWorker, Collect
<1>3. ASSUME NEW s \in Senders, sendUnsentMetrics(s) PROVE stored' = stored
  BY <1>3 DEF sendUnsentMetrics, SendStep, LockSend, Snapshot, CheckUnsent, Attempt, AttemptSucceeds,
     AttemptFails, Wake, MarkSent
<1>4. CASE Terminated  BY <1>4 DEF Terminated
<1> QED  BY <1>1, <1>2, <1>3, <1>4 DEF Next

\* A request that is handled while its sender waits never brings an older sample
\* than the one the server holds.
LEMMA StoredGrows ==
  ASSUME IInv, Next, \A r \in late : ~LateArrival(r)
  PROVE  stored' >= stored
<1>1. stored \in Nat
  BY DEF IInv, TypeOK
<1>2. ASSUME NEW s \in Senders, ServerApplies(s) PROVE stored' >= stored
  <2>1. pc[s] = "await" /\ stored' = snap[s]
    BY <1>2 DEF ServerApplies, Apply
  <2>2. stored <= snap[s]
    BY <2>1 DEF IInv, OrderInv, SnappedPhases, HoldingPhases
  <2>3. snap[s] \in Nat
    BY DEF IInv, TypeOK
  <2> QED  BY <1>1, <2>1, <2>2, <2>3
<1>3. CASE \A s \in Senders : ~ServerApplies(s)
  <2>1. stored' = stored  BY <1>3, StoredUnchanged
  <2> QED  BY <1>1, <2>1
<1> QED  BY <1>2, <1>3

\* Whatever the workers, the retries and the network do, the server's values are
\* replaced by those of an older sample only when a request arrives that the
\* agent gave up: sendMu keeps all others in the order of their snapshots.
THEOREM SnapshotsOrderedUntilLate == Spec => OnlyLateRegresses
<1>1. IInv /\ [Next]_vars => [stored' < stored => \E r \in late : LateArrival(r)]_vars
  <2> SUFFICES ASSUME IInv, Next, \A r \in late : ~LateArrival(r) PROVE ~(stored' < stored)
    OBVIOUS
  <2>1. stored' \in Nat /\ stored \in Nat
    BY StepIInv DEF IInv, TypeOK
  <2>2. stored' >= stored
    BY StoredGrows
  <2> QED  BY <2>1, <2>2
<1> QED  BY <1>1, InductiveInvariant, PTL DEF Spec, OnlyLateRegresses

\* When no request outlives its sender's patience, they are never replaced by
\* those of an older sample.
THEOREM SnapshotsStayOrdered ==
  ASSUME ~LateDelivery
  PROVE  Spec => ServerNeverRegresses
<1>1. IInv /\ [Next]_vars => [stored' >= stored]_vars
  <2> SUFFICES ASSUME IInv, Next PROVE stored' >= stored
    OBVIOUS
  <2>1. late = {}
    BY DEF IInv, OrderInv
  <2> QED  BY <2>1, StoredGrows
<1> QED  BY <1>1, InductiveInvariant, PTL DEF Spec, ServerNeverRegresses

-----------------------------------------------------------------------------
(* Every poll tick is collected *)

\* Queued and Collecting are finite, so that they have a size.
LEMMA CountsAreNumbers ==
  ASSUME IInv
  PROVE  /\ IsFiniteSet(Queued) /\ Cardinality(Queued) \in Nat
         /\ IsFiniteSet(Collecting) /\ Cardinality(Collecting) \in Nat
         /\ Len(taskChan) \in Nat /\ DOMAIN taskChan = 1..Len(taskChan)
<1>1. Len(taskChan) \in Nat /\ DOMAIN taskChan = 1..Len(taskChan)
  BY DEF IInv, TypeOK
<1>2. IsFiniteSet(1..Len(taskChan)) /\ IsFiniteSet(Workers)
  BY <1>1, FS_Interval DEF Workers
<1>3. IsFiniteSet(Queued) /\ IsFiniteSet(Collecting)
  BY <1>1, <1>2, FS_Subset DEF Queued, Collecting
<1> QED  BY <1>1, <1>3, FS_CardinalityType

\* AddTask of a collect adds one to the queue, of a send none.
LEMMA AppendQueues ==
  ASSUME IInv, NEW t \in {"collect", "send"}, taskChan' = Append(taskChan, t)
  PROVE  Cardinality(Queued') = Cardinality(Queued) + (IF t = "collect" THEN 1 ELSE 0)
<1> DEFINE next == Len(taskChan) + 1
<1>1. taskChan \in Seq({"collect", "send"}) /\ Len(taskChan) \in Nat
      /\ DOMAIN taskChan = 1..Len(taskChan)
  BY CountsAreNumbers DEF IInv, TypeOK
<1>2. /\ DOMAIN taskChan' = 1..next /\ taskChan'[next] = t
      /\ \A i \in 1..Len(taskChan) : taskChan'[i] = taskChan[i]
  BY <1>1
<1>3. Queued' = IF t = "collect" THEN Queued \cup {next} ELSE Queued
  BY <1>1, <1>2 DEF Queued
<1>4. next \notin Queued
  BY <1>1 DEF Queued
<1>5. Cardinality(Queued \cup {next}) = Cardinality(Queued) + 1
  BY <1>4, CountsAreNumbers, FS_AddElement
<1> QED  BY <1>3, <1>5, CountsAreNumbers

\* Taking the head of the channel takes one from the queue when it is a collect: the
\* others move up by one place.
LEMMA TailQueues ==
  ASSUME IInv, taskChan # <<>>, taskChan' = Tail(taskChan)
  PROVE  /\ Cardinality(Queued') \in Nat
         /\ Cardinality(Queued) = Cardinality(Queued')
                                    + (IF Head(taskChan) = "collect" THEN 1 ELSE 0)
<1> DEFINE rest == Queued \ {1}
           f == [i \in rest |-> i - 1]
<1>1. taskChan \in Seq({"collect", "send"}) /\ Len(taskChan) \in Nat \ {0}
      /\ DOMAIN taskChan = 1..Len(taskChan) /\ Head(taskChan) = taskChan[1]
  BY EmptySeq, CountsAreNumbers DEF IInv, TypeOK
<1>2. /\ DOMAIN taskChan' = 1..(Len(taskChan) - 1)
      /\ \A i \in 1..(Len(taskChan) - 1) : taskChan'[i] = taskChan[i + 1]
  BY <1>1
<1>3. Queued' = {i \in 1..(Len(taskChan) - 1) : taskChan[i + 1] = "collect"}
  BY <1>2 DEF Queued
<1>4. rest = {i \in 2..Len(taskChan) : taskChan[i] = "collect"}
  BY <1>1 DEF Queued
<1>5. f \in Bijection(rest, Queued')
  <2> HIDE DEF rest
  <2>1. \A i \in rest : i - 1 \in Queued' /\ i \in Int
    BY <1>1, <1>3, <1>4
  <2>2. \A j \in Queued' : j + 1 \in rest /\ (j + 1) - 1 = j
    BY <1>1, <1>3, <1>4
  <2>3. f \in Surjection(rest, Queued')
    BY <2>1, <2>2 DEF Surjection
  <2>4. f \in Injection(rest, Queued')
    BY <2>1 DEF Injection, IsInjective
  <2> QED  BY <2>3, <2>4 DEF Bijection
<1>6. IsFiniteSet(rest) /\ Cardinality(rest) = IF 1 \in Queued THEN Cardinality(Queued) - 1
                                                               ELSE Cardinality(Queued)
  BY CountsAreNumbers, FS_RemoveElement
<1>7. Cardinality(Queued') = Cardinality(rest)
  <2> HIDE DEF rest, f
  <2> QED  BY <1>5, <1>6, FS_Bijection DEF ExistsBijection
<1>8. 1 \in Queued <=> Head(taskChan) = "collect"
  BY <1>1 DEF Queued
<1> QED  BY <1>6, <1>7, <1>8, CountsAreNumbers, FS_CardinalityType

\* Steps that move no collect task and count no poll.
LEMMA SameCollects ==
  ASSUME CollectInv, UNCHANGED <<polls, revision, taskChan>>,
         loop' = "addCollect" <=> loop = "addCollect",
         \A w \in Workers : pc'[w] = "collect" <=> pc[w] = "collect"
  PROVE  CollectInv'
<1>1. Queued' = Queued /\ Collecting' = Collecting
  BY DEF Queued, Collecting
<1> QED  BY <1>1 DEF CollectInv

\* Nothing was received at the start.
LEMMA InitCollects == Init => CollectInv
<1> SUFFICES ASSUME Init PROVE CollectInv
  OBVIOUS
<1>1. Queued = {} /\ Collecting = {}
  BY DEF Init, Queued, Collecting, Senders, Workers
<1> QED  BY <1>1, FS_EmptySet DEF CollectInv, Init

\* A worker takes a collect task from the queue, and gives it up with a new revision.
LEMMA WorkerCollects == ASSUME IInv, CollectInv, NEW w \in Workers, worker(w) PROVE CollectInv'
<1> USE DEF loopVars, metricVars
<1>a. pc \in [Senders -> Phases] /\ w \in Senders /\ revision \in Nat
  BY DEF IInv, TypeOK, Senders
<1>1. CASE TakeTask(w)
  <2>1. /\ pc[w] = "idle" /\ taskChan # <<>> /\ taskChan' = Tail(taskChan)
        /\ pc' = [pc EXCEPT ![w] = IF Head(taskChan) = "collect" THEN "collect" ELSE "lock"]
        /\ UNCHANGED <<polls, revision, loop>>
    BY <1>1 DEF TakeTask
  <2>2. Collecting' = (IF Head(taskChan) = "collect" THEN Collecting \cup {w} ELSE Collecting)
        /\ w \notin Collecting
    BY <1>a, <2>1 DEF Collecting, Senders
  <2>3. Cardinality(Collecting \cup {w}) = Cardinality(Collecting) + 1
    BY <2>2, CountsAreNumbers, FS_AddElement
  <2>4. /\ Cardinality(Queued') \in Nat
        /\ Cardinality(Queued) = Cardinality(Queued')
                                   + (IF Head(taskChan) = "collect" THEN 1 ELSE 0)
    BY <2>1, TailQueues
  <2>5. CASE Head(taskChan) = "collect"
    <3>1. /\ Cardinality(Collecting') = Cardinality(Collecting) + 1
          /\ Cardinality(Queued) = Cardinality(Queued') + 1
      BY <2>2, <2>3, <2>4, <2>5
    <3> DEFINE q == Cardinality(Queued')
               c == Cardinality(Collecting)
               x == IF loop = "addCollect" THEN 1 ELSE 0
    <3>2. q \in Nat /\ c \in Nat /\ x \in Nat
      BY <2>4, CountsAreNumbers
    <3>3. polls = revision + (q + 1) + c + x
      BY <3>1 DEF CollectInv
    <3> HIDE DEF q, c, x
    <3>4. polls = revision + q + (c + 1) + x
      BY <1>a, <3>2, <3>3
    <3>5. Cardinality(Collecting') = c + 1 /\ q = Cardinality(Queued')
      BY <3>1 DEF c, q
    <3> QED  BY <2>1, <3>4, <3>5 DEF CollectInv, x
  <2>6. CASE Head(taskChan) # "collect"
    <3>1. /\ Cardinality(Collecting') = Cardinality(Collecting)
          /\ Cardinality(Queued) = Cardinality(Queued')
      BY <2>2, <2>4, <2>6, CountsAreNumbers
    <3> QED  BY <1>a, <2>1, <2>4, <3>1, CountsAreNumbers DEF CollectInv
  <2> QED  BY <2>5, <2>6
<1>2. CASE ExitWorker(w)
  BY <1>a, <1>2, SameCollects DEF ExitWorker, poolVars
<1>3. CASE Collect(w)
  <2>1. /\ pc[w] = "collect" /\ revision' = revision + 1 /\ pc' = [pc EXCEPT ![w] = "idle"]
        /\ UNCHANGED <<polls, taskChan, loop>>
    BY <1>3 DEF Collect, poolVars
  <2>2. Collecting' = Collecting \ {w} /\ w \in Collecting /\ Queued' = Queued
    BY <1>a, <2>1 DEF Collecting, Queued, Senders
  <2>3. Cardinality(Collecting \ {w}) = Cardinality(Collecting) - 1
    BY <2>2, CountsAreNumbers, FS_RemoveElement
  <2> QED  BY <1>a, <2>1, <2>2, <2>3, CountsAreNumbers DEF CollectInv
<1> QED  BY <1>1, <1>2, <1>3 DEF worker

\* RunAgent counts a poll when it is about to add its task, and then adds it.
LEMMA LoopCollects ==
  ASSUME IInv, CollectInv, Cancel \/ PollTick \/ ReportTick \/ RunAgent PROVE CollectInv'
<1> USE DEF poolVars, metricVars
<1>1. CASE SelectPoll
  <2>1. /\ loop = "select" /\ loop' = "addCollect" /\ polls' = polls + 1
        /\ UNCHANGED <<revision, taskChan, pc>>
    BY <1>1 DEF SelectPoll
  <2>2. Queued' = Queued /\ Collecting' = Collecting
    BY <2>1 DEF Queued, Collecting
  <2> QED  BY <2>1, <2>2, CountsAreNumbers DEF CollectInv, IInv, TypeOK
<1>2. CASE AddTask
  <2> DEFINE t == IF loop = "addCollect" THEN "collect" ELSE "send"
  <2>1. /\ loop' = "select" /\ taskChan' = Append(taskChan, t) /\ t \in {"collect", "send"}
        /\ UNCHANGED <<revision, polls, pc>>
    BY <1>2 DEF AddTask
  <2>2. Cardinality(Queued') = Cardinality(Queued) + (IF t = "collect" THEN 1 ELSE 0)
    BY <2>1, AppendQueues
  <2>3. Collecting' = Collecting
    BY <2>1 DEF Collecting
  <2> QED  BY <2>1, <2>2, <2>3, CountsAreNumbers DEF CollectInv, IInv, TypeOK
<1>3. CASE PoolWait
  <2>1. \A w \in Workers : pc'[w] = pc[w]
    BY <1>3 DEF PoolWait, IInv, TypeOK, Workers, Main
  <2> QED  BY <1>3, <2>1, SameCollects DEF PoolWait
<1>4. CASE Cancel \/ PollTick \/ ReportTick \/ Configure \/ Startup \/ SelectReport \/ SelectDone
  BY <1>4, SameCollects DEF Cancel, PollTick, ReportTick, Configure, Startup, SelectReport, SelectDone
<1> QED  BY <1>1, <1>2, <1>3, <1>4 DEF RunAgent

\* A send moves no collect task.
LEMMA SendCollects ==
  ASSUME IInv, CollectInv, NEW s \in Senders, sendUnsentMetrics(s) PROVE CollectInv'
<1> USE DEF loopVars, poolVars, sendVars, metricVars, HoldingPhases
<1>a. pc \in [Senders -> Phases] /\ Workers \subseteq Senders
  BY DEF IInv, TypeOK, Senders
<1>1. /\ UNCHANGED <<polls, revision, taskChan>>
      /\ UNCHANGED loop \/ (s = Main /\ loop' = "returned")
      /\ pc[s] \in {"lock"} \cup HoldingPhases
      /\ \E q \in Phases \ {"collect"} : pc' = [pc EXCEPT ![s] = q]
  <2> USE DEF Phases
  <2>1. CASE LockSend(s)
    BY <2>1 DEF LockSend
  <2>2. CASE Snapshot(s)
    BY <2>2 DEF Snapshot
  <2>3. CASE CheckUnsent(s)
    BY <2>3 DEF CheckUnsent, Return
  <2>4. CASE Attempt(s)
    BY <2>4 DEF Attempt
  <2>5. CASE AttemptSucceeds(s)
    BY <2>5 DEF AttemptSucceeds
  <2>6. CASE Wake(s)
    BY <2>6 DEF Wake
  <2>7. CASE MarkSent(s)
    BY <2>7 DEF MarkSent, Return
  <2>8. CASE ServerApplies(s)
    <3>1. pc' = [pc EXCEPT ![s] = "await"]
      BY <1>a, <2>8 DEF ServerApplies
    <3> QED  BY <2>8, <3>1 DEF ServerApplies
  <2>9. ASSUME NEW e \in Errors, AttemptFails(s, e)
        PROVE  /\ UNCHANGED <<polls, revision, taskChan>>
               /\ UNCHANGED loop \/ (s = Main /\ loop' = "returned")
               /\ pc[s] \in {"lock"} \cup HoldingPhases
               /\ \E q \in Phases \ {"collect"} : pc' = [pc EXCEPT ![s] = q]
    BY <2>9 DEF AttemptFails, Return
  <2> QED  BY <2>1, <2>2, <2>3, <2>4, <2>5, <2>6, <2>7, <2>8, <2>9 DEF sendUnsentMetrics, SendStep
<1>2. loop' = "addCollect" <=> loop = "addCollect"
  BY <1>1 DEF IInv, MainInv
<1>3. \A w \in Workers : pc'[w] = "collect" <=> pc[w] = "collect"
  BY <1>a, <1>1
<1> QED  BY <1>1, <1>2, <1>3, SameCollects

\* All steps.
LEMMA StepCollects == IInv /\ CollectInv /\ [Next]_vars => CollectInv'
<1>1. ASSUME CollectInv, UNCHANGED vars PROVE CollectInv'
  BY <1>1, SameCollects DEF vars, loopVars, poolVars, metricVars
<1>2. ASSUME CollectInv, NEW r \in late, LateArrival(r) PROVE CollectInv'
  BY <1>2, SameCollects DEF LateArrival, loopVars, poolVars, metricVars
<1> QED  BY <1>1, <1>2, LoopCollects, WorkerCollects, SendCollects DEF Next, Terminated

\* The poll ticks are counted exactly: each that was received is one revision, a task
\* in the channel or with a worker, or about to be added, and once RunAgent has waited
\* for the pool it is a revision, which the last send covers.
THEOREM PollsAreCollected == Spec => []EveryCollectionCounted
<1>1. IInv /\ CollectInv => EveryCollectionCounted
  <2> SUFFICES ASSUME IInv, CollectInv, loop \in {"flush", "returned"} PROVE revision = polls
    BY DEF EveryCollectionCounted
  <2>1. Queued = {} /\ Collecting = {}
    BY DEF IInv, PoolInv, Queued, Collecting
  <2> QED  BY <2>1, FS_EmptySet DEF CollectInv, IInv, TypeOK
<1> QED  BY <1>1, InitCollects, StepCollects, InductiveInvariant, PTL DEF Spec

-----------------------------------------------------------------------------
(* The refinement of Reporter *)

LEMMA InitRefines == Init => Abstract!Init
BY DEF Init, Abstract!Init

\* The end of RunAgent is Reporter's Finish, whether or not the last step of
\* the run also confirms the last sample; a worker's return is not seen.
LEMMA ReturnRefines ==
  ASSUME IInv, IInv', NEW s \in Senders, NEW failed \in BOOLEAN,
         pc[s] \in HoldingPhases, Return(s, failed),
         UNCHANGED <<revision, delivered>>,
         sentRevision' = sentRevision
           \/ (~failed /\ snap[s] \in delivered /\ snap[s] > sentRevision /\ sentRevision' = snap[s])
  PROVE  [Abstract!Next]_(Abstract!vars)
<1>1. result = "none" /\ (s = Main <=> loop = "flush")
  BY SenderFacts
<1>2. CASE s = Main
  <2>1. result' = IF failed THEN "error" ELSE "nil"
    BY <1>2 DEF Return
  <2>2. ~failed => sentRevision' = revision
    BY <2>1 DEF IInv, CleanExitFlushed
  <2>3. Abstract!Finish
    BY <1>1, <2>1, <2>2 DEF Abstract!Finish
  <2> QED  BY <2>3 DEF Abstract!Next
<1>3. CASE s # Main
  <2>1. result' = result
    BY <1>3 DEF Return
  <2>2. CASE sentRevision' = sentRevision
    BY <2>1, <2>2 DEF Abstract!vars
  <2>3. CASE snap[s] \in delivered /\ snap[s] > sentRevision /\ sentRevision' = snap[s]
    BY <1>1, <2>1, <2>3 DEF Abstract!Confirm, Abstract!Next
  <2> QED  BY <2>2, <2>3
<1> QED  BY <1>2, <1>3

LEMMA StepRefines == IInv /\ IInv' /\ [Next]_vars => [Abstract!Next]_(Abstract!vars)
<1> SUFFICES ASSUME IInv, IInv', [Next]_vars PROVE [Abstract!Next]_(Abstract!vars)
  OBVIOUS
<1> USE DEF loopVars, poolVars, sendVars, metricVars, serverVars
<1>1. CASE Cancel \/ PollTick \/ ReportTick \/ RunAgent
  <2>1. UNCHANGED <<revision, sentRevision, delivered>>
    BY <1>1 DEF Cancel, PollTick, ReportTick, RunAgent, Configure, Startup, SelectPoll,
       SelectReport, SelectDone, AddTask, PoolWait
  <2>2. result' = result \/ (result = "none" /\ result' \in {"nil", "error"})
    BY <1>1 DEF Cancel, PollTick, ReportTick, RunAgent, Configure, Startup, SelectPoll,
       SelectReport, SelectDone, AddTask, PoolWait, IInv, MainInv
  <2>3. CASE result' = result
    BY <2>1, <2>3 DEF Abstract!vars
  <2>4. CASE result = "none" /\ result' \in {"nil", "error"}
    <3>1. result' = "nil" => sentRevision' = revision
      BY <2>1 DEF IInv, CleanExitFlushed
    <3>2. Abstract!Finish
      BY <2>1, <2>4, <3>1 DEF Abstract!Finish
    <3> QED  BY <3>2 DEF Abstract!Next
  <2> QED  BY <2>2, <2>3, <2>4
<1>2. ASSUME NEW w \in Workers, worker(w) PROVE [Abstract!Next]_(Abstract!vars)
  <2>1. CASE TakeTask(w) \/ ExitWorker(w)
    BY <2>1 DEF TakeTask, ExitWorker, Abstract!vars
  <2>2. CASE Collect(w)
    <3>1. result = "none"
      BY <2>2 DEF Collect, IInv, MainInv, PoolInv
    <3>2. Abstract!Collect
      BY <2>2, <3>1 DEF Collect, Abstract!Collect
    <3> QED  BY <3>2 DEF Abstract!Next
  <2> QED  BY <1>2, <2>1, <2>2 DEF worker
<1>3. ASSUME NEW s \in Senders, sendUnsentMetrics(s) PROVE [Abstract!Next]_(Abstract!vars)
  <2>1. CASE LockSend(s) \/ Snapshot(s) \/ Attempt(s) \/ AttemptSucceeds(s) \/ Wake(s)
    BY <2>1 DEF LockSend, Snapshot, Attempt, AttemptSucceeds, Wake, Abstract!vars
  <2>2. CASE CheckUnsent(s)
    <3>1. pc[s] \in HoldingPhases /\ UNCHANGED <<revision, delivered, sentRevision>>
      BY <2>2 DEF CheckUnsent, HoldingPhases
    <3>2. CASE Return(s, FALSE)
      BY <3>1, <3>2, ReturnRefines
    <3>3. CASE UNCHANGED loopVars
      BY <3>1, <3>3 DEF Abstract!vars
    <3> QED  BY <2>2, <3>2, <3>3 DEF CheckUnsent
  <2>3. CASE ServerApplies(s)
    <3>1. snap[s] \in 1..revision
      BY <2>3 DEF ServerApplies, IInv, TypeOK, SnapshotInv, SendsOnlyUnsent, SnappedPhases,
         SendingPhases, HoldingPhases
    <3>2. Abstract!Deliver
      BY <2>3, <3>1 DEF ServerApplies, Apply, Abstract!Deliver
    <3> QED  BY <3>2 DEF Abstract!Next
  <2>4. ASSUME NEW e \in Errors, AttemptFails(s, e)
        PROVE  [Abstract!Next]_(Abstract!vars)
    <3>1. pc[s] \in HoldingPhases /\ UNCHANGED <<revision, delivered, sentRevision>>
      BY <2>4 DEF AttemptFails, HoldingPhases
    <3>2. CASE Return(s, TRUE)
      BY <3>1, <3>2, ReturnRefines
    <3>3. CASE UNCHANGED loopVars
      BY <3>1, <3>3 DEF Abstract!vars
    <3> QED  BY <2>4, <3>2, <3>3 DEF AttemptFails
  <2>5. CASE MarkSent(s)
    <3>1. pc[s] = "mark" /\ pc[s] \in HoldingPhases /\ UNCHANGED <<revision, delivered>>
          /\ Return(s, FALSE)
      BY <2>5 DEF MarkSent, HoldingPhases
    <3>2. snap[s] \in delivered /\ snap[s] > sentRevision
      BY <3>1 DEF IInv, AnswerInv, SendsOnlyUnsent, SendingPhases
    <3>3. sentRevision' = snap[s]
      BY <2>5, <3>2 DEF MarkSent, markSent
    <3> QED  BY <3>1, <3>2, <3>3, ReturnRefines
  <2> QED  BY <1>3, <2>1, <2>2, <2>3, <2>4, <2>5 DEF sendUnsentMetrics, SendStep
<1>4. ASSUME NEW r \in late, LateArrival(r) PROVE [Abstract!Next]_(Abstract!vars)
  <2>1. delivered' = delivered \cup {r}
    BY <1>4 DEF LateArrival, Apply
  <2>2. r \in 1..revision
    BY DEF IInv, ServerInv
  <2>3. Abstract!Deliver
    BY <1>4, <2>1, <2>2 DEF LateArrival, Abstract!Deliver
  <2> QED  BY <2>3 DEF Abstract!Next
<1>5. CASE Terminated \/ UNCHANGED vars
  BY <1>5 DEF Terminated, vars, Abstract!vars
<1> QED  BY <1>1, <1>2, <1>3, <1>4, <1>5 DEF Next

\* The agent, with its pool, its retries and its shutdown, implements Reporter.
THEOREM Refinement == Spec => ImplementsReporter
<1>1. Init => Abstract!Init  BY InitRefines
<1>2. IInv /\ IInv' /\ [Next]_vars => [Abstract!Next]_(Abstract!vars)  BY StepRefines
<1> QED  BY <1>1, <1>2, InductiveInvariant, PTL DEF Spec, ImplementsReporter, Abstract!Spec
=============================================================================
