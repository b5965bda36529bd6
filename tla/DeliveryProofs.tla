--------------------------- MODULE DeliveryProofs ---------------------------
(***************************************************************************)
(* Proofs about Delivery: its steps are steps of the agent, so that all     *)
(* that is proved about MetricsAgent holds of it, and a sample is counted   *)
(* once, and once more at most per attempt with an unknown outcome.         *)
(***************************************************************************)
EXTENDS Delivery, MetricsAgentProofs

\* Each step of Delivery is one of the agent, the network or its server.
LEMMA DeliveryStep == [DeliveryNext]_deliveryVars => [Next]_vars
<1>1. ASSUME AgentStep PROVE [Next]_vars
  BY <1>1 DEF AgentStep, Next, sendUnsentMetrics
<1>2. ASSUME NEW s \in Senders, Handle(s) PROVE Next
  BY <1>2 DEF Handle, Next, sendUnsentMetrics
<1>3. ASSUME NEW s \in Senders, NEW e \in Errors, Fail(s, e) PROVE Next
  BY <1>3 DEF Fail, Next, sendUnsentMetrics
<1>4. ASSUME NEW r \in late, ArriveLate(r) PROVE Next
  BY <1>4 DEF ArriveLate, Next
<1>5. UNCHANGED deliveryVars => UNCHANGED vars
  BY DEF deliveryVars
<1> QED  BY <1>1, <1>2, <1>3, <1>4, <1>5 DEF DeliveryNext

\* The counter, the network and the history only observe the agent: every
\* behaviour of Delivery is one of the agent, which keeps its invariants there.
THEOREM DeliveryIsAgent == DeliverySpec => Spec
<1>1. DeliveryInit => Init  BY DEF DeliveryInit
<1> QED  BY <1>1, DeliveryStep, PTL DEF DeliverySpec, Spec

-----------------------------------------------------------------------------
(* A sample is counted once per doubt *)

\* A count changed at one sample is still a count.
LEMMA CountUpdated ==
  ASSUME NEW f \in [Samples -> Nat], NEW q, NEW n, q \in Samples => n \in Nat
  PROVE  [f EXCEPT ![q] = n] \in [Samples -> Nat]
<1>1. CASE q \in Samples
  BY <1>1
<1>2. CASE q \notin Samples
  <2>1. \A r \in Samples : [f EXCEPT ![q] = n][r] = f[r]  BY <1>2
  <2>2. [f EXCEPT ![q] = n] = f  BY <1>2, <2>1
  <2> QED  BY <2>2
<1> QED  BY <1>1, <1>2

\* Nothing is counted at the start.
LEMMA InitCount == DeliveryInit => CountInv
BY DEF DeliveryInit, CountInv, None, Samples, BoundsAssumption

\* Steps that no request takes part in: what was known stays known.
LEMMA AgentStepCount == ASSUME IInv, CountInv, AgentStep PROVE CountInv'
<1> USE DEF loopVars, poolVars, sendVars, metricVars, serverVars
<1>1. UNCHANGED <<applied, doubts, inTransit>>
  BY DEF AgentStep, counterVars
<1>2. ASSUME NEW r \in Samples, Known(r) PROVE Known(r)'
  <2>a. pc \in [Senders -> Phases] /\ snap \in [Senders -> Nat]
        /\ accepted \in [Senders -> BOOLEAN] /\ sentRevision \in Nat /\ r \in Int
        /\ Main \in Senders /\ Workers \subseteq Senders /\ Main \notin Workers
    BY DEF IInv, TypeOK, Samples, Senders, Workers, Main
  <2>1. CASE Cancel \/ PollTick \/ ReportTick \/ Terminated
    BY <1>2, <2>1 DEF Cancel, PollTick, ReportTick, Terminated, vars, Known
  <2>2. CASE RunAgent
    <3>1. CASE PoolWait
      BY <1>2, <2>a, <3>1 DEF PoolWait, Known, IInv, MainInv
    <3>2. CASE ~PoolWait
      BY <1>2, <2>2, <3>2 DEF RunAgent, Configure, Startup, SelectPoll, SelectReport,
         SelectDone, AddTask, Known
    <3> QED  BY <3>1, <3>2
  <2>3. ASSUME NEW w \in Workers, worker(w) PROVE Known(r)'
    BY <1>2, <2>a, <2>3 DEF worker, TakeTask, ExitWorker, Collect, Known
  <2>4. ASSUME NEW s \in Senders, SendStep(s) PROVE Known(r)'
    <3>1. CASE LockSend(s) \/ Snapshot(s) \/ Attempt(s) \/ AttemptSucceeds(s) \/ Wake(s)
      BY <1>2, <2>a, <3>1 DEF LockSend, Snapshot, Attempt, AttemptSucceeds, Wake, Known
    <3>2. CASE CheckUnsent(s)
      BY <1>2, <2>a, <3>2 DEF CheckUnsent, Return, Known
    <3>3. CASE MarkSent(s)
      <4>1. sentRevision' >= sentRevision /\ sentRevision' >= snap[s]
        BY <2>a, <3>3 DEF MarkSent, markSent
      <4> QED  BY <1>2, <2>a, <3>3, <4>1 DEF MarkSent, markSent, Return, Known
    <3> QED  BY <2>4, <3>1, <3>2, <3>3 DEF SendStep
  <2> QED  BY <2>1, <2>2, <2>3, <2>4 DEF AgentStep
<1> QED  BY <1>1, <1>2 DEF CountInv

\* A request is handled: nobody knows of its sample yet, since hasUnsent found it
\* newer than all that is confirmed and sendMu keeps every other sender out.
LEMMA HandleCount == ASSUME IInv, CountInv, NEW s \in Senders, Handle(s) PROVE CountInv'
<1> DEFINE q == snap[s]
<1>a. pc \in [Senders -> Phases] /\ snap \in [Senders -> Nat] /\ sentRevision \in Nat
      /\ accepted \in [Senders -> BOOLEAN]
  BY DEF IInv, TypeOK
<1>b. /\ pc[s] = "await" /\ ~accepted[s] /\ UNCHANGED <<pc, snap, sentRevision>>
      /\ accepted' = [accepted EXCEPT ![s] = TRUE]
      /\ applied' = [applied EXCEPT ![q] = @ + 1]
      /\ UNCHANGED <<doubts, inTransit>>
  BY DEF Handle, ServerApplies, Add, metricVars
<1>1. ~Known(q)
  <2>1. q > sentRevision
    BY <1>a, <1>b DEF IInv, SendsOnlyUnsent, SendingPhases
  <2>2. \A t \in Senders : pc[t] \in {"mark", "await"} => t = s
    BY <1>b DEF IInv, MutexInv, HoldingPhases
  <2> QED  BY <1>a, <1>b, <2>1, <2>2 DEF Known
<1>2. Known(q)'
  BY <1>a, <1>b DEF Known
<1>3. \A r \in Samples : Known(r) => Known(r)'
  BY <1>a, <1>b DEF Known
<1>4. ASSUME NEW r \in Samples
      PROVE  applied'[r] + inTransit'[r] <= doubts'[r] + (IF Known(r)' THEN 1 ELSE 0)
  <2>1. CASE r = q
    BY <1>b, <1>1, <1>2, <2>1 DEF CountInv
  <2>2. CASE r # q
    BY <1>b, <1>3, <2>2 DEF CountInv
  <2> QED  BY <2>1, <2>2
<1>5. applied' \in [Samples -> Nat] /\ doubts' \in [Samples -> Nat]
      /\ inTransit' \in [Samples -> Nat]
  BY <1>b, CountUpdated DEF CountInv
<1> QED  BY <1>4, <1>5 DEF CountInv

\* An attempt fails: the agent forgets what it was about to learn, or leaves a
\* request behind, and either way does not know what became of it.
LEMMA FailCount ==
  ASSUME IInv, CountInv, NEW s \in Senders, NEW e \in Errors, Fail(s, e) PROVE CountInv'
<1> DEFINE q == snap[s]
<1>a. pc \in [Senders -> Phases] /\ snap \in [Senders -> Nat] /\ sentRevision \in Nat
      /\ accepted \in [Senders -> BOOLEAN]
  BY DEF IInv, TypeOK
<1>b. /\ pc[s] = "await" /\ UNCHANGED <<applied, snap, accepted, sentRevision>>
      /\ pc' \in {[pc EXCEPT ![s] = "sleep"], [pc EXCEPT ![s] = "idle"]}
  BY DEF Fail, AttemptFails, Return, metricVars, sendVars
<1>c. /\ accepted[s] => e \notin Rejections
      /\ LeavesLate(s, e) => e \notin Rejections /\ ~accepted[s]
  BY DEF Fail, AttemptFails, LeavesLate, Abandoned, Rejections
<1>d. /\ doubts' = IF e \in Rejections THEN doubts ELSE [doubts EXCEPT ![q] = @ + 1]
      /\ inTransit' = IF LeavesLate(s, e) THEN [inTransit EXCEPT ![q] = @ + 1] ELSE inTransit
  BY DEF Fail
<1>1. \A r \in Samples : Known(r) /\ (r # q \/ ~accepted[s]) => Known(r)'
  BY <1>a, <1>b DEF Known
<1>2. ASSUME NEW r \in Samples
      PROVE  applied'[r] + inTransit'[r] <= doubts'[r] + (IF Known(r)' THEN 1 ELSE 0)
  <2> USE DEF CountInv
  <2>1. CASE r # q
    BY <1>b, <1>d, <1>1, <2>1
  <2>2. CASE r = q /\ accepted[s]
    BY <1>b, <1>c, <1>d, <2>2
  <2>3. CASE r = q /\ ~accepted[s]
    BY <1>b, <1>c, <1>d, <1>1, <2>3
  <2> QED  BY <2>1, <2>2, <2>3
<1>3. applied' \in [Samples -> Nat] /\ doubts' \in [Samples -> Nat]
      /\ inTransit' \in [Samples -> Nat]
  <2>1. applied \in [Samples -> Nat] /\ doubts \in [Samples -> Nat]
        /\ inTransit \in [Samples -> Nat]
    BY DEF CountInv
  <2>2. /\ [doubts EXCEPT ![q] = @ + 1] \in [Samples -> Nat]
        /\ [inTransit EXCEPT ![q] = @ + 1] \in [Samples -> Nat]
    BY <2>1, CountUpdated
  <2> QED  BY <1>b, <1>d, <2>1, <2>2
<1> QED  BY <1>2, <1>3 DEF CountInv

\* A request arrives late: it was counted as in transit before.
LEMMA LateCount == ASSUME IInv, CountInv, NEW q \in late, ArriveLate(q) PROVE CountInv'
<1>1. /\ UNCHANGED <<doubts, pc, snap, accepted, sentRevision>>
      /\ applied' = [applied EXCEPT ![q] = @ + 1]
      /\ inTransit' = [inTransit EXCEPT ![q] = @ - 1] /\ inTransit[q] > 0
  BY DEF ArriveLate, LateArrival, Add, sendVars, metricVars
<1>2. \A r \in Samples : Known(r)' <=> Known(r)
  BY <1>1 DEF Known
<1>3. applied' \in [Samples -> Nat] /\ doubts' \in [Samples -> Nat]
      /\ inTransit' \in [Samples -> Nat]
  <2>1. applied \in [Samples -> Nat] /\ doubts \in [Samples -> Nat]
        /\ inTransit \in [Samples -> Nat]
    BY DEF CountInv
  <2>2. /\ [applied EXCEPT ![q] = @ + 1] \in [Samples -> Nat]
        /\ [inTransit EXCEPT ![q] = @ - 1] \in [Samples -> Nat]
    BY <1>1, <2>1, CountUpdated
  <2> QED  BY <1>1, <2>1, <2>2
<1>4. ASSUME NEW r \in Samples
      PROVE  applied'[r] + inTransit'[r] <= doubts'[r] + (IF Known(r)' THEN 1 ELSE 0)
  <2>1. CASE r = q
    BY <1>1, <1>2, <2>1 DEF CountInv
  <2>2. CASE r # q
    BY <1>1, <1>2, <2>2 DEF CountInv
  <2> QED  BY <2>1, <2>2
<1> QED  BY <1>3, <1>4 DEF CountInv

\* The steps together keep the invariant.
LEMMA StepCount == IInv /\ CountInv /\ [DeliveryNext]_deliveryVars => CountInv'
<1>1. IInv /\ CountInv /\ UNCHANGED deliveryVars => CountInv'
  BY DEF deliveryVars, counterVars, vars, sendVars, metricVars, CountInv, Known
<1> QED  BY <1>1, AgentStepCount, HandleCount, FailCount, LateCount DEF DeliveryNext

\* However the attempts, the retries, the reports and late requests interleave, a
\* sample is added to the server's counter once and once more at most per attempt
\* whose outcome the agent could not know (sendUnsentMetrics holds sendMu over the
\* check and the request).  The server handles each request once: repeats that
\* PostgresStorage makes of its own after a commit in doubt are not in Delivery.
THEOREM SampleCountedOncePerDoubt == DeliverySpec => []CountedOncePerDoubt
<1>1. CountInv => CountedOncePerDoubt
  <2> SUFFICES ASSUME CountInv, NEW r \in Samples PROVE applied[r] <= 1 + doubts[r]
    BY DEF CountedOncePerDoubt
  <2> QED  BY DEF CountInv
<1> QED  BY <1>1, InitCount, StepCount, DeliveryIsAgent, InductiveInvariant, PTL DEF DeliverySpec

-----------------------------------------------------------------------------
(* Integers of bounded width *)

\* What is left of a division is less than the divisor.
LEMMA Division ==
  ASSUME NEW m \in Nat \ {0}, NEW a \in Int, NEW q \in Int, NEW r \in Int,
         q = a \div m, r = a % m
  PROVE  a = m * q + r /\ r \in 0..(m - 1)
OBVIOUS

\* It is the only such remainder.
LEMMA Remainder ==
  ASSUME NEW m \in Nat \ {0}, NEW q \in Int, NEW r \in 0..(m - 1), NEW a \in Int, a = m * q + r
  PROVE  a % m = r
OBVIOUS

\* Wrap returns an integer of the code.
LEMMA WrapFits == ASSUME NEW n \in Int PROVE Wrap(n) \in MinInt..MaxInt
<1> USE MaxIntAssumption DEF MinInt
<1> DEFINE m == 2 * (MaxInt + 1)
           r == (n - MinInt) % m
<1>1. m \in Nat \ {0} /\ n - MinInt \in Int
  OBVIOUS
<1>2. r \in 0..(m - 1)
  <2> HIDE DEF m
  <2> QED  BY <1>1
<1> QED  BY <1>2 DEF Wrap

\* It returns what is one already.
LEMMA WrapKeeps == ASSUME NEW n \in MinInt..MaxInt PROVE Wrap(n) = n
<1> USE MaxIntAssumption DEF MinInt
<1> DEFINE m == 2 * (MaxInt + 1)
           a == n - MinInt
<1>1. m \in Nat \ {0} /\ a \in 0..(m - 1)
  OBVIOUS
<1>2. a % m = a
  <2> HIDE DEF m, a
  <2> QED  BY <1>1
<1> QED  BY <1>2 DEF Wrap

\* Wrapping around at each addition or at the end is the same.
LEMMA WrapAdds == ASSUME NEW n \in Int, NEW k \in Int PROVE Wrap(Wrap(n) + k) = Wrap(n + k)
<1> USE MaxIntAssumption DEF MinInt
<1> DEFINE m == 2 * (MaxInt + 1)
           a == n - MinInt
           x == a % m
           q == a \div m
           b == (Wrap(n) + k) - MinInt
           y == b % m
           p == b \div m
           c == (n + k) - MinInt
<1>1. m \in Nat \ {0} /\ a \in Int /\ c \in Int /\ Wrap(n) \in Int /\ b \in Int
  BY WrapFits
<1>2. x \in Int /\ q \in Int /\ y \in Int /\ p \in Int
  <2> HIDE DEF m, a, b
  <2> QED  BY <1>1
<1>3. Wrap(n) = x + MinInt /\ Wrap(Wrap(n) + k) = y + MinInt /\ Wrap(n + k) = (c % m) + MinInt
  BY DEF Wrap
<1>4. b = x + k /\ c = a + k
  BY <1>2, <1>3
<1>5. /\ a = m * q + x
      /\ b = m * p + y /\ y \in 0..(m - 1)
  <2> HIDE DEF m, a, b
  <2> QED  BY <1>1, <1>2, Division
<1>6. c % m = y
  <2> HIDE DEF m, a, b, c, x, y, p, q
  <2>1. c = m * (q + p) + y
    BY <1>1, <1>2, <1>4, <1>5
  <2> QED  BY <1>1, <1>2, <1>5, <2>1, Remainder
<1> QED  BY <1>3, <1>6

-----------------------------------------------------------------------------
(* The counter *)

\* Whatever was collected, sent or given up is one of the bounded samples.
LEMMA SentAreSamples ==
  ASSUME IInv, DeliveryInv
  PROVE  /\ revision \in Nat /\ revision <= MaxPolls
         /\ delivered \subseteq Samples /\ late \subseteq Samples
         /\ stored \in Nat /\ stored <= revision
         /\ \A s \in Senders : pc[s] \in SendingPhases => snap[s] \in Samples
<1> USE BoundsAssumption
<1>1. revision \in Nat /\ polls \in Nat /\ polls <= MaxPolls
  BY DEF IInv, TypeOK, DeliveryInv, PollsInv
<1>2. Cardinality(Queued) \in Nat /\ Cardinality(Collecting) \in Nat
  BY CountsAreNumbers
<1>3. revision <= MaxPolls
  <2> DEFINE x == IF loop = "addCollect" THEN 1 ELSE 0
  <2>1. polls = revision + Cardinality(Queued) + Cardinality(Collecting) + x /\ x \in Nat
    BY DEF DeliveryInv, CollectInv
  <2> HIDE DEF x
  <2> QED  BY <1>1, <1>2, <2>1
<1>4. 1..revision \subseteq Samples
  BY <1>1, <1>3 DEF Samples
<1>5. ASSUME NEW s \in Senders, pc[s] \in SendingPhases PROVE snap[s] \in Samples
  <2>1. snap[s] \in Nat /\ snap[s] > sentRevision /\ sentRevision \in Nat
    BY <1>5 DEF IInv, TypeOK, SendsOnlyUnsent
  <2>2. snap[s] <= revision
    BY <1>5 DEF IInv, SnapshotInv, SnappedPhases, SendingPhases, HoldingPhases
  <2> QED  BY <1>1, <1>4, <2>1, <2>2
<1> QED  BY <1>1, <1>3, <1>4, <1>5 DEF IInv, TypeOK, ServerInv

\* The poll ticker keeps its bound.
LEMMA PollsStep == ASSUME IInv, PollsInv, [Next]_vars PROVE PollsInv'
<1> USE DEF loopVars, PollsInv
<1>a. polls \in Nat /\ MaxPolls \in Nat
  BY BoundsAssumption DEF IInv, TypeOK
<1>1. ASSUME UNCHANGED <<polls, ticks>> PROVE PollsInv'
  BY <1>1
<1>2. CASE PollTick
  BY <1>2 DEF PollTick
<1>3. CASE ReportTick
  BY <1>3 DEF ReportTick
<1>4. CASE RunAgent
  BY <1>a, <1>4 DEF RunAgent, Configure, Startup, SelectPoll, SelectReport, SelectDone, AddTask, PoolWait
<1>5. CASE Cancel \/ UNCHANGED vars \/ Terminated
  BY <1>1, <1>5 DEF Cancel, Terminated, vars
<1>6. ASSUME NEW w \in Workers, worker(w) PROVE PollsInv'
  BY <1>1, <1>6 DEF worker, TakeTask, ExitWorker, Collect
<1>7. ASSUME NEW s \in Senders, SendStep(s) PROVE PollsInv'
  BY <1>1, <1>7 DEF SendStep, LockSend, Snapshot, CheckUnsent, Attempt, AttemptSucceeds, Wake,
     MarkSent, Return
<1>8. ASSUME NEW s \in Senders, ServerApplies(s) PROVE PollsInv'
  BY <1>1, <1>8 DEF ServerApplies
<1>9. ASSUME NEW s \in Senders, NEW e \in Errors, AttemptFails(s, e) PROVE PollsInv'
  BY <1>1, <1>9 DEF AttemptFails, Return
<1>10. ASSUME NEW r \in late, LateArrival(r) PROVE PollsInv'
  BY <1>1, <1>10 DEF LateArrival
<1> QED  BY <1>2, <1>3, <1>4, <1>5, <1>6, <1>7, <1>8, <1>9, <1>10 DEF Next, sendUnsentMetrics

\* A sample is added to the counter: the sum wraps around, and in PostgreSQL it is
\* only added where it need not.
LEMMA AddKeepsSum ==
  ASSUME DeliveryInv, NEW r \in Samples, Add(r)
  PROVE  /\ total' \in MinInt..MaxInt /\ added' = added + r /\ added' \in Nat
         /\ SumInv' /\ storage' = storage
<1> USE BoundsAssumption, MaxIntAssumption
<1>1. r \in Nat /\ r \in MinInt..MaxInt
  BY DEF Samples, MinInt
<1>2. PollCount(r) = r
  BY <1>1, WrapKeeps DEF PollCount
<1>3. /\ total' = Wrap(total + r) /\ added' = added + r /\ storage' = storage
      /\ storage = "postgres" => total + r <= MaxInt
  BY <1>2 DEF Add, Fits
<1>4. /\ total \in Int /\ added \in Nat /\ total = Wrap(added)
      /\ storage = "postgres" => added <= MaxInt
  BY DEF DeliveryInv, DeliveryTypeOK, SumInv, MinInt
<1>5. total' \in MinInt..MaxInt
  BY <1>1, <1>3, <1>4, WrapFits
<1>6. total' = Wrap(added')
  BY <1>1, <1>3, <1>4, WrapAdds
<1>7. storage = "postgres" => added' <= MaxInt
  <2> SUFFICES ASSUME storage = "postgres" PROVE added' <= MaxInt
    OBVIOUS
  <2>1. Wrap(added) = added
    <3>1. added \in MinInt..MaxInt
      BY <1>4 DEF MinInt
    <3> QED  BY <3>1, WrapKeeps
  <2> QED  BY <1>1, <1>3, <1>4, <2>1
<1> QED  BY <1>1, <1>3, <1>4, <1>5, <1>6, <1>7 DEF SumInv

\* The sum 1 + 2 + ... of the samples, up to the last.
LEMMA Triangle ==
  ASSUME NEW a \in Nat, NEW b \in Nat
  PROVE  /\ a <= b => a * (a + 1) <= b * (b + 1)
         /\ a < b => a * (a + 1) + 2 * b <= b * (b + 1)
<1>1. CASE a = b
  BY <1>1
<1>2. CASE a < b
  <2> DEFINE d == b - a
  <2>1. d \in Nat /\ d >= 1 /\ b = a + d
    BY <1>2
  <2> HIDE DEF d
  <2>2. b * (b + 1) = a * (a + 1) + 2 * (a * d) + d * d + d
    BY <2>1
  <2>3. a * d >= a /\ d * d >= d /\ a * d \in Nat /\ d * d \in Nat /\ a * (a + 1) \in Nat
    BY <2>1
  <2> QED  BY <1>2, <2>1, <2>2, <2>3
<1> QED  BY <1>1, <1>2

\* A request with sample r is applied, in its order if no attempt is in doubt.
LEMMA AppliedKeeps ==
  ASSUME IInv, DeliveryInv, NEW r \in Samples, Add(r), Apply(r), UNCHANGED doubts,
         CountInv', \A x \in Samples : inTransit'[x] <= inTransit[x],
         (\A x \in Samples : doubts[x] = 0) => stored < r
  PROVE  DeliveryTypeOK' /\ SumInv' /\ AddedInv' /\ OnceInv'
<1> USE BoundsAssumption
<1>1. /\ total' \in MinInt..MaxInt /\ added' = added + r /\ added' \in Nat
      /\ SumInv' /\ storage' = storage
  BY AddKeepsSum
<1>2. /\ stored' = r /\ delivered' = delivered \cup {r} /\ applied' = [applied EXCEPT ![r] = @ + 1]
  BY DEF Apply, Add
<1>3. /\ r \in Nat /\ stored \in Nat /\ added \in Nat /\ delivered \subseteq Samples
      /\ applied \in [Samples -> Nat] /\ doubts \in [Samples -> Nat] /\ inTransit \in [Samples -> Nat]
  <2>1. Samples \subseteq Nat
    BY DEF Samples
  <2>2. stored \in Nat /\ added \in Nat /\ delivered \subseteq Samples
    BY <2>1, SentAreSamples DEF DeliveryInv, DeliveryTypeOK
  <2>3. applied \in [Samples -> Nat] /\ doubts \in [Samples -> Nat] /\ inTransit \in [Samples -> Nat]
    BY SentAreSamples DEF DeliveryInv, DeliveryTypeOK, IInv, CountInv
  <2> QED  BY <2>1, <2>2, <2>3
<1>4. DeliveryTypeOK'
  BY <1>1 DEF DeliveryInv, DeliveryTypeOK, CountInv
<1>5. /\ applied'[r] > 0 /\ \A x \in Samples : x # r => applied'[x] = applied[x]
      /\ \A x \in Samples : inTransit'[x] \in Nat
  BY <1>2, <1>3 DEF CountInv
<1>6. AddedInv'
  <2>1. stored' \in Samples /\ applied'[stored'] > 0
    BY <1>2, <1>5
  <2>2. \A x \in delivered' : applied'[x] > 0
    BY <1>2, <1>3, <1>5 DEF DeliveryInv, AddedInv
  <2>3. ASSUME NEW x \in Samples, applied'[x] > 0 PROVE added' >= x
    <3>1. CASE x = r
      BY <1>1, <1>3, <3>1
    <3>2. CASE x # r
      <4>1. added >= x /\ x \in Nat
        BY <1>5, <2>3, <3>2 DEF DeliveryInv, AddedInv, Samples
      <4> QED  BY <1>1, <1>3, <4>1
    <3> QED  BY <3>1, <3>2
  <2>4. ASSUME NEW x \in Samples PROVE inTransit'[x] <= doubts'[x]
    BY <1>3, <1>5 DEF DeliveryInv, AddedInv
  <2> QED  BY <2>1, <2>2, <2>3, <2>4 DEF AddedInv
<1>7. OnceInv'
  <2> SUFFICES ASSUME \A x \in Samples : doubts[x] = 0 PROVE 2 * added' <= r * (r + 1)
    BY <1>2 DEF OnceInv
  <2>1. stored < r /\ 2 * added <= stored * (stored + 1)
    BY DEF DeliveryInv, OnceInv
  <2>2. stored * (stored + 1) + 2 * r <= r * (r + 1)
    BY <1>3, <2>1, Triangle
  <2>3. stored * (stored + 1) \in Nat /\ r * (r + 1) \in Nat
    BY <1>3
  <2> QED  BY <1>1, <1>3, <2>1, <2>2, <2>3
<1> QED  BY <1>1, <1>4, <1>6, <1>7

\* Nothing is added at the start.
LEMMA InitDelivery == DeliveryInit => DeliveryInv
<1> SUFFICES ASSUME DeliveryInit PROVE DeliveryInv
  OBVIOUS
<1> USE BoundsAssumption, MaxIntAssumption, StoragesAssumption
<1>1. Init /\ CountInv /\ CollectInv
  BY InitCount, InitCollects DEF DeliveryInit
<1>2. PollsInv
  BY <1>1 DEF Init, PollsInv
<1>3. SumInv
  <2>1. Wrap(0) = 0
    BY WrapKeeps DEF MinInt
  <2> QED  BY <2>1 DEF DeliveryInit, SumInv
<1>4. DeliveryTypeOK
  BY <1>1 DEF DeliveryInit, DeliveryTypeOK, CountInv, MinInt
<1>5. AddedInv /\ OnceInv
  BY <1>1 DEF DeliveryInit, Init, AddedInv, OnceInv, None, Samples
<1> QED  BY <1>1, <1>2, <1>3, <1>4, <1>5 DEF DeliveryInv

\* Every step keeps the invariant.
LEMMA StepDelivery == IInv /\ IInv' /\ DeliveryInv /\ [DeliveryNext]_deliveryVars => DeliveryInv'
<1> SUFFICES ASSUME IInv, DeliveryInv, [DeliveryNext]_deliveryVars PROVE DeliveryInv'
  OBVIOUS
<1> USE DEF serverVars
<1>1. PollsInv' /\ CollectInv' /\ CountInv'
  BY DeliveryStep, PollsStep, StepCollects, StepCount DEF DeliveryInv
<1>2. ASSUME UNCHANGED <<counterVars, delivered, stored>>
      PROVE  DeliveryTypeOK' /\ SumInv' /\ AddedInv' /\ OnceInv'
  BY <1>2 DEF counterVars, DeliveryInv, DeliveryTypeOK, SumInv, AddedInv, OnceInv, Wrap
<1>3. ASSUME AgentStep PROVE UNCHANGED <<counterVars, delivered, stored>>
  <2>1. UNCHANGED counterVars
    BY <1>3 DEF AgentStep
  <2>2. CASE Cancel \/ PollTick \/ ReportTick \/ RunAgent \/ Terminated
    BY <2>1, <2>2 DEF Cancel, PollTick, ReportTick, Terminated, vars, RunAgent, Configure, Startup,
       SelectPoll, SelectReport, SelectDone, AddTask, PoolWait
  <2>3. ASSUME NEW w \in Workers, worker(w) PROVE UNCHANGED <<delivered, stored>>
    BY <2>3 DEF worker, TakeTask, ExitWorker, Collect
  <2>4. ASSUME NEW s \in Senders, SendStep(s) PROVE UNCHANGED <<delivered, stored>>
    BY <2>4 DEF SendStep, LockSend, Snapshot, CheckUnsent, Attempt, AttemptSucceeds, Wake, MarkSent
  <2> QED  BY <1>3, <2>1, <2>2, <2>3, <2>4 DEF AgentStep
<1>4. ASSUME NEW s \in Senders, Handle(s)
      PROVE  DeliveryTypeOK' /\ SumInv' /\ AddedInv' /\ OnceInv'
  <2>1. /\ pc[s] = "await" /\ ~accepted[s] /\ Apply(snap[s]) /\ Add(snap[s])
        /\ UNCHANGED <<doubts, inTransit>>
    BY <1>4 DEF Handle, ServerApplies
  <2>2. snap[s] \in Samples /\ stored \in Nat
    BY <2>1, SentAreSamples DEF SendingPhases
  <2>3. (\A x \in Samples : doubts[x] = 0) => stored < snap[s]
    <3> SUFFICES ASSUME \A x \in Samples : doubts[x] = 0, stored # 0 PROVE stored < snap[s]
      BY <2>2 DEF Samples
    <3>1. /\ snap[s] > sentRevision /\ sentRevision \in Nat /\ snap[s] \in Nat
          /\ \A t \in Senders : pc[t] \in {"mark", "await"} => t = s
      BY <2>1 DEF IInv, TypeOK, SendsOnlyUnsent, SendingPhases, MutexInv, HoldingPhases
    <3>2. stored \in Samples /\ applied[stored] > 0
      BY DEF DeliveryInv, AddedInv
    <3>3. Known(stored)
      <4>1. /\ applied[stored] \in Nat /\ inTransit[stored] \in Nat /\ doubts[stored] = 0
            /\ applied[stored] + inTransit[stored]
                 <= doubts[stored] + (IF Known(stored) THEN 1 ELSE 0)
        BY <3>2 DEF DeliveryInv, CountInv
      <4> QED  BY <3>2, <4>1
    <3>4. stored <= sentRevision
      BY <2>1, <3>1, <3>3 DEF Known
    <3> QED  BY <2>2, <3>1, <3>4
  <2>4. \A x \in Samples : inTransit'[x] <= inTransit[x]
    BY <2>1 DEF DeliveryInv, DeliveryTypeOK
  <2> QED  BY <1>1, <2>1, <2>2, <2>3, <2>4, AppliedKeeps
<1>5. ASSUME NEW s \in Senders, NEW e \in Errors, Fail(s, e)
      PROVE  DeliveryTypeOK' /\ SumInv' /\ AddedInv' /\ OnceInv'
  <2> DEFINE q == snap[s]
  <2>1. /\ UNCHANGED <<storage, total, added, applied, delivered, stored>> /\ pc[s] = "await"
        /\ doubts' = IF e \in Rejections THEN doubts ELSE [doubts EXCEPT ![q] = @ + 1]
        /\ inTransit' = IF LeavesLate(s, e) THEN [inTransit EXCEPT ![q] = @ + 1] ELSE inTransit
        /\ LeavesLate(s, e) => e \notin Rejections
    BY <1>5 DEF Fail, AttemptFails, LeavesLate, Abandoned, Rejections
  <2>2. q \in Samples
    BY <2>1, SentAreSamples DEF SendingPhases
  <2>3. doubts \in [Samples -> Nat] /\ inTransit \in [Samples -> Nat]
    BY DEF DeliveryInv, DeliveryTypeOK
  <2> HIDE DEF q
  <2>4. \A x \in Samples : /\ doubts'[x] >= doubts[x] /\ doubts'[x] \in Nat
                           /\ inTransit[x] <= doubts[x] => inTransit'[x] <= doubts'[x]
    BY <2>1, <2>2, <2>3
  <2>5. DeliveryTypeOK' /\ SumInv'
    BY <1>1, <2>1 DEF DeliveryInv, DeliveryTypeOK, SumInv, CountInv, Wrap
  <2>6. AddedInv'
    BY <2>1, <2>4 DEF DeliveryInv, AddedInv
  <2>7. OnceInv'
    <3> SUFFICES ASSUME \A x \in Samples : doubts'[x] = 0 PROVE 2 * added <= stored * (stored + 1)
      BY <2>1 DEF OnceInv
    <3>1. \A x \in Samples : doubts[x] = 0
      BY <2>3, <2>4
    <3> QED  BY <3>1 DEF DeliveryInv, OnceInv
  <2> QED  BY <2>5, <2>6, <2>7
<1>6. ASSUME NEW r \in late, ArriveLate(r)
      PROVE  DeliveryTypeOK' /\ SumInv' /\ AddedInv' /\ OnceInv'
  <2>1. /\ Apply(r) /\ Add(r) /\ UNCHANGED doubts
        /\ inTransit' = [inTransit EXCEPT ![r] = @ - 1] /\ inTransit[r] > 0
    BY <1>6 DEF ArriveLate, LateArrival
  <2>2. r \in Samples
    BY SentAreSamples
  <2>3. inTransit \in [Samples -> Nat] /\ doubts[r] \in Nat /\ inTransit[r] <= doubts[r]
    BY <2>2 DEF DeliveryInv, DeliveryTypeOK, AddedInv
  <2>4. ~(\A x \in Samples : doubts[x] = 0)
    BY <2>1, <2>2, <2>3
  <2>5. \A x \in Samples : inTransit'[x] <= inTransit[x]
    BY <2>1, <2>3
  <2> QED  BY <1>1, <2>1, <2>2, <2>4, <2>5, AppliedKeeps
<1>7. CASE UNCHANGED deliveryVars
  BY <1>1, <1>2, <1>7 DEF deliveryVars, vars, DeliveryInv
<1> QED  BY <1>1, <1>2, <1>3, <1>4, <1>5, <1>6, <1>7 DEF DeliveryNext, DeliveryInv

\* The counter and the history keep what they say, for any bounds and any width.
THEOREM DeliveryInvariant == DeliverySpec => []DeliveryInv
BY InitDelivery, StepDelivery, DeliveryIsAgent, InductiveInvariant, PTL DEF DeliverySpec

\* Every variable keeps its type: the counter stays an integer of the code.
THEOREM DeliveryTypeCorrect == DeliverySpec => []DeliveryTypeOK
<1>1. DeliveryInv => DeliveryTypeOK
  BY DEF DeliveryInv
<1> QED  BY <1>1, DeliveryInvariant, PTL

\* RunAgent without an error: the counter of MemoryStorage, until the sum of its deltas
\* wraps around, and that of PostgresStorage always holds at least the number of polls,
\* and at most 1 + 2 + ... + revision unless the outcome of an attempt was in doubt.
THEOREM CleanExitIsBounded == DeliverySpec => []CleanExitCounts
<1>1. IInv /\ DeliveryInv => CleanExitCounts
  <2> SUFFICES ASSUME IInv, DeliveryInv, result = "nil",
                      storage = "memory" => added <= MaxInt
               PROVE  /\ total >= revision
                      /\ (\A r \in Samples : doubts[r] = 0) => 2 * total <= revision * (revision + 1)
    BY DEF CleanExitCounts
  <2>1. /\ revision \in Nat /\ stored \in Nat /\ stored <= revision /\ added \in Nat
        /\ delivered \subseteq Samples
    BY SentAreSamples DEF DeliveryInv, DeliveryTypeOK
  <2>2. total = added
    <3>1. added <= MaxInt
      BY DEF DeliveryInv, DeliveryTypeOK, SumInv
    <3>2. added \in MinInt..MaxInt
      BY <2>1, <3>1, MaxIntAssumption DEF MinInt
    <3> QED  BY <3>2, WrapKeeps DEF DeliveryInv, SumInv
  <2>3. added >= revision
    <3>1. sentRevision = revision
      BY DEF IInv, CleanExitFlushed
    <3>2. CASE revision = 0
      BY <2>1, <3>2
    <3>3. CASE revision # 0
      BY <2>1, <3>1, <3>3 DEF IInv, ConfirmedWasApplied, DeliveryInv, AddedInv
    <3> QED  BY <3>2, <3>3
  <2>4. ASSUME \A r \in Samples : doubts[r] = 0 PROVE 2 * added <= revision * (revision + 1)
    <3>1. 2 * added <= stored * (stored + 1)
      BY <2>4 DEF DeliveryInv, OnceInv
    <3>2. stored * (stored + 1) <= revision * (revision + 1)
      BY <2>1, Triangle
    <3>3. stored * (stored + 1) \in Nat /\ revision * (revision + 1) \in Nat
      BY <2>1
    <3> QED  BY <2>1, <3>1, <3>2, <3>3
  <2> QED  BY <2>2, <2>3, <2>4
<1> QED  BY <1>1, DeliveryInvariant, DeliveryIsAgent, InductiveInvariant, PTL
=============================================================================
