------------------------- MODULE MetricsServerProofs -------------------------
(***************************************************************************)
(* Proofs about MetricsServer for any metrics, requests, flags and number   *)
(* of starts: the inductive invariant IInv and the safety properties it     *)
(* implies, that the file never forgets, and the refinement of              *)
(* DurableStore.                                                            *)
(***************************************************************************)
EXTENDS MetricsServer, TLAPS

USE KindsAssumption, FlagsAssumption DEF KindsAssumption, FlagsAssumption

-----------------------------------------------------------------------------
(* The inductive invariant, one lemma per group of actions *)

\* Init establishes IInv: nothing was requested, nothing is stored.
LEMMA InitIInv == Init => IInv
<1> SUFFICES ASSUME Init PROVE IInv
  OBVIOUS
<1> USE DEF Init, Empty
<1>1. TypeOK
  <2>1. starts \in 0..MaxStarts
    OBVIOUS
  <2>2. /\ phase \in Phases /\ reason \in {"none", "signal", "server", "storage"}
        /\ result \in {"none", "nil", "error"} /\ (result # "none" <=> phase = "stopped")
    BY DEF Phases
  <2>3. ctxDone \in BOOLEAN /\ stopFile \in BOOLEAN /\ last \in BOOLEAN /\ loop \in LoopPhases
    BY DEF LoopPhases
  <2>4. hpc \in [Requests -> HandlerPhases]
    BY DEF HandlerPhases
  <2>5. mem \in [Keys -> SUBSET Updates] /\ image \in [Keys -> SUBSET Updates] /\ file \in [Keys -> SUBSET Updates]
    OBVIOUS
  <2> QED  BY <2>1, <2>2, <2>3, <2>4, <2>5 DEF TypeOK
<1>2. ProcessInv /\ QuietInv /\ HandlerInv
  BY DEF ProcessInv, QuietInv, HandlerInv, Active, HTTPRequests, Requests, Updates
<1>3. StoredInv /\ LookedUpInv /\ SavedInv /\ BatchesAreWhole
  BY DEF StoredInv, LookedUpInv, SavedInv, BatchesAreWhole, Whole, Keys, Updates, OfOneMetric,
         Requests
<1> QED  BY <1>1, <1>2, <1>3 DEF IInv

\* A process begins and ends with empty hands.
LEMMA LifeIInv == IInv /\ (Start \/ Crash) => IInv'
<1> SUFFICES ASSUME IInv, Start \/ Crash PROVE IInv'
  OBVIOUS
<1> USE DEF Start, Crash, Empty, Up, Phases
<1>a. /\ \A r \in Requests : ~Active(r)'
      /\ \A r \in Requests : hpc'[r] = hpc[r] \/ hpc'[r] = "lost"
      /\ \A r \in Requests : known'[r] = {}
  BY DEF IInv, TypeOK, QuietInv, HandlerInv, Active, HTTPRequests, Requests, Updates
<1>1. TypeOK'
  <2>1. starts' \in 0..MaxStarts
    BY DEF IInv, TypeOK
  <2>2. hpc' \in [Requests -> HandlerPhases]
    BY DEF IInv, TypeOK, HandlerPhases
  <2>3. mem' \in [Keys -> SUBSET Updates] /\ image' \in [Keys -> SUBSET Updates]
    OBVIOUS
  <2> QED  BY <2>1, <2>2, <2>3 DEF IInv, TypeOK, LoopPhases
<1>2. ProcessInv'
  BY DEF IInv, ProcessInv, TypeOK
<1>3. QuietInv' /\ HandlerInv'
  BY <1>a DEF QuietInv, HandlerInv, HTTPRequests, Requests, Updates, Active
<1>4. StoredInv'
  BY <1>a DEF IInv, StoredInv, Requests, Active
<1>5. LookedUpInv'
  BY <1>a DEF LookedUpInv, Active, OfOneMetric, Requests, Updates
<1>6. SavedInv'
  BY DEF SavedInv
<1>7. BatchesAreWhole'
  BY DEF IInv, BatchesAreWhole, Whole, Keys
<1> QED  BY <1>1, <1>2, <1>3, <1>4, <1>5, <1>6, <1>7 DEF IInv

\* RunServer's steps and the signal.
LEMMA RunServerIInv == IInv /\ (Signal \/ RunServer) => IInv'
<1> SUFFICES ASSUME IInv, Signal \/ RunServer PROVE IInv'
  OBVIOUS
<1> USE DEF handlerVars, fileVars, Up, Phases
<1>1. CASE Restore
  <2> USE <1>1 DEF Restore
  <2>1. TypeOK'
    BY DEF IInv, TypeOK, LoopPhases
  <2>2. ProcessInv' /\ QuietInv'
    BY DEF IInv, ProcessInv, QuietInv, Active, TypeOK
  <2>3. HandlerInv' /\ LookedUpInv'
    <3>1. \A r \in OfOneMetric : ~Active(r)
      BY DEF IInv, QuietInv, OfOneMetric, Requests, Updates
    <3> QED  BY <3>1 DEF IInv, HandlerInv, LookedUpInv, Active
  <2>4. StoredInv'
    BY DEF IInv, StoredInv, QuietInv, ProcessInv, Active, Requests, Updates
  <2>5. SavedInv'
    BY DEF IInv, SavedInv, ProcessInv
  <2>6. BatchesAreWhole'
    BY DEF IInv, BatchesAreWhole, Whole
  <2> QED  BY <2>1, <2>2, <2>3, <2>4, <2>5, <2>6 DEF IInv
<1>2. CASE Signal \/ SelectDone \/ SelectServerError \/ SelectStorageDone \/ HTTPStopped
           \/ GRPCStopped \/ Flushed
  <2> USE <1>2 DEF Signal, SelectDone, SelectServerError, SelectStorageDone, LeaveSelect,
        HTTPStopped, GRPCStopped, Flushed
  <2>1. UNCHANGED <<starts, hpc, keys, seen, known, acked, mem, loop, last, image, file>>
    OBVIOUS
  <2>2. TypeOK'
    BY <2>1 DEF IInv, TypeOK
  <2>3. ProcessInv'
    BY <2>1 DEF IInv, ProcessInv, TypeOK, LoopPhases
  <2>4. QuietInv'
    BY <2>1 DEF IInv, QuietInv, Active, HTTPRequests, Requests, Updates
  <2>5. HandlerInv' /\ StoredInv' /\ LookedUpInv'
    BY <2>1 DEF IInv, HandlerInv, StoredInv, LookedUpInv, Active
  <2>6. SavedInv' /\ BatchesAreWhole'
    BY <2>1 DEF IInv, SavedInv, BatchesAreWhole, Whole
  <2> QED  BY <2>2, <2>3, <2>4, <2>5, <2>6 DEF IInv
<1> QED  BY <1>1, <1>2 DEF RunServer

\* A request that begins: it is in no metric yet.
LEMMA ArriveIInv == ASSUME IInv, NEW r \in Requests, Arrive(r) PROVE IInv'
<1> USE DEF Arrive, Accepting, serverVars, fileVars
<1>1. /\ hpc' \in [Requests -> HandlerPhases] /\ hpc[r] = "new"
      /\ \A q \in Requests : q # r => hpc'[q] = hpc[q] /\ keys'[q] = keys[q] /\ known'[q] = known[q]
      /\ hpc'[r] \in {"lookup", "save"}
  BY DEF IInv, TypeOK, HandlerPhases
<1>2. /\ keys'[r] \in (SUBSET Keys) \ {{}}
      /\ r \in OfOneMetric => hpc'[r] = "lookup" /\ \E k \in Keys : keys'[r] = {k}
      /\ r \notin OfOneMetric => hpc'[r] = "save"
      /\ known'[r] \subseteq acked
      /\ r \notin OfOneMetric => known'[r] = {}
  BY DEF IInv, TypeOK
<1>4. TypeOK'
  BY <1>1 DEF IInv, TypeOK
<1>5. ProcessInv' /\ QuietInv'
  BY <1>1 DEF IInv, ProcessInv, QuietInv, Active, HTTPRequests, Requests, Updates
<1>6. HandlerInv'
  <2>1. acked \subseteq {q \in Updates : hpc'[q] = "ok"}
    BY <1>1 DEF IInv, HandlerInv, Requests
  <2>3. \A q \in Requests : q # r => (Active(q)' <=> Active(q))
    BY <1>1 DEF Active
  <2>4. \A q \in Requests : q # r =>
          /\ known'[q] \subseteq acked'
          /\ Active(q)' => keys'[q] # {}
          /\ q \in OfOneMetric /\ Active(q)' => \E k \in Keys : keys'[q] = {k}
          /\ hpc'[q] = "lookup" => q \in OfOneMetric
          /\ hpc'[q] = "save" => q \in Updates
          /\ ~Active(q)' \/ q \notin OfOneMetric => known'[q] = {}
    BY <1>1, <2>3 DEF IInv, HandlerInv
  <2>5. /\ known'[r] \subseteq acked'
        /\ Active(r)' => keys'[r] # {}
        /\ r \in OfOneMetric /\ Active(r)' => \E k \in Keys : keys'[r] = {k}
        /\ hpc'[r] = "lookup" => r \in OfOneMetric
        /\ hpc'[r] = "save" => r \in Updates
        /\ ~Active(r)' \/ r \notin OfOneMetric => known'[r] = {}
    <3>1. r \in Updates \/ r \in OfOneMetric
      BY DEF Requests, OfOneMetric
    <3>2. CASE r \in OfOneMetric
      BY <1>2, <3>2 DEF Active
    <3>3. CASE r \notin OfOneMetric
      BY <1>2, <3>1, <3>3 DEF Active
    <3> QED  BY <3>2, <3>3
  <2> QED  BY <2>1, <2>4, <2>5 DEF HandlerInv
<1>7. StoredInv'
  BY <1>1 DEF IInv, StoredInv, HandlerInv, Requests
<1>8. LookedUpInv'
  <2> SUFFICES ASSUME NEW q \in OfOneMetric, hpc'[q] \in {"save", "reply"},
                      NEW k \in keys'[q] \cap Counters
               PROVE  /\ {u \in known'[q] : k \in keys'[u]} \subseteq seen[q]
                      /\ seen[q] \subseteq mem[k]
    BY DEF LookedUpInv
  <2>1. q \in Requests /\ q # r
    BY <1>1, <1>2 DEF OfOneMetric, Requests, Updates
  <2>2. known'[q] = known[q] /\ keys'[q] = keys[q] /\ hpc'[q] = hpc[q]
    BY <1>1, <2>1
  <2>3. \A u \in known[q] : u \in Requests /\ u # r
    BY <1>1, <2>1 DEF IInv, HandlerInv, Requests
  <2>4. \A u \in known[q] : keys'[u] = keys[u]
    BY <1>1, <2>3
  <2> QED  BY <2>2, <2>4 DEF IInv, LookedUpInv
<1>9. SavedInv'
  BY DEF IInv, SavedInv
<1>10. BatchesAreWhole'
  BY <1>1 DEF IInv, BatchesAreWhole, Whole, StoredInv, Requests, Updates, TypeOK, Keys
<1> QED  BY <1>4, <1>5, <1>6, <1>7, <1>8, <1>9, <1>10 DEF IInv

\* A request that is refused: it leaves nothing.
LEMMA RejectIInv == ASSUME IInv, NEW r \in Requests, Reject(r) PROVE IInv'
<1> USE DEF Reject, serverVars, fileVars
<1>1. /\ hpc' \in [Requests -> HandlerPhases] /\ hpc[r] \in {"lookup", "save"} /\ hpc'[r] = "error"
      /\ \A q \in Requests : q # r => hpc'[q] = hpc[q] /\ known'[q] = known[q]
      /\ known'[r] = {}
  BY DEF IInv, TypeOK, HandlerPhases
<1>2. TypeOK'
  BY <1>1 DEF IInv, TypeOK
<1>3. ProcessInv' /\ QuietInv'
  BY <1>1 DEF IInv, ProcessInv, QuietInv, Active, HTTPRequests, Requests, Updates
<1>4. HandlerInv'
  BY <1>1 DEF IInv, HandlerInv, Active, Requests
<1>5. StoredInv'
  BY <1>1 DEF IInv, StoredInv, Requests
<1>6. LookedUpInv'
  BY <1>1 DEF IInv, LookedUpInv, OfOneMetric, Requests, Updates
<1>7. SavedInv' /\ BatchesAreWhole'
  BY DEF IInv, SavedInv, BatchesAreWhole, Whole
<1> QED  BY <1>2, <1>3, <1>4, <1>5, <1>6, <1>7 DEF IInv

\* The metric is looked up: it has every update that was answered before.
LEMMA LookupIInv == ASSUME IInv, NEW r \in Requests, Lookup(r) PROVE IInv'
<1> USE DEF Lookup, serverVars, fileVars
<1>1. /\ hpc' \in [Requests -> HandlerPhases] /\ hpc[r] = "lookup"
      /\ \A q \in Requests : q # r => hpc'[q] = hpc[q] /\ seen'[q] = seen[q]
      /\ hpc'[r] \in {"save", "reply"} /\ (r \in Reads <=> hpc'[r] = "reply")
  BY DEF IInv, TypeOK, HandlerPhases
<1>2. r \in OfOneMetric /\ \E k \in Keys : keys[r] = {k} /\ seen'[r] = mem[k]
  BY <1>1 DEF IInv, TypeOK, HandlerInv, Active
<1>3. \A q \in Requests : Active(q)' <=> Active(q)
  BY <1>1 DEF Active
<1>4. TypeOK'
  BY <1>1, <1>2 DEF IInv, TypeOK
<1>5. ProcessInv' /\ QuietInv'
  BY <1>3 DEF IInv, ProcessInv, QuietInv, HTTPRequests, Requests, Updates
<1>6. HandlerInv'
  BY <1>1, <1>2, <1>3 DEF IInv, HandlerInv, OfOneMetric, Requests
<1>7. StoredInv'
  BY <1>1, <1>2 DEF IInv, StoredInv, OfOneMetric, Requests, Updates
<1>8. LookedUpInv'
  <2>1. \A u \in known[r] : \A k \in keys[u] \cap Counters : u \in mem[k]
    BY DEF IInv, HandlerInv, StoredInv
  <2>2. \A k \in keys[r] : seen'[r] = mem[k]
    BY <1>2
  <2>3. \A k \in keys[r] \cap Counters :
          {u \in known[r] : k \in keys[u]} \subseteq seen'[r] /\ seen'[r] \subseteq mem[k]
    BY <2>1, <2>2
  <2> QED  BY <1>1, <2>3 DEF IInv, LookedUpInv, OfOneMetric, Requests, Updates
<1>9. SavedInv' /\ BatchesAreWhole'
  BY DEF IInv, SavedInv, BatchesAreWhole, Whole
<1> QED  BY <1>4, <1>5, <1>6, <1>7, <1>8, <1>9 DEF IInv

\* A save adds one request to the metrics of that request, and takes nothing out of
\* a counter.
LEMMA Adds ==
  ASSUME NEW r \in Updates, NEW K \in SUBSET Keys, mem \in [Keys -> SUBSET Updates],
         saveMetricsLocked(r, K)
  PROVE  /\ mem' \in [Keys -> SUBSET Updates]
         /\ \A k \in Counters : mem'[k] = IF k \in K THEN mem[k] \cup {r} ELSE mem[k]
         /\ \A k \in Keys : mem'[k] \subseteq mem[k] \cup {r}
BY DEF saveMetricsLocked, Keys

\* Path updates and batches store their metrics under one lock; an interrupted batch
\* stores nothing.
LEMMA SaveIInv == ASSUME IInv, NEW r \in Requests, Save(r) \/ SaveBatch(r) PROVE IInv'
<1> USE DEF Save, SaveBatch, serverVars, fileVars
<1>1. /\ hpc' \in [Requests -> HandlerPhases] /\ hpc[r] = "save" /\ Active(r)
      /\ \A q \in Requests : q # r => hpc'[q] = hpc[q]
      /\ hpc'[r] \in {"reply", "error"}
      /\ r \in Updates /\ keys[r] \subseteq Keys
      /\ mem \in [Keys -> SUBSET Updates]
      /\ \A q \in Requests : q # r => seen'[q] = seen[q]
  BY DEF IInv, TypeOK, HandlerPhases, HandlerInv, Active
<1>2. /\ mem' \in [Keys -> SUBSET Updates]
      /\ \A k \in Counters : mem[k] \subseteq mem'[k] /\ mem'[k] \subseteq mem[k] \cup {r}
      /\ \A k \in Keys : mem'[k] \subseteq mem[k] \cup {r}
      /\ hpc'[r] = "reply" => \A k \in keys[r] \cap Counters : r \in mem'[k]
      /\ hpc'[r] = "reply" \/ mem' = mem
  <2>1. CASE mem' = mem /\ hpc'[r] = "error"
    BY <1>1, <2>1
  <2>2. CASE saveMetricsLocked(r, keys[r]) /\ hpc'[r] = "reply"
    <3>1. /\ mem' \in [Keys -> SUBSET Updates]
          /\ \A k \in Counters : mem'[k] = IF k \in keys[r] THEN mem[k] \cup {r} ELSE mem[k]
          /\ \A k \in Keys : mem'[k] \subseteq mem[k] \cup {r}
      BY <1>1, <2>2, Adds
    <3> QED  BY <2>2, <3>1
  <2>3. (mem' = mem /\ hpc'[r] = "error") \/ (saveMetricsLocked(r, keys[r]) /\ hpc'[r] = "reply")
    BY DEF IInv, TypeOK
  <2> QED  BY <2>1, <2>2, <2>3
<1>3. phase \in {"serving", "stopHTTP", "stopGRPC"}
  BY <1>1 DEF IInv, QuietInv
<1>4. /\ seen' \in [Requests -> SUBSET Updates]
      /\ seen'[r] = seen[r] \/ (seen[r] = {} /\ \A k \in keys[r] : seen'[r] = mem'[k])
  <2>1. CASE Save(r)
    <3>1. PICK k \in Keys : keys[r] = {k}
      BY <1>1, <2>1 DEF IInv, HandlerInv, OfOneMetric
    <3>2. seen' = [seen EXCEPT ![r] = IF seen[r] = {} THEN mem'[k] ELSE seen[r]]
      BY <2>1, <3>1
    <3>3. mem'[k] \in SUBSET Updates
      BY <1>2
    <3> QED  BY <3>1, <3>2, <3>3 DEF IInv, TypeOK
  <2>2. CASE SaveBatch(r)
    BY <2>2 DEF IInv, TypeOK
  <2> QED  BY <2>1, <2>2
<1>5. TypeOK'
  BY <1>1, <1>2, <1>4 DEF IInv, TypeOK
<1>6. ProcessInv' /\ QuietInv'
  BY <1>1, <1>3 DEF IInv, ProcessInv, QuietInv, Active, HTTPRequests, Requests, Updates
<1>7. HandlerInv'
  BY <1>1 DEF IInv, HandlerInv, Active, OfOneMetric, Requests, Updates
<1>8. StoredInv'
  BY <1>1, <1>2 DEF IInv, StoredInv, HandlerInv, Requests, Keys
<1>9. LookedUpInv'
  <2> SUFFICES ASSUME NEW q \in OfOneMetric, hpc'[q] \in {"save", "reply"},
                      NEW k \in keys[q] \cap Counters
               PROVE  /\ {u \in known[q] : k \in keys[u]} \subseteq seen'[q]
                      /\ seen'[q] \subseteq mem'[k]
    BY DEF LookedUpInv
  <2>1. q \in Requests
    BY DEF OfOneMetric, Requests, Updates
  <2>2. hpc[q] \in {"save", "reply"}
    BY <1>1, <2>1
  <2>3. {u \in known[q] : k \in keys[u]} \subseteq seen[q] /\ seen[q] \subseteq mem[k]
    BY <2>2 DEF IInv, LookedUpInv
  <2>4. CASE seen'[q] = seen[q]
    BY <1>2, <2>3, <2>4
  <2>5. CASE seen'[q] # seen[q]
    BY <1>1, <1>4, <2>1, <2>3, <2>5
  <2> QED  BY <2>4, <2>5
<1>10. SavedInv'
  BY <1>2, <1>3 DEF IInv, SavedInv, ProcessInv
<1>11. BatchesAreWhole'
  <2>1. Whole(mem)'
    <3> SUFFICES ASSUME NEW q \in BatchUpdates \cup GRPCUpdates,
                        NEW j \in keys[q] \cap Counters, NEW k \in keys[q] \cap Counters
                 PROVE  q \in mem'[j] <=> q \in mem'[k]
      BY DEF Whole
    <3> QED  BY <1>2 DEF IInv, BatchesAreWhole, Whole
  <2> QED  BY <2>1 DEF IInv, BatchesAreWhole, Whole
<1> QED  BY <1>5, <1>6, <1>7, <1>8, <1>9, <1>10, <1>11 DEF IInv

\* The answer leaves with the handler.
LEMMA ReplyIInv == ASSUME IInv, NEW r \in Requests, Reply(r) PROVE IInv'
<1> USE DEF Reply, serverVars, fileVars
<1>1. /\ hpc' \in [Requests -> HandlerPhases] /\ hpc[r] = "reply"
      /\ \A q \in Requests : q # r => hpc'[q] = hpc[q] /\ known'[q] = known[q] /\ seen'[q] = seen[q]
      /\ hpc'[r] \in {"ok", "error"} /\ known'[r] = {} /\ seen'[r] = {}
      /\ acked' = acked \/ (hpc'[r] = "ok" /\ acked' = acked \cup ({r} \cap Updates))
      /\ acked \subseteq acked'
  BY DEF IInv, TypeOK, HandlerPhases
<1>2. TypeOK'
  BY <1>1 DEF IInv, TypeOK
<1>3. ProcessInv' /\ QuietInv'
  BY <1>1 DEF IInv, ProcessInv, QuietInv, Active, HTTPRequests, Requests, Updates
<1>4. HandlerInv'
  BY <1>1 DEF IInv, HandlerInv, Active, OfOneMetric, Requests, Updates
<1>5. StoredInv'
  BY <1>1 DEF IInv, StoredInv, Requests
<1>6. LookedUpInv'
  BY <1>1 DEF IInv, LookedUpInv, OfOneMetric, Requests, Updates
<1>7. SavedInv' /\ BatchesAreWhole'
  BY DEF IInv, SavedInv, BatchesAreWhole, Whole
<1> QED  BY <1>2, <1>3, <1>4, <1>5, <1>6, <1>7 DEF IInv

\* The file goroutine's steps.
LEMMA FileIInv == IInv /\ SaveMetricsToFile => IInv'
<1> SUFFICES ASSUME IInv, SaveMetricsToFile PROVE IInv'
  OBVIOUS
<1> USE DEF SaveMetricsToFile, TakeSnapshot, Encode, Rename, serverVars, handlerVars
<1>1. TypeOK'
  BY DEF IInv, TypeOK, LoopPhases
<1>2. ProcessInv'
  BY DEF IInv, ProcessInv, TypeOK, LoopPhases, Phases
<1>3. QuietInv' /\ HandlerInv' /\ LookedUpInv'
  BY DEF IInv, QuietInv, HandlerInv, LookedUpInv, Active
<1>4. StoredInv' /\ BatchesAreWhole'
  BY DEF IInv, StoredInv, BatchesAreWhole, Whole
<1>5. SavedInv'
  BY DEF IInv, SavedInv, ProcessInv, TypeOK
<1> QED  BY <1>1, <1>2, <1>3, <1>4, <1>5 DEF IInv

\* A step that changes nothing.
LEMMA StutterIInv == IInv /\ UNCHANGED vars => IInv'
<1> SUFFICES ASSUME IInv, UNCHANGED vars PROVE IInv'
  OBVIOUS
<1> USE DEF vars, serverVars, handlerVars, fileVars
<1>1. TypeOK' /\ ProcessInv' /\ QuietInv' /\ HandlerInv'
  BY DEF IInv, TypeOK, ProcessInv, QuietInv, HandlerInv, Active
<1>2. StoredInv' /\ LookedUpInv' /\ SavedInv' /\ BatchesAreWhole'
  BY DEF IInv, StoredInv, LookedUpInv, SavedInv, BatchesAreWhole, Whole
<1> QED  BY <1>1, <1>2 DEF IInv

\* IInv holds in every reachable state, whatever arrives, stops, crashes or fails.
THEOREM InductiveInvariant == Spec => []IInv
<1>1. IInv /\ [Next]_vars => IInv'
  <2> SUFFICES ASSUME IInv, [Next]_vars PROVE IInv'
    OBVIOUS
  <2>1. CASE Start \/ Crash
    BY <2>1, LifeIInv
  <2>2. CASE Signal \/ RunServer
    BY <2>2, RunServerIInv
  <2>3. CASE \E r \in Requests : Arrive(r) \/ Handler(r)
    <3> PICK r \in Requests : Arrive(r) \/ Handler(r)
      BY <2>3
    <3> QED  BY ArriveIInv, RejectIInv, LookupIInv, SaveIInv, ReplyIInv DEF Handler
  <2>4. CASE SaveMetricsToFile
    BY <2>4, FileIInv
  <2>5. CASE UNCHANGED vars
    BY <2>5, StutterIInv
  <2> QED  BY <2>1, <2>2, <2>3, <2>4, <2>5 DEF Next, Terminated
<1> QED  BY InitIInv, <1>1, PTL DEF Spec

-----------------------------------------------------------------------------
(* What follows from it *)

\* The variables keep their types, and RunServer has a result exactly when it has ended.
THEOREM TypeCorrect == Spec => []TypeOK
<1>1. IInv => TypeOK
  BY DEF IInv
<1> QED  BY InductiveInvariant, <1>1, PTL

\* Every counter has the delta of every request this process answered with success
\* (handler.go, services.go, memory.go), whatever other requests did meanwhile.
THEOREM NoAckedUpdateLost == Spec => []AckedIsCounted
<1>1. IInv => AckedIsCounted
  BY DEF IInv, HandlerInv, StoredInv, AckedIsCounted
<1> QED  BY InductiveInvariant, <1>1, PTL

\* The value of a counter in an answer, whether it was looked up (handler.go, GetMetricsByID)
\* or returned by the save that created the metric (CreateMetrics), has every delta that had
\* been answered when the request came, and no delta that is not stored.
THEOREM AnswersAreRecent == Spec => []AnswerIsRecent
<1>1. IInv => AnswerIsRecent
  BY DEF IInv, LookedUpInv, AnswerIsRecent
<1> QED  BY InductiveInvariant, <1>1, PTL

\* RunServer returns nil (RunServer, stopAndFlushFileStorage) only when the file has
\* all that memory has, and so every request that was answered.
THEOREM NilMeansSaved == Spec => []CleanStopSavesAll
<1>1. IInv => CleanStopSavesAll
  BY DEF IInv, ProcessInv, SavedInv, StoredInv, HandlerInv, CleanStopSavesAll
<1> QED  BY InductiveInvariant, <1>1, PTL

\* A batch is in memory, in the image of it and in the file with all its counters or
\* with none, whatever fails, is cancelled or crashes.
THEOREM BatchesStayWhole == Spec => []BatchesAreWhole
<1>1. IInv => BatchesAreWhole
  BY DEF IInv
<1> QED  BY InductiveInvariant, <1>1, PTL

\* With -r the file forgets no delta: a process that saves began with all it held.
THEOREM NothingForgotten == Spec => FileNeverForgets
<1>1. IInv /\ [Next]_vars => [IsRestore => \A k \in Counters : file[k] \subseteq file'[k]]_vars
  <2> SUFFICES ASSUME IInv, [Next]_vars, IsRestore, NEW k \in Counters
               PROVE  file[k] \subseteq file'[k]
    OBVIOUS
  <2>1. CASE Rename
    BY <2>1 DEF Rename, IInv, SavedInv
  <2>2. CASE ~Rename
    <3>1. file' = file
      BY <2>2 DEF Next, Start, Crash, Signal, RunServer, Restore, SelectDone, SelectServerError,
             SelectStorageDone, LeaveSelect, HTTPStopped, GRPCStopped, Flushed, Reject, Arrive,
             Handler, Lookup, Save, SaveBatch, Reply, SaveMetricsToFile, TakeSnapshot, Encode,
             Terminated, vars, fileVars
    <3> QED  BY <3>1
  <2> QED  BY <2>1, <2>2
<1> QED  BY InductiveInvariant, <1>1, PTL DEF Spec, FileNeverForgets

-----------------------------------------------------------------------------
(* The refinement of DurableStore *)

\* A server that was never started is an empty store.
LEMMA InitRefines == Init => Abstract!Init
BY DEF Init, Abstract!Init, Empty, Abstract!Empty, Keys, Abstract!Keys

\* The save of a request is an Update of the store: the request has metrics, and no
\* metric has it yet.
LEMMA SaveRefines ==
  ASSUME IInv, NEW r \in Requests, Save(r) \/ SaveBatch(r)
  PROVE  [Abstract!Next]_(Abstract!vars)
<1> USE DEF Save, SaveBatch, fileVars
<1>1. UNCHANGED <<image, file>> /\ (saveMetricsLocked(r, keys[r]) \/ UNCHANGED mem)
  OBVIOUS
<1>2. r \in Updates /\ keys[r] \in (SUBSET Keys) \ {{}} /\ hpc[r] = "save"
  <2>1. hpc[r] = "save"
    OBVIOUS
  <2>2. r \in Updates /\ keys[r] # {}
    BY <2>1 DEF IInv, HandlerInv, Active
  <2>3. keys[r] \subseteq Keys
    BY DEF IInv, TypeOK
  <2> QED  BY <2>1, <2>2, <2>3
<1>3. CASE saveMetricsLocked(r, keys[r])
  <2>1. mem' = Abstract!Applied(mem, r, keys[r])
    BY <1>3 DEF saveMetricsLocked, Abstract!Applied, Keys, Abstract!Keys
  <2>2. \A k \in keys[r] \cap Counters : r \notin mem[k]
    BY <1>2 DEF IInv, StoredInv
  <2>3. Abstract!Update
    BY <1>1, <1>2, <2>1, <2>2 DEF Abstract!Update, Keys, Abstract!Keys
  <2> QED  BY <2>3 DEF Abstract!Next
<1>4. CASE UNCHANGED mem
  BY <1>1, <1>4 DEF Abstract!vars
<1> QED  BY <1>1, <1>3, <1>4

\* Every step of the server is a step of the store or changes nothing of it: a start
\* and a crash lose what is in memory, a restore recovers the file, and the file
\* goroutine takes an image and makes it durable.
LEMMA StepRefines == IInv /\ [Next]_vars => [Abstract!Next]_(Abstract!vars)
<1> SUFFICES ASSUME IInv, [Next]_vars PROVE [Abstract!Next]_(Abstract!vars)
  OBVIOUS
<1>1. CASE Start \/ Crash
  <2>1. Abstract!Lose
    BY <1>1 DEF Start, Crash, Abstract!Lose, Empty, Abstract!Empty, Keys, Abstract!Keys
  <2> QED  BY <2>1 DEF Abstract!Next
<1>2. CASE Restore
  <2>1. mem = Abstract!Empty
    BY <1>2 DEF Restore, IInv, ProcessInv, Empty, Abstract!Empty, Keys, Abstract!Keys
  <2> QED  BY <1>2, <2>1 DEF Restore, fileVars, Abstract!Recover, Abstract!Next, Abstract!vars
<1>3. CASE Signal \/ SelectDone \/ SelectServerError \/ SelectStorageDone \/ HTTPStopped
           \/ GRPCStopped \/ Flushed
  BY <1>3 DEF Signal, SelectDone, SelectServerError, SelectStorageDone, LeaveSelect, HTTPStopped,
         GRPCStopped, Flushed, fileVars, Abstract!vars
<1>4. CASE \E r \in Requests : Arrive(r) \/ Handler(r)
  <2> PICK r \in Requests : Arrive(r) \/ Handler(r)
    BY <1>4
  <2>1. CASE Reject(r) \/ Arrive(r) \/ Lookup(r) \/ Reply(r)
    BY <2>1 DEF Reject, Arrive, Lookup, Reply, fileVars, Abstract!vars
  <2> QED  BY <2>1, SaveRefines DEF Handler
<1>5. CASE SaveMetricsToFile
  BY <1>5 DEF SaveMetricsToFile, TakeSnapshot, Encode, Rename, Abstract!TakeImage,
         Abstract!MakeDurable, Abstract!Next, Abstract!vars
<1>6. CASE UNCHANGED vars
  BY <1>6 DEF vars, fileVars, Abstract!vars
<1> QED  BY <1>1, <1>2, <1>3, <1>4, <1>5, <1>6 DEF Next, RunServer, Terminated

\* The server, with its handlers, its shutdown, its file goroutine and its restarts,
\* implements DurableStore.
THEOREM Refinement == Spec => ImplementsDurableStore
<1>1. Spec => Abstract!Init /\ [][Abstract!Next]_(Abstract!vars)
  BY InductiveInvariant, InitRefines, StepRefines, PTL DEF Spec
<1> QED  BY <1>1 DEF ImplementsDurableStore, Abstract!Spec
=============================================================================
