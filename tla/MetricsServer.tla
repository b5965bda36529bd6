---------------------------- MODULE MetricsServer ----------------------------
(***************************************************************************)
(* The server without a database: RunServer and its shutdown, the handlers  *)
(* that update and read metrics over HTTP and gRPC, MemoryStorage, the      *)
(* goroutine that saves the metrics to a file, and restarts of the process. *)
(*                                                                          *)
(* A request stands for the values it carries: a counter is the set of the  *)
(* requests whose delta it sums, a gauge the request that wrote it last, a  *)
(* metric that does not exist the empty set.  Each request is made once.    *)
(***************************************************************************)
EXTENDS Naturals

CONSTANTS
  Counters, Gauges,  \* metric keys (name and type)
  PathUpdates,       \* POST /update: one metric, looked up and then saved
  BatchUpdates,      \* POST /updates/: a batch over HTTP
  GRPCUpdates,       \* Metrics.UpdateMetrics: a batch over gRPC
  Reads,             \* GET /value/... and POST /value/: one metric
  Unencodable,       \* requests whose gauge value has no JSON form (NaN, Inf)
  IsRestore,         \* flag -r
  Periodic,          \* storeInterval > 0
  IOMayFail,         \* may reading or writing the file fail?
  MaxStarts          \* bound: how often the process is started

ASSUME KindsAssumption ==
  /\ PathUpdates \cap (BatchUpdates \cup GRPCUpdates) = {}
  /\ Reads \cap (PathUpdates \cup BatchUpdates \cup GRPCUpdates) = {}
  /\ BatchUpdates \cap GRPCUpdates = {}
  /\ Counters \cap Gauges = {}
\* A JSON body cannot carry such a value.
ASSUME UnencodableAssumption == Unencodable \subseteq PathUpdates \cup GRPCUpdates
ASSUME FlagsAssumption ==
  IsRestore \in BOOLEAN /\ Periodic \in BOOLEAN /\ IOMayFail \in BOOLEAN /\ MaxStarts \in Nat

VARIABLES
  phase,     \* where RunServer is
  reason,    \* the case of its select that ended the service
  result,    \* what it returned
  ctxDone,   \* its context is cancelled
  stopFile,  \* stopFileStorage() was called
  starts,    \* how often the process was started
  hpc,       \* where the handler of each request is
  keys,      \* the metrics each request updates or reads
  seen,      \* the metric that the answer of a path update or a read is made of
  known,     \* history: what was acked when the request arrived
  acked,     \* updates this process answered with success
  mem,       \* MemoryStorage
  loop,      \* where the goroutine that saves to the file is
  last,      \* the save in progress is the one that follows the cancellation
  image,     \* the metrics it is saving
  file       \* the metrics in the file

serverVars == <<phase, reason, result, ctxDone, stopFile, starts>>
handlerVars == <<hpc, keys, seen, known, acked>>
fileVars == <<loop, last, image, file>>
vars == <<serverVars, handlerVars, mem, fileVars>>

Keys == Counters \cup Gauges
HTTPRequests == PathUpdates \cup BatchUpdates \cup Reads
Updates == PathUpdates \cup BatchUpdates \cup GRPCUpdates
Requests == Updates \cup Reads
OfOneMetric == PathUpdates \cup Reads  \* they look it up first
Empty == [k \in Keys |-> {}]

Phases == {"down", "starting", "serving", "stopHTTP", "stopGRPC", "flushing", "stopped"}
Up == Phases \ {"down", "stopped"}
HandlerPhases == {"new", "lookup", "save", "reply", "ok", "error", "lost"}
Active(r) == hpc[r] \in {"lookup", "save", "reply"}
LoopPhases == {"off", "select", "encode", "rename", "done", "failed"}

Init ==
  /\ phase = "down" /\ reason = "none" /\ result = "none"
  /\ ctxDone = FALSE /\ stopFile = FALSE
  /\ starts = 0
  /\ hpc = [r \in Requests |-> "new"]
  /\ keys = [r \in Requests |-> {}]
  /\ seen = [r \in Requests |-> {}]
  /\ known = [r \in Requests |-> {}]
  /\ acked = {}
  /\ mem = Empty
  /\ loop = "off" /\ last = FALSE
  /\ image = Empty
  /\ file = Empty

-----------------------------------------------------------------------------
(* The process *)

\* The process is started, the first time or after it ended; RunServer sets up
\* its keys, storage and listeners, or returns the error of one of them.
Start ==
  /\ phase \in {"down", "stopped"}
  /\ starts < MaxStarts
  /\ starts' = starts + 1
  /\ \/ phase' = "starting" /\ result' = "none"
     \/ phase' = "stopped" /\ result' = "error"
  /\ reason' = "none" /\ ctxDone' = FALSE /\ stopFile' = FALSE
  /\ acked' = {}
  /\ mem' = Empty
  /\ loop' = "off" /\ last' = FALSE /\ image' = Empty
  /\ UNCHANGED <<hpc, keys, seen, known, file>>

\* The process is killed: memory, handlers and a half-written temporary file
\* are gone.
Crash ==
  /\ phase \in Up
  /\ phase' = "down" /\ reason' = "none" /\ ctxDone' = FALSE /\ stopFile' = FALSE
  /\ hpc' = [r \in Requests |-> IF Active(r) THEN "lost" ELSE hpc[r]]
  /\ seen' = [r \in Requests |-> {}]
  /\ known' = [r \in Requests |-> {}]
  /\ acked' = {}
  /\ mem' = Empty
  /\ loop' = "off" /\ last' = FALSE /\ image' = Empty
  /\ UNCHANGED <<result, starts, keys, file>>

\* mutant: the error of the restore is dropped and the saves go on
RestoreErrorDropped ==
  /\ phase = "starting"
  /\ \/ IsRestore /\ mem' = file
     \/ ~IsRestore /\ mem' = mem
     \/ IsRestore /\ IOMayFail /\ mem' = mem
  /\ loop' = "select"
  /\ phase' = "serving"
  /\ UNCHANGED <<reason, result, ctxDone, stopFile, starts, handlerVars, last, image, file>>

\* SaveMetricsToFileWithContext restores the file before it starts the goroutine
\* that saves; if it cannot, that goroutine is not started and the error waits in
\* errCh.  The servers are started in either case.
Restore ==
  /\ phase = "starting"
  /\ \/ IsRestore /\ mem' = file /\ loop' = "select"
     \/ ~IsRestore /\ mem' = mem /\ loop' = "select"
     \/ IsRestore /\ IOMayFail /\ mem' = mem /\ loop' = "failed"
  /\ phase' = "serving"
  /\ UNCHANGED <<reason, result, ctxDone, stopFile, starts, handlerVars, last, image, file>>

Signal ==
  /\ phase \in Up
  /\ ~ctxDone
  /\ ctxDone' = TRUE
  /\ UNCHANGED <<phase, reason, result, stopFile, starts, handlerVars, mem, fileVars>>

\* mutant: the last save is asked for before the handlers have ended
LeaveSelectFlushing(why) ==
  /\ phase = "serving"
  /\ phase' = "stopHTTP"
  /\ reason' = why
  /\ stopFile' = TRUE
  /\ UNCHANGED <<result, ctxDone, starts, handlerVars, mem, fileVars>>

\* RunServer's select.  Each case goes on with httpServer.Shutdown, which takes no
\* new HTTP request and waits for the running ones.
LeaveSelect(why) ==
  /\ phase = "serving"
  /\ phase' = "stopHTTP"
  /\ reason' = why
  /\ UNCHANGED <<result, ctxDone, stopFile, starts, handlerVars, mem, fileVars>>

SelectDone == ctxDone /\ LeaveSelect("signal")
SelectServerError == LeaveSelect("server")
\* errCh has the error of a restore or a save, or is closed.
SelectStorageDone == loop \in {"failed", "done"} /\ LeaveSelect("storage")

HTTPStopped ==
  /\ phase = "stopHTTP"
  /\ \A r \in HTTPRequests : ~Active(r)
  /\ phase' = "stopGRPC"
  /\ UNCHANGED <<reason, result, ctxDone, stopFile, starts, handlerVars, mem, fileVars>>

\* mutant: the gRPC calls that run are not waited for
GRPCStoppedAtOnce ==
  /\ phase = "stopGRPC"
  /\ IF reason = "storage"
       THEN phase' = "stopped" /\ result' = "error" /\ UNCHANGED stopFile
       ELSE phase' = "flushing" /\ stopFile' = TRUE /\ UNCHANGED result
  /\ UNCHANGED <<reason, ctxDone, starts, handlerVars, mem, fileVars>>

\* mutant: the error of the storage is not returned
GRPCStoppedSilently ==
  /\ phase = "stopGRPC"
  /\ \A r \in GRPCUpdates : ~Active(r)
  /\ IF reason = "storage"
       THEN phase' = "stopped" /\ UNCHANGED <<result, stopFile>>
       ELSE phase' = "flushing" /\ stopFile' = TRUE /\ UNCHANGED result
  /\ UNCHANGED <<reason, ctxDone, starts, handlerVars, mem, fileVars>>

\* grpcServer.GracefulStop has returned.  Then stopAndFlushFileStorage, unless the
\* storage was what ended the service: RunServer returns its error.
GRPCStopped ==
  /\ phase = "stopGRPC"
  /\ \A r \in GRPCUpdates : ~Active(r)
  /\ IF reason = "storage"
       THEN phase' = "stopped" /\ result' = "error" /\ UNCHANGED stopFile
       ELSE phase' = "flushing" /\ stopFile' = TRUE /\ UNCHANGED result
  /\ UNCHANGED <<reason, ctxDone, starts, handlerVars, mem, fileVars>>

\* <-done returns the error of the last save, or nil.
Flushed ==
  /\ phase = "flushing"
  /\ loop \in {"done", "failed"}
  /\ phase' = "stopped"
  /\ result' = IF loop = "done" /\ reason = "signal" THEN "nil" ELSE "error"
  /\ UNCHANGED <<reason, ctxDone, stopFile, starts, handlerVars, mem, fileVars>>

-----------------------------------------------------------------------------
(* MemoryStorage *)

\* saveMetricsLocked, for every key of a request under one lock: a counter adds
\* the delta, a gauge takes the value, a new metric is created with it.
saveMetricsLocked(r, K) ==
  mem' = [k \in Keys |-> IF k \notin K THEN mem[k]
                         ELSE IF k \in Counters THEN mem[k] \cup {r} ELSE {r}]

\* json.Marshal of a metric.
Encodable(k, value) == k \in Gauges => value \cap Unencodable = {}

-----------------------------------------------------------------------------
(* The handlers *)

\* While httpServer.Shutdown waits, a connection it had accepted before may still
\* bring a request, and the gRPC server is not asked to stop yet.
Accepting == phase \in {"serving", "stopHTTP"}

\* The metrics of the request: one of a path update or a read, any number of a batch.
Arrive(r) ==
  /\ hpc[r] = "new" /\ Accepting
  /\ \E K \in (SUBSET Keys) \ {{}} :
       /\ r \in OfOneMetric => \E k \in Keys : K = {k}
       /\ r \in Unencodable => K \cap Gauges # {}
       /\ keys' = [keys EXCEPT ![r] = K]
  /\ hpc' = [hpc EXCEPT ![r] = IF r \in OfOneMetric THEN "lookup" ELSE "save"]
  /\ known' = [known EXCEPT ![r] = IF r \in OfOneMetric THEN acked ELSE {}]
  /\ UNCHANGED <<serverVars, seen, acked, mem, fileVars>>

\* A request is refused, before anything is looked up or stored: its subnet, its
\* signature, its values, or its body, which the handler has read first.
Reject(r) ==
  /\ hpc[r] = IF r \in OfOneMetric THEN "lookup" ELSE "save"
  /\ hpc' = [hpc EXCEPT ![r] = "error"]
  /\ known' = [known EXCEPT ![r] = {}]
  /\ UNCHANGED <<serverVars, keys, seen, acked, mem, fileVars>>

\* mutant: the metric is taken from the copy that is being saved to the file
LookupInImage(r) ==
  /\ hpc[r] = "lookup"
  /\ \E k \in keys[r] : seen' = [seen EXCEPT ![r] = image[k]]
  /\ hpc' = [hpc EXCEPT ![r] = IF r \in Reads THEN "reply" ELSE "save"]
  /\ UNCHANGED <<serverVars, keys, known, acked, mem, fileVars>>

\* GetMetricsByID, under a read lock of its own.
Lookup(r) ==
  /\ hpc[r] = "lookup"
  /\ \E k \in keys[r] : seen' = [seen EXCEPT ![r] = mem[k]]
  /\ hpc' = [hpc EXCEPT ![r] = IF r \in Reads THEN "reply" ELSE "save"]
  /\ UNCHANGED <<serverVars, keys, known, acked, mem, fileVars>>

\* mutant: the sum is made of the metric that was looked up
SaveFromLookup(r) ==
  /\ r \in PathUpdates /\ hpc[r] = "save"
  /\ mem' = [k \in Keys |-> IF k \notin keys[r] THEN mem[k]
                            ELSE IF k \in Counters THEN seen[r] \cup {r} ELSE {r}]
  /\ \E k \in keys[r] : seen' = [seen EXCEPT ![r] = IF @ = {} THEN mem'[k] ELSE @]
  /\ hpc' = [hpc EXCEPT ![r] = "reply"]
  /\ UNCHANGED <<serverVars, keys, known, acked, fileVars>>

\* services.UpdateMetrics or CreateMetrics: both come to SaveMetrics, with a
\* context that is never cancelled.  The handler takes what SaveMetrics returns, the
\* metric as it now is, from CreateMetrics only; the other answer stays the metric
\* that was looked up.
Save(r) ==
  /\ r \in PathUpdates /\ hpc[r] = "save"
  /\ saveMetricsLocked(r, keys[r])
  /\ \E k \in keys[r] : seen' = [seen EXCEPT ![r] = IF @ = {} THEN mem'[k] ELSE @]
  /\ hpc' = [hpc EXCEPT ![r] = "reply"]
  /\ UNCHANGED <<serverVars, keys, known, acked, fileVars>>

\* mutant: the cancellation is looked at between the metrics of a batch
SaveBatchInterrupted(r) ==
  /\ r \notin OfOneMetric /\ hpc[r] = "save"
  /\ \/ saveMetricsLocked(r, keys[r]) /\ hpc' = [hpc EXCEPT ![r] = "reply"]
     \/ /\ \E K \in SUBSET keys[r] : saveMetricsLocked(r, K)
        /\ hpc' = [hpc EXCEPT ![r] = "error"]
  /\ UNCHANGED <<serverVars, keys, seen, known, acked, fileVars>>

\* CreateOrUpdateMetricsBatch: the whole batch under one lock, or, when the caller
\* is gone, nothing.
SaveBatch(r) ==
  /\ r \notin OfOneMetric /\ hpc[r] = "save"
  /\ \/ saveMetricsLocked(r, keys[r]) /\ hpc' = [hpc EXCEPT ![r] = "reply"]
     \/ UNCHANGED mem /\ hpc' = [hpc EXCEPT ![r] = "error"]
  /\ UNCHANGED <<serverVars, keys, seen, known, acked, fileVars>>

\* json.Marshal of the answer.
Marshals(r) == \A k \in keys[r] : Encodable(k, seen[r])

\* A read of a metric that does not exist is answered 404.  Any other answer is
\* marshalled (GET /value writes it as text) and written, and the event
\* of an update published to the audit; the answer leaves with the handler's return.
\* A gRPC answer is empty.
Reply(r) ==
  /\ hpc[r] = "reply"
  /\ \/ /\ (r \in PathUpdates => Marshals(r)) /\ (r \in Reads => seen[r] # {})
        /\ hpc' = [hpc EXCEPT ![r] = "ok"]
        /\ acked' = acked \cup ({r} \cap Updates)
     \/ /\ r \in OfOneMetric /\ (~Marshals(r) \/ seen[r] = {})
        /\ hpc' = [hpc EXCEPT ![r] = "error"]
        /\ UNCHANGED acked
  /\ seen' = [seen EXCEPT ![r] = {}]
  /\ known' = [known EXCEPT ![r] = {}]
  /\ UNCHANGED <<serverVars, keys, mem, fileVars>>

-----------------------------------------------------------------------------
(* The goroutine that saves the metrics to the file *)

\* select: a tick, or the cancellation.  saveMetrics copies the metrics under a
\* read lock (GetAllMetrics).
TakeSnapshot ==
  /\ loop = "select"
  /\ \/ Periodic /\ last' = FALSE
     \/ stopFile /\ last' = TRUE
  /\ image' = mem
  /\ loop' = "encode"
  /\ UNCHANGED <<serverVars, handlerVars, mem, file>>

\* mutant: the file itself is truncated and written
EncodeInPlace ==
  /\ loop = "encode"
  /\ file' = Empty
  /\ \/ (\A k \in Keys : Encodable(k, image[k])) /\ loop' = "rename"
     \/ (IOMayFail \/ \E k \in Keys : ~Encodable(k, image[k])) /\ loop' = "failed"
  /\ UNCHANGED <<serverVars, handlerVars, mem, last, image>>

\* WriteEvent encodes them into a temporary file, syncs and closes it.
Encode ==
  /\ loop = "encode"
  /\ \/ (\A k \in Keys : Encodable(k, image[k])) /\ loop' = "rename"
     \/ (IOMayFail \/ \E k \in Keys : ~Encodable(k, image[k])) /\ loop' = "failed"
  /\ UNCHANGED <<serverVars, handlerVars, mem, last, image, file>>

\* mutant: the goroutine goes on after the last save
RenameGoesOn ==
  /\ loop = "rename"
  /\ \/ file' = image /\ loop' = "select"
     \/ IOMayFail /\ UNCHANGED file /\ loop' = "failed"
  /\ UNCHANGED <<serverVars, handlerVars, mem, last, image>>

\* The temporary file takes the name of the file.
Rename ==
  /\ loop = "rename"
  /\ \/ file' = image /\ loop' = IF last THEN "done" ELSE "select"
     \/ IOMayFail /\ UNCHANGED file /\ loop' = "failed"
  /\ UNCHANGED <<serverVars, handlerVars, mem, last, image>>

-----------------------------------------------------------------------------

RunServer ==
  \/ Restore \/ SelectDone \/ SelectServerError \/ SelectStorageDone
  \/ HTTPStopped \/ GRPCStopped \/ Flushed

Handler(r) == Reject(r) \/ Lookup(r) \/ Save(r) \/ SaveBatch(r) \/ Reply(r)

SaveMetricsToFile == TakeSnapshot \/ Encode \/ Rename

\* Nobody starts the process again.
Terminated == phase \in {"down", "stopped"} /\ starts = MaxStarts /\ UNCHANGED vars

Next ==
  \/ Start \/ Crash \/ Signal
  \/ RunServer
  \/ \E r \in Requests : Arrive(r) \/ Handler(r)
  \/ SaveMetricsToFile
  \/ Terminated

Spec == Init /\ [][Next]_vars

\* RunServer and the file goroutine run, and the file's I/O ends.  The select of the file
\* goroutine takes one of its ready cases at random: a cancellation is not passed over
\* for ever.  Nothing is assumed of the handlers: a client may never finish its body
\* (httpServer has no ReadTimeout) and an audit receiver its answer (http.DefaultClient).
Fairness ==
  /\ WF_vars(Restore) /\ WF_vars(SelectDone \/ SelectStorageDone)
  /\ WF_vars(HTTPStopped) /\ WF_vars(GRPCStopped) /\ WF_vars(Flushed)
  /\ WF_vars(SaveMetricsToFile) /\ SF_vars(TakeSnapshot /\ last')

FairSpec == Spec /\ Fairness

-----------------------------------------------------------------------------
(* Properties *)

\* Every variable keeps its type, and RunServer has a result when it has ended.
TypeOK ==
  /\ phase \in Phases /\ reason \in {"none", "signal", "server", "storage"}
  /\ result \in {"none", "nil", "error"} /\ (result # "none" <=> phase = "stopped")
  /\ ctxDone \in BOOLEAN /\ stopFile \in BOOLEAN /\ starts \in 0..MaxStarts
  /\ hpc \in [Requests -> HandlerPhases]
  /\ keys \in [Requests -> SUBSET Keys]
  /\ seen \in [Requests -> SUBSET Updates]
  /\ known \in [Requests -> SUBSET Updates]
  /\ acked \subseteq Updates
  /\ mem \in [Keys -> SUBSET Updates]
  /\ loop \in LoopPhases /\ last \in BOOLEAN
  /\ image \in [Keys -> SUBSET Updates] /\ file \in [Keys -> SUBSET Updates]

\* Every counter has the delta of every request this process answered with
\* success, however lookups and saves of other requests interleaved.
AckedIsCounted ==
  phase \in Up =>
    \A r \in acked : \A k \in keys[r] \cap Counters : r \in mem[k]

\* The value answered for a counter, looked up or returned by the save that created it,
\* sums every delta that had been answered when the request came, and no delta that is
\* not stored: it may lack those of requests that run at the same time, and that of
\* the update itself unless it found no metric.
AnswerIsRecent ==
  \A r \in OfOneMetric : hpc[r] = "reply" =>
    \A k \in keys[r] \cap Counters :
      /\ {u \in known[r] : k \in keys[u]} \subseteq seen[r]
      /\ seen[r] \subseteq mem[k]

\* RunServer returns nil only after a save that follows the last handler: the file
\* then has every request that was answered, in all its metrics.
CleanStopSavesAll ==
  phase = "stopped" /\ result = "nil" =>
    /\ file = mem
    /\ \A r \in acked : \A k \in keys[r] \cap Counters : r \in file[k]

\* A batch is never seen in part, neither in memory nor in the file, whatever
\* fails, is cancelled or crashes.
Whole(store) ==
  \A r \in BatchUpdates \cup GRPCUpdates :
    \A j, k \in keys[r] \cap Counters : r \in store[j] <=> r \in store[k]
BatchesAreWhole == Whole(mem) /\ Whole(image) /\ Whole(file)

\* With -r, no crash, failed restore or failed save makes the file forget a delta
\* it once held: a process that could not restore never saves.
FileNeverForgets ==
  [][IsRestore => \A k \in Counters : file[k] \subseteq file'[k]]_vars

\* A signal ends the process, whatever the handlers and the saves are doing when it
\* comes, provided that every handler ends: Shutdown and GracefulStop wait for them
\* without a limit, and nothing in the server ends one that hangs.
HandlersEnd == \A r \in Requests : Active(r) ~> ~Active(r)
ShutdownCompletes == HandlersEnd => (ctxDone ~> ~ctxDone \/ phase \in {"down", "stopped"})

\* The server is a DurableStore.
Abstract == INSTANCE DurableStore WITH
  Updates <- Updates,
  live    <- mem,
  durable <- file

ImplementsDurableStore == Abstract!Spec

-----------------------------------------------------------------------------
(* The inductive invariant *)

\* The file goroutine runs while RunServer does; it is told to stop when RunServer
\* waits for it, and RunServer returns nil only after its last save.
ProcessInv ==
  /\ phase \in {"down", "starting"} => loop = "off" /\ acked = {} /\ mem = Empty
  /\ phase \in {"serving", "stopHTTP", "stopGRPC", "flushing"} => loop # "off"
  /\ phase = "stopped" => loop \in {"off", "done", "failed"}
  /\ stopFile => phase \in {"flushing", "stopped"}
  /\ last => stopFile
  /\ loop = "done" => last
  /\ reason = "storage" => loop \in {"done", "failed"}
  /\ result = "nil" => loop = "done"

\* A server that has stopped has no handler, whatever comes after it.
QuietInv ==
  /\ phase \notin {"serving", "stopHTTP"} => \A r \in HTTPRequests : ~Active(r)
  /\ phase \notin {"serving", "stopHTTP", "stopGRPC"} => \A r \in Requests : ~Active(r)

\* What a handler has of its request, and what is known of those that were answered.
HandlerInv ==
  /\ acked \subseteq {r \in Updates : hpc[r] = "ok"}
  /\ \A r \in Requests :
       /\ known[r] \subseteq acked
       /\ Active(r) => keys[r] # {}
       /\ r \in OfOneMetric /\ Active(r) => \E k \in Keys : keys[r] = {k}
       /\ hpc[r] = "lookup" => r \in OfOneMetric
       /\ hpc[r] = "save" => r \in Updates
       /\ ~Active(r) \/ r \notin OfOneMetric => known[r] = {}

\* A request is stored by its save and not before; what was saved stays in the
\* counters of the process.
StoredInv ==
  /\ \A r \in Updates : hpc[r] \in {"new", "lookup", "save"} =>
       \A k \in Keys : r \notin mem[k] /\ r \notin image[k] /\ r \notin file[k]
  /\ \A r \in Updates : r \in acked \/ hpc[r] = "reply" =>
       \A k \in keys[r] \cap Counters : r \in mem[k]

\* The metric that a handler has looked up or created was, for a counter, the sum of
\* what had been answered before, and can only have grown since.
LookedUpInv ==
  \A r \in OfOneMetric : hpc[r] \in {"save", "reply"} =>
    \A k \in keys[r] \cap Counters :
      /\ {u \in known[r] : k \in keys[u]} \subseteq seen[r]
      /\ seen[r] \subseteq mem[k]

\* The last save is of what the handlers left, and with -r every image holds what the
\* file holds.
SavedInv ==
  /\ last => image = mem
  /\ loop = "done" => file = image
  /\ \A k \in Counters :
       /\ loop \in {"encode", "rename"} => image[k] \subseteq mem[k]
       /\ IsRestore /\ loop \in {"select", "encode", "rename"} => file[k] \subseteq mem[k]
       /\ IsRestore /\ loop \in {"encode", "rename"} => file[k] \subseteq image[k]

\* Every step keeps IInv: it is what MetricsServerProofs proves.
IInv ==
  /\ TypeOK /\ ProcessInv /\ QuietInv /\ HandlerInv /\ StoredInv
  /\ LookedUpInv /\ SavedInv /\ BatchesAreWhole
=============================================================================
