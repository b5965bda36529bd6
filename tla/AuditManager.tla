----------------------------- MODULE AuditManager -----------------------------
(***************************************************************************)
(* The audit of updates: NewManager and its observers, Publish with its     *)
(* workers and channels, FileObserver, HTTPObserver with its retries, and   *)
(* the Close that follows the shutdown of the servers.                      *)
(*                                                                          *)
(* Every event is published by the handler of one request, whose context is *)
(* cancelled when its client goes away.                                     *)
(***************************************************************************)
EXTENDS Naturals, Sequences, FiniteSets

CONSTANTS
  Events,       \* the events published, one per successful update
  AuditFile,    \* is -audit-file set?
  AuditUrl,     \* is -audit-url set?
  MaxWorkers,   \* 4 in Publish
  MaxRetries    \* len(auditRetryIntervals)

ASSUME SettingsAssumption == AuditFile \in BOOLEAN /\ AuditUrl \in BOOLEAN
ASSUME LimitsAssumption == MaxWorkers \in Nat \ {0} /\ MaxRetries \in Nat

\* A value of the interface Observer: the type of the pointer it holds and
\* whether that pointer is nil.  The interface is nil only when it holds none.
NilInterface == [type |-> "none", null |-> TRUE]

\* They return a nil pointer for an empty path or URL, which NewManager receives
\* as an Observer that holds it.
NewFileObserver == [type |-> "FileObserver", null |-> ~AuditFile]
NewHTTPObserver == [type |-> "HTTPObserver", null |-> ~AuditUrl]

\* observer != nil, for each of the two observers it is given.
NotNil(o) == IF o # NilInterface THEN <<o>> ELSE <<>>
NewManager(first, second) == NotNil(first) \o NotNil(second)

observers == NewManager(NewFileObserver, NewHTTPObserver)
Observers == {observers[i] : i \in DOMAIN observers}

workerCount == IF Len(observers) < MaxWorkers THEN Len(observers) ELSE MaxWorkers

VARIABLES
  pub,       \* where the Publish of each event is
  jobs,      \* Publish: the channel jobs
  busy,      \* Publish: the observers its workers are notifying
  errCh,     \* Publish: the channel errCh
  outcome,   \* what Publish returned: "none", "nil" or "error"
  http,      \* HTTPObserver: where the request of each event is
  attempt,   \* retryHTTPClient: the counter of its loop
  gone,      \* events whose request context is cancelled
  file,      \* FileObserver: "unopened", "open" or "closed"
  lines,     \* the events in the audit file, in order
  received,  \* how often the audit receiver took each event
  ended,     \* the servers are shut down and Manager.Close has returned
  panicked   \* a method was called on a nil pointer: the process is gone

publishVars == <<pub, jobs, busy, errCh, outcome>>
httpVars == <<http, attempt, received>>
fileVars == <<file, lines>>
vars == <<publishVars, httpVars, gone, fileVars, ended, panicked>>

TheFile == [type |-> "FileObserver", null |-> FALSE]
TheURL == [type |-> "HTTPObserver", null |-> FALSE]

Init ==
  /\ pub = [e \in Events |-> "new"]
  /\ jobs = [e \in Events |-> <<>>]
  /\ busy = [e \in Events |-> {}]
  /\ errCh = [e \in Events |-> <<>>]
  /\ outcome = [e \in Events |-> "none"]
  /\ http = [e \in Events |-> "idle"]
  /\ attempt = [e \in Events |-> 0]
  /\ gone = {}
  /\ file = "unopened"
  /\ lines = <<>>
  /\ received = [e \in Events |-> 0]
  /\ ended = FALSE /\ panicked = FALSE

-----------------------------------------------------------------------------
(* Manager.Publish *)

\* The workers are started and every observer goes into jobs, which has room for
\* all of them and is then closed.
Publish(e) ==
  /\ ~panicked /\ ~ended
  /\ pub[e] = "new"
  /\ pub' = [pub EXCEPT ![e] = "wait"]
  /\ jobs' = [jobs EXCEPT ![e] = observers]
  /\ UNCHANGED <<busy, errCh, outcome, httpVars, gone, fileVars, ended, panicked>>

\* A worker takes the next observer and calls its Notify; on a nil pointer that
\* is the end of the process (o.mu, o.url).
Take(e) ==
  /\ ~panicked
  /\ jobs[e] # <<>>
  /\ Cardinality(busy[e]) < workerCount
  /\ LET o == Head(jobs[e]) IN
       IF o.null
         THEN panicked' = TRUE /\ UNCHANGED <<jobs, busy, http, attempt>>
         ELSE /\ jobs' = [jobs EXCEPT ![e] = Tail(@)]
              /\ busy' = [busy EXCEPT ![e] = @ \cup {o}]
              /\ http' = IF o = TheURL THEN [http EXCEPT ![e] = "request"] ELSE http
              /\ attempt' = IF o = TheURL THEN [attempt EXCEPT ![e] = 0] ELSE attempt
              /\ UNCHANGED panicked
  /\ UNCHANGED <<pub, errCh, outcome, gone, received, fileVars, ended>>

\* mutant: room for one error only
errChCapOne == 1

\* The capacity of errCh: nobody reads it before every worker has ended.
errChCap == Len(observers)

\* errCh <- observer.Notify(...), and the worker is free.
Notified(e, o, err) ==
  /\ Len(errCh[e]) < errChCap
  /\ errCh' = [errCh EXCEPT ![e] = Append(@, err)]
  /\ busy' = [busy EXCEPT ![e] = @ \ {o}]
  /\ UNCHANGED <<pub, jobs, outcome>>

\* mutant: the workers are not waited for
JoinEarly(e) ==
  /\ ~panicked
  /\ pub[e] = "wait"
  /\ jobs[e] = <<>>
  /\ pub' = [pub EXCEPT ![e] = "done"]
  /\ outcome' = [outcome EXCEPT ![e] =
       IF \E i \in DOMAIN errCh[e] : errCh[e][i] = "error" THEN "error" ELSE "nil"]
  /\ errCh' = [errCh EXCEPT ![e] = <<>>]
  /\ UNCHANGED <<jobs, busy, httpVars, gone, fileVars, ended, panicked>>

\* wg.Wait() returns, the errors are read from errCh and joined.
Join(e) ==
  /\ ~panicked
  /\ pub[e] = "wait"
  /\ jobs[e] = <<>> /\ busy[e] = {}
  /\ pub' = [pub EXCEPT ![e] = "done"]
  /\ outcome' = [outcome EXCEPT ![e] =
       IF \E i \in DOMAIN errCh[e] : errCh[e][i] = "error" THEN "error" ELSE "nil"]
  /\ errCh' = [errCh EXCEPT ![e] = <<>>]
  /\ UNCHANGED <<jobs, busy, httpVars, gone, fileVars, ended, panicked>>

-----------------------------------------------------------------------------
(* FileObserver, each method under its mutex *)

\* mutant: the error of the write is dropped
NotifyFileUnchecked(e) ==
  /\ ~panicked
  /\ TheFile \in busy[e]
  /\ \/ file # "closed"
        /\ file' = "open" /\ lines' = Append(lines, e) /\ Notified(e, TheFile, "nil")
     \/ file' = file /\ lines' = lines /\ Notified(e, TheFile, "nil")
  /\ UNCHANGED <<httpVars, gone, ended, panicked>>

\* Notify opens the file the first time and appends a line; opening or writing may
\* fail.
NotifyFile(e) ==
  /\ ~panicked
  /\ TheFile \in busy[e]
  /\ \/ file # "closed"
        /\ file' = "open" /\ lines' = Append(lines, e) /\ Notified(e, TheFile, "nil")
     \/ file' = file /\ lines' = lines /\ Notified(e, TheFile, "error")
  /\ UNCHANGED <<httpVars, gone, ended, panicked>>

-----------------------------------------------------------------------------
(* HTTPObserver and retryHTTPClient *)

\* mutant: one attempt too many
DoOnceMore(e) ==
  /\ ~panicked
  /\ http[e] = "request"
  /\ received' \in {received, [received EXCEPT ![e] = @ + 1]}
  /\ http' = [http EXCEPT ![e] = IF attempt[e] > MaxRetries THEN "failed" ELSE "sleep"]
  /\ UNCHANGED <<publishVars, attempt, gone, fileVars, ended, panicked>>

\* One attempt: the receiver takes the event or not, and the answer is a success,
\* a refusal (which it did not take), or an error or status that is tried again.
Do(e) ==
  /\ ~panicked
  /\ http[e] = "request"
  /\ \/ /\ received' = [received EXCEPT ![e] = @ + 1]
        /\ http' = [http EXCEPT ![e] = "ok"]
     \/ /\ UNCHANGED received
        /\ http' = [http EXCEPT ![e] = "failed"]
     \/ /\ received' \in {received, [received EXCEPT ![e] = @ + 1]}
        /\ http' = [http EXCEPT ![e] = IF attempt[e] = MaxRetries THEN "failed" ELSE "sleep"]
  /\ UNCHANGED <<publishVars, attempt, gone, fileVars, ended, panicked>>

\* The timer against the context of the request.
Sleep(e) ==
  /\ ~panicked
  /\ http[e] = "sleep"
  /\ \/ http' = [http EXCEPT ![e] = "request"] /\ attempt' = [attempt EXCEPT ![e] = @ + 1]
     \/ e \in gone /\ http' = [http EXCEPT ![e] = "failed"] /\ UNCHANGED attempt
  /\ UNCHANGED <<publishVars, received, gone, fileVars, ended, panicked>>

NotifyHTTP(e) ==
  /\ ~panicked
  /\ http[e] \in {"ok", "failed"} /\ TheURL \in busy[e]
  /\ Notified(e, TheURL, IF http[e] = "ok" THEN "nil" ELSE "error")
  /\ UNCHANGED <<httpVars, gone, fileVars, ended, panicked>>

\* The client of the update goes away.
Disconnect(e) ==
  /\ ~panicked
  /\ pub[e] = "wait" /\ e \notin gone
  /\ gone' = gone \cup {e}
  /\ UNCHANGED <<publishVars, httpVars, fileVars, ended, panicked>>

-----------------------------------------------------------------------------

\* Manager.Close, deferred in RunServer: the servers have waited for the handlers.
\* FileObserver.Close locks o.mu; an HTTPObserver is no io.Closer.
Close ==
  /\ ~panicked /\ ~ended
  /\ \A e \in Events : pub[e] # "wait"
  /\ IF \E o \in Observers : o.type = "FileObserver" /\ o.null
       THEN panicked' = TRUE /\ UNCHANGED <<file, ended>>
       ELSE ended' = TRUE /\ file' = "closed" /\ UNCHANGED panicked
  /\ UNCHANGED <<publishVars, httpVars, gone, lines>>

Handler(e) == Take(e) \/ NotifyFile(e) \/ Do(e) \/ Sleep(e) \/ NotifyHTTP(e) \/ Join(e)

\* RunServer has returned.
Terminated == ended /\ UNCHANGED vars

Next ==
  \/ \E e \in Events : Publish(e) \/ Handler(e) \/ Disconnect(e)
  \/ Close
  \/ Terminated

Spec == Init /\ [][Next]_vars

\* The workers run, the file is written and the timers fire.  Nothing is assumed of an
\* attempt: http.DefaultClient has no timeout, so the receiver may keep it for ever.
Fairness == \A e \in Events :
  WF_vars(Take(e) \/ NotifyFile(e) \/ Sleep(e) \/ NotifyHTTP(e) \/ Join(e))

FairSpec == Spec /\ Fairness

-----------------------------------------------------------------------------
(* Properties *)

Count(e) == Cardinality({i \in DOMAIN lines : lines[i] = e})

\* Every variable keeps its type.
TypeOK ==
  /\ pub \in [Events -> {"new", "wait", "done"}]
  /\ jobs \in [Events -> Seq(Observers)] /\ busy \in [Events -> SUBSET Observers]
  /\ errCh \in [Events -> Seq({"nil", "error"})]
  /\ \A e \in Events : Len(errCh[e]) <= errChCap
  /\ outcome \in [Events -> {"none", "nil", "error"}]
  /\ http \in [Events -> {"idle", "request", "sleep", "ok", "failed"}]
  /\ attempt \in [Events -> 0..MaxRetries]
  /\ gone \subseteq Events
  /\ file \in {"unopened", "open", "closed"} /\ lines \in Seq(Events)
  /\ received \in [Events -> 0..(MaxRetries + 1)]
  /\ ended \in BOOLEAN /\ panicked \in BOOLEAN

Recorded(e) ==
  /\ AuditFile => Count(e) = 1
  /\ AuditUrl => received[e] >= 1

\* An event whose Publish returned nil is in the file once and was taken by the
\* receiver, for every interleaving of the workers of all the requests.
SuccessIsRecorded == \A e \in Events : outcome[e] = "nil" => Recorded(e)

\* Nothing of an event changes after its Publish returned: no worker is left, no
\* line is written and no attempt is made for an answered request.
NothingAfterReturn ==
  [][\A e \in Events : pub[e] = "done" =>
       received'[e] = received[e] /\ Count(e)' = Count(e)]_vars

\* Publish returns if each attempt to send its event ends, whatever becomes of the
\* events of other requests: its workers never wait for a reader of errCh that itself
\* waits for them, and the retries come to an end.
AttemptsEnd(e) == http[e] = "request" ~> http[e] # "request"
PublishReturns ==
  \A e \in Events : AttemptsEnd(e) => (pub[e] = "wait" ~> pub[e] = "done")

\* No method is called on a nil observer: NewManager's comment says that it keeps
\* empty observers out of its list, and those of NewFileObserver and
\* NewHTTPObserver that they return nil for an empty path or URL.
NoEmptyObserver == ~panicked
-----------------------------------------------------------------------------
(* The inductive invariant *)

Failed(e) == \E i \in DOMAIN errCh[e] : errCh[e][i] = "error"

\* The observers of an event are in the channel, with a worker or notified.
PublishOK(e) ==
  /\ jobs[e] \in {observers, <<NewHTTPObserver>>, <<>>}
  /\ busy[e] \subseteq {TheFile, TheURL}
  /\ pub[e] # "wait" => jobs[e] = <<>> /\ busy[e] = {} /\ errCh[e] = <<>>
  /\ pub[e] = "wait" => Len(jobs[e]) + Cardinality(busy[e]) + Len(errCh[e]) = Len(observers)
  /\ outcome[e] = "none" <=> pub[e] # "done"

\* An event is in the file when its observer was notified without an error.
FileOK(e) ==
  LET waits == jobs[e] = observers \/ TheFile \in busy[e] IN
    /\ jobs[e] = observers => TheFile \notin busy[e]
    /\ pub[e] = "new" \/ waits => Count(e) = 0
    /\ pub[e] = "wait" /\ AuditFile /\ ~waits /\ ~Failed(e) => Count(e) = 1

\* The receiver has taken the event once per attempt at most, and if it said so.
HTTPOK(e) ==
  LET waits == jobs[e] # <<>> \/ TheURL \in busy[e] IN
    /\ pub[e] = "new" \/ jobs[e] # <<>> => http[e] = "idle"
    /\ http[e] = "idle" => attempt[e] = 0 /\ TheURL \notin busy[e]
    /\ http[e] \in {"request", "sleep"} => TheURL \in busy[e]
    /\ http[e] = "sleep" => attempt[e] < MaxRetries
    /\ http[e] = "ok" => received[e] >= 1
    /\ received[e] <= attempt[e] + (IF http[e] \in {"idle", "request"} THEN 0 ELSE 1)
    /\ pub[e] = "wait" /\ AuditUrl /\ ~waits /\ ~Failed(e) => received[e] >= 1

\* Every step keeps IInv: it is what AuditManagerProofs proves.
EventOK(e) == PublishOK(e) /\ FileOK(e) /\ HTTPOK(e) /\ (outcome[e] = "nil" => Recorded(e))
IInv == TypeOK /\ \A e \in Events : EventOK(e)
=============================================================================
