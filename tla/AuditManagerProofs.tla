-------------------------- MODULE AuditManagerProofs --------------------------
(***************************************************************************)
(* Proofs about AuditManager for any events, settings, number of workers    *)
(* and number of retries: the inductive invariant IInv, the safety          *)
(* properties it implies, and that an event is over when its Publish has    *)
(* returned.                                                                *)
(***************************************************************************)
EXTENDS AuditManager, FiniteSetTheorems, SequenceTheorems, TLAPS

USE SettingsAssumption, LimitsAssumption DEF SettingsAssumption, LimitsAssumption

-----------------------------------------------------------------------------
(* The operators *)

\* Both observers are in the list, also those that hold a nil pointer.
LEMMA ObserversAre ==
  /\ observers = <<NewFileObserver, NewHTTPObserver>>
  /\ Observers = {NewFileObserver, NewHTTPObserver}
<1>1. NewFileObserver # NilInterface /\ NewHTTPObserver # NilInterface
  <2>1. NewFileObserver.type # NilInterface.type /\ NewHTTPObserver.type # NilInterface.type
    BY DEF NewFileObserver, NewHTTPObserver, NilInterface
  <2> QED  BY <2>1
<1>2. observers = <<NewFileObserver>> \o <<NewHTTPObserver>>
  BY <1>1 DEF observers, NewManager, NotNil
<1>3. ASSUME NEW a, NEW b PROVE <<a>> \o <<b>> = <<a, b>>
  <2>1. <<a>> \in Seq({a, b}) /\ <<b>> \in Seq({a, b}) /\ <<a, b>> \in Seq({a, b})
    OBVIOUS
  <2>2. /\ <<a>> \o <<b>> \in Seq({a, b}) /\ Len(<<a>> \o <<b>>) = 2
        /\ (<<a>> \o <<b>>)[1] = a /\ (<<a>> \o <<b>>)[2] = b
    BY <2>1, ConcatProperties
  <2>3. \A i \in 1..2 : (<<a>> \o <<b>>)[i] = <<a, b>>[i]
    <3>1. \A i \in 1..2 : i = 1 \/ i = 2
      OBVIOUS
    <3> QED  BY <2>2, <3>1
  <2>4. Len(<<a, b>>) = 2
    OBVIOUS
  <2> QED  BY <2>1, <2>2, <2>3, <2>4, SeqEqual
<1>4. ASSUME NEW a, NEW b PROVE {<<a, b>>[i] : i \in DOMAIN <<a, b>>} = {a, b}
  <2>1. DOMAIN <<a, b>> = {1, 2} /\ <<a, b>>[1] = a /\ <<a, b>>[2] = b
    OBVIOUS
  <2> QED  BY <2>1
<1>5. observers = <<NewFileObserver, NewHTTPObserver>>
  BY <1>2, <1>3
<1> HIDE DEF observers
<1>6. Observers = {NewFileObserver, NewHTTPObserver}
  BY <1>4, <1>5 DEF Observers
<1> QED  BY <1>5, <1>6

\* The channel of an event is read from front to back, and an observer whose method
\* can be called is the file or the URL.
LEMMA ObserverFacts ==
  /\ observers \in Seq(Observers) /\ <<NewHTTPObserver>> \in Seq(Observers)
  /\ observers # <<>> /\ Head(observers) = NewFileObserver
  /\ Tail(observers) = <<NewHTTPObserver>> /\ Len(observers) = 2
  /\ <<NewHTTPObserver>> # <<>> /\ Head(<<NewHTTPObserver>>) = NewHTTPObserver
  /\ Tail(<<NewHTTPObserver>>) = <<>> /\ Len(<<NewHTTPObserver>>) = 1
  /\ observers # <<NewHTTPObserver>>
  /\ TheFile # TheURL
  /\ ~NewFileObserver.null <=> AuditFile
  /\ AuditFile => NewFileObserver = TheFile
  /\ ~NewHTTPObserver.null <=> AuditUrl
  /\ AuditUrl => NewHTTPObserver = TheURL
<1>1. /\ observers \in Seq(Observers) /\ <<NewHTTPObserver>> \in Seq(Observers)
      /\ observers # <<>> /\ Head(observers) = NewFileObserver
      /\ Tail(observers) = <<NewHTTPObserver>> /\ Len(observers) = 2
      /\ <<NewHTTPObserver>> # <<>> /\ Head(<<NewHTTPObserver>>) = NewHTTPObserver
      /\ Tail(<<NewHTTPObserver>>) = <<>> /\ Len(<<NewHTTPObserver>>) = 1
  <2> HIDE DEF observers
  <2>1. ASSUME NEW a, NEW b
        PROVE  /\ <<a, b>> # <<>> /\ Head(<<a, b>>) = a /\ Tail(<<a, b>>) = <<b>>
               /\ Len(<<a, b>>) = 2 /\ <<b>> # <<>> /\ Head(<<b>>) = b
               /\ Tail(<<b>>) = <<>> /\ Len(<<b>>) = 1
               /\ <<a, b>> \in Seq({a, b}) /\ <<b>> \in Seq({a, b})
    OBVIOUS
  <2> QED  BY <2>1, ObserversAre
<1>2. observers # <<NewHTTPObserver>>
  BY <1>1
<1>3. TheFile # TheURL
  <2>1. TheFile.type # TheURL.type
    BY DEF TheFile, TheURL
  <2> QED  BY <2>1
<1>4. /\ ~NewFileObserver.null <=> AuditFile
      /\ AuditFile => NewFileObserver = TheFile
      /\ ~NewHTTPObserver.null <=> AuditUrl
      /\ AuditUrl => NewHTTPObserver = TheURL
  BY DEF NewFileObserver, NewHTTPObserver, TheFile, TheURL
<1> QED  BY <1>1, <1>2, <1>3, <1>4

\* Writing a line for an event adds one to the count of that event only.
LEMMA AppendCounts ==
  ASSUME lines \in Seq(Events), NEW d \in Events, lines' = Append(lines, d), NEW e \in Events
  PROVE  Count(e)' = (IF e = d THEN Count(e) + 1 ELSE Count(e)) /\ Count(e) \in Nat
<1> DEFINE at == {i \in DOMAIN lines : lines[i] = e}
           next == Len(lines) + 1
<1>1. /\ Len(lines) \in Nat /\ DOMAIN lines = 1..Len(lines)
      /\ DOMAIN lines' = 1..next /\ lines'[next] = d
      /\ \A i \in 1..Len(lines) : lines'[i] = lines[i]
  OBVIOUS
<1>2. IsFiniteSet(at) /\ next \notin at
  <2>1. IsFiniteSet(1..Len(lines))
    BY <1>1, FS_Interval
  <2>2. at \subseteq 1..Len(lines)
    BY <1>1
  <2> QED  BY <1>1, <2>1, <2>2, FS_Subset
<1>3. {i \in DOMAIN lines' : lines'[i] = e} = IF e = d THEN at \cup {next} ELSE at
  BY <1>1
<1>4. Cardinality(at) \in Nat /\ Cardinality(at \cup {next}) = Cardinality(at) + 1
  BY <1>2, FS_CardinalityType, FS_AddElement
<1> QED  BY <1>3, <1>4 DEF Count

\* No line, no count.
LEMMA EmptyCounts == ASSUME lines = <<>>, NEW e PROVE Count(e) = 0
<1>1. {i \in DOMAIN lines : lines[i] = e} = {}
  OBVIOUS
<1> QED  BY <1>1, FS_EmptySet DEF Count

\* How many observers a worker is notifying.
LEMMA BusyCounts ==
  ASSUME NEW B, B \subseteq {TheFile, TheURL}, NEW o \in {TheFile, TheURL}
  PROVE  /\ IsFiniteSet(B) /\ Cardinality(B) \in Nat
         /\ o \notin B => Cardinality(B \cup {o}) = Cardinality(B) + 1
         /\ o \in B => Cardinality(B \ {o}) = Cardinality(B) - 1 /\ Cardinality(B) > 0
<1>1. IsFiniteSet({TheFile, TheURL})
  <2>1. IsFiniteSet({TheFile}) /\ IsFiniteSet({TheFile} \cup {TheURL})
    BY FS_Singleton, FS_AddElement
  <2>2. {TheFile} \cup {TheURL} = {TheFile, TheURL}
    OBVIOUS
  <2> QED  BY <2>1, <2>2
<1>2. IsFiniteSet(B)
  BY <1>1, FS_Subset
<1>3. Cardinality(B) \in Nat
  BY <1>2, FS_CardinalityType
<1>4. o \in B => Cardinality(B \ {o}) = Cardinality(B) - 1 /\ Cardinality(B) > 0
  <2> SUFFICES ASSUME o \in B PROVE Cardinality(B \ {o}) = Cardinality(B) - 1 /\ Cardinality(B) > 0
    OBVIOUS
  <2>2. IsFiniteSet(B \ {o}) /\ Cardinality(B \ {o}) \in Nat
    BY <1>1, FS_Subset, FS_CardinalityType
  <2>3. Cardinality((B \ {o}) \cup {o}) = Cardinality(B \ {o}) + 1
    BY <2>2, FS_AddElement
  <2>4. (B \ {o}) \cup {o} = B
    OBVIOUS
  <2>5. Cardinality(B) = Cardinality(B \ {o}) + 1
    BY <2>3, <2>4
  <2> QED  BY <2>2, <2>5
<1> QED  BY <1>2, <1>3, <1>4, FS_AddElement

-----------------------------------------------------------------------------
(* The inductive invariant, one lemma per action *)

\* The action of another event does not touch e.
Same(e) ==
  /\ pub'[e] = pub[e] /\ jobs'[e] = jobs[e] /\ busy'[e] = busy[e] /\ errCh'[e] = errCh[e]
  /\ outcome'[e] = outcome[e] /\ http'[e] = http[e] /\ attempt'[e] = attempt[e]
  /\ received'[e] = received[e] /\ Count(e)' = Count(e)

\* What is true of an event stays true while the others move.
LEMMA Frame == ASSUME NEW e \in Events, EventOK(e), Same(e) PROVE EventOK(e)'
<1> USE DEF Same
<1> HIDE DEF Count
<1>1. PublishOK(e)'
  BY DEF EventOK, PublishOK
<1>2. Failed(e)' <=> Failed(e)
  BY DEF Failed
<1>3. FileOK(e)'
  BY <1>2 DEF EventOK, FileOK
<1>4. HTTPOK(e)'
  BY <1>2 DEF EventOK, HTTPOK
<1> QED  BY <1>1, <1>3, <1>4 DEF EventOK, Recorded

\* Init establishes IInv: nothing is published.
LEMMA InitIInv == Init => IInv
<1> SUFFICES ASSUME Init PROVE IInv
  OBVIOUS
<1> USE DEF Init
<1>1. TypeOK
  <2>1. \A S : <<>> \in Seq(S) /\ Len(<<>>) = 0
    BY EmptySeq
  <2>2. errChCap = 2
    BY ObserverFacts DEF errChCap
  <2>3. /\ jobs \in [Events -> Seq(Observers)] /\ errCh \in [Events -> Seq({"nil", "error"})]
        /\ lines \in Seq(Events) /\ \A e \in Events : Len(errCh[e]) <= errChCap
    BY <2>1, <2>2
  <2>4. 0 \in 0..MaxRetries /\ 0 \in 0..(MaxRetries + 1)
    OBVIOUS
  <2> QED  BY <2>3, <2>4 DEF TypeOK
<1>2. ASSUME NEW e \in Events PROVE EventOK(e)
  <2>1. PublishOK(e)
    BY DEF PublishOK
  <2>2. FileOK(e)
    BY ObserverFacts, EmptyCounts DEF FileOK
  <2>3. HTTPOK(e)
    BY DEF HTTPOK
  <2> QED  BY <2>1, <2>2, <2>3 DEF EventOK
<1> QED  BY <1>1, <1>2 DEF IInv

\* Publish puts both observers into the channel.
LEMMA PublishIInv == ASSUME IInv, NEW d \in Events, Publish(d) PROVE IInv'
<1> USE DEF Publish, httpVars, fileVars
<1>1. \A e \in Events : Count(e)' = Count(e)
  BY DEF Count
<1>2. TypeOK'
  BY ObserverFacts DEF IInv, TypeOK
<1>3. \A e \in Events : e # d => Same(e)
  BY <1>1 DEF IInv, TypeOK, Same
<1>4. /\ pub[d] = "new" /\ pub'[d] = "wait" /\ jobs'[d] = observers /\ busy' = busy /\ errCh' = errCh
  BY DEF IInv, TypeOK
<1>5. EventOK(d)
  BY DEF IInv
<1>6. EventOK(d)'
  <2>1. PublishOK(d)'
    <3>1. /\ busy'[d] = {} /\ errCh'[d] = <<>> /\ outcome[d] = "none" /\ outcome' = outcome
      BY <1>4, <1>5 DEF EventOK, PublishOK, TypeOK, IInv
    <3>2. /\ Len(jobs'[d]) = 2 /\ Len(observers) = 2
          /\ Cardinality(busy'[d]) = 0 /\ Len(errCh'[d]) = 0
      BY <1>4, <3>1, FS_EmptySet, ObserverFacts, EmptySeq
    <3>3. Len(jobs'[d]) + Cardinality(busy'[d]) + Len(errCh'[d]) = Len(observers)
      BY <3>2
    <3> QED  BY <1>4, <3>1, <3>3 DEF PublishOK
  <2>2. FileOK(d)'
    BY <1>1, <1>4, <1>5 DEF EventOK, PublishOK, FileOK
  <2>3. HTTPOK(d)'
    BY <1>4, <1>5, ObserverFacts DEF EventOK, PublishOK, HTTPOK
  <2> QED  BY <1>1, <1>4, <1>5, <2>1, <2>2, <2>3 DEF EventOK, PublishOK, Recorded
<1> QED  BY <1>2, <1>3, <1>6, Frame DEF IInv

\* A worker takes the next observer, or the process ends.
LEMMA TakeIInv == ASSUME IInv, NEW d \in Events, Take(d) PROVE IInv'
<1> USE DEF httpVars, fileVars
<1>1. \A e \in Events : Count(e)' = Count(e)
  BY DEF Take, Count
<1>5. EventOK(d)
  BY DEF IInv
<1>6. jobs[d] = observers \/ jobs[d] = <<NewHTTPObserver>>
  BY <1>5 DEF EventOK, PublishOK, Take
<1>7. CASE Head(jobs[d]).null
  <2> USE <1>7 DEF Take
  <2>1. \A e \in Events : Same(e)
    BY <1>1 DEF Same
  <2>2. TypeOK'
    BY DEF IInv, TypeOK
  <2> QED  BY <2>1, <2>2, Frame DEF IInv
<1>8. CASE ~Head(jobs[d]).null
  <2> DEFINE o == Head(jobs[d])
  <2>1. /\ jobs' = [jobs EXCEPT ![d] = Tail(jobs[d])]
        /\ busy' = [busy EXCEPT ![d] = busy[d] \cup {o}]
        /\ http' = IF o = TheURL THEN [http EXCEPT ![d] = "request"] ELSE http
        /\ attempt' = IF o = TheURL THEN [attempt EXCEPT ![d] = 0] ELSE attempt
        /\ UNCHANGED <<pub, errCh, outcome, gone, received, file, lines, ended, panicked>>
    BY <1>8 DEF Take
  <2>2. \/ jobs[d] = observers /\ o = TheFile /\ AuditFile /\ Tail(jobs[d]) = <<NewHTTPObserver>>
        \/ jobs[d] = <<NewHTTPObserver>> /\ o = TheURL /\ AuditUrl /\ Tail(jobs[d]) = <<>>
    BY <1>6, <1>8, ObserverFacts
  <2>3. o \in Observers /\ Tail(jobs[d]) \in Seq(Observers)
    BY <1>6, ObserverFacts, ObserversAre, EmptySeq
  <2> HIDE DEF o
  <2>4. TypeOK'
    BY <2>1, <2>3 DEF IInv, TypeOK
  <2>5. \A e \in Events : e # d => Same(e)
    BY <1>1, <2>1 DEF IInv, TypeOK, Same
  <2>6. /\ jobs'[d] = Tail(jobs[d]) /\ busy'[d] = busy[d] \cup {o}
        /\ http'[d] = (IF o = TheURL THEN "request" ELSE http[d])
        /\ attempt'[d] = (IF o = TheURL THEN 0 ELSE attempt[d])
    BY <2>1 DEF IInv, TypeOK
  <2>7. /\ pub[d] = "wait" /\ o \notin busy[d] /\ o \in {TheFile, TheURL}
        /\ Len(jobs'[d]) = Len(jobs[d]) - 1
    <3>1. jobs[d] # <<>> /\ o \in {TheFile, TheURL} /\ Len(jobs'[d]) = Len(jobs[d]) - 1
      <4>1. jobs'[d] = Tail(jobs[d])
        BY <2>6
      <4>2. CASE jobs[d] = observers /\ o = TheFile /\ Tail(jobs[d]) = <<NewHTTPObserver>>
        BY <4>1, <4>2, ObserverFacts
      <4>3. CASE jobs[d] = <<NewHTTPObserver>> /\ o = TheURL /\ Tail(jobs[d]) = <<>>
        BY <4>1, <4>3, ObserverFacts, EmptySeq
      <4> QED  BY <2>2, <4>2, <4>3
    <3>2. pub[d] = "wait"
      BY <1>5, <3>1 DEF EventOK, PublishOK
    <3>3. jobs[d] = observers => TheFile \notin busy[d]
      BY <1>5 DEF EventOK, FileOK
    <3>4. TheURL \notin busy[d]
      BY <1>5, <3>1 DEF EventOK, HTTPOK
    <3> QED  BY <2>2, <3>1, <3>2, <3>3, <3>4
  <2>8. PublishOK(d)'
    <3>1. Cardinality(busy'[d]) = Cardinality(busy[d]) + 1 /\ Cardinality(busy[d]) \in Nat
      BY <1>5, <2>6, <2>7, BusyCounts DEF EventOK, PublishOK
    <3>2. Len(jobs[d]) \in Nat /\ Len(errCh[d]) \in Nat
      BY DEF IInv, TypeOK
    <3>3. Len(jobs'[d]) + Cardinality(busy'[d]) + Len(errCh[d]) = Len(observers)
      BY <1>5, <2>7, <3>1, <3>2, ObserverFacts DEF EventOK, PublishOK
    <3> QED  BY <1>5, <2>1, <2>2, <2>6, <2>7, <3>3 DEF EventOK, PublishOK
  <2>9. FileOK(d)'
    <3>1. Failed(d)' <=> Failed(d)
      BY <2>1 DEF Failed
    <3> QED  BY <1>1, <1>5, <2>1, <2>2, <2>6, <2>7, <3>1, ObserverFacts
             DEF EventOK, FileOK, PublishOK
  <2>10. HTTPOK(d)'
    <3>1. CASE o = TheFile
      BY <1>5, <2>1, <2>2, <2>6, <2>7, <3>1, ObserverFacts DEF EventOK, HTTPOK
    <3>2. CASE o = TheURL
      BY <1>5, <2>1, <2>2, <2>6, <2>7, <3>2, ObserverFacts DEF EventOK, HTTPOK
    <3> QED  BY <2>7, <3>1, <3>2
  <2>11. EventOK(d)'
    BY <1>5, <2>1, <2>7, <2>8, <2>9, <2>10 DEF EventOK, PublishOK
  <2> QED  BY <2>4, <2>5, <2>11, Frame DEF IInv
<1> QED  BY <1>7, <1>8

\* What Notify's end leaves of the Publish of d: the worker is free and its result is in
\* errCh.
LEMMA NotifiedLeaves ==
  ASSUME IInv, NEW d \in Events, NEW o \in {TheFile, TheURL}, o \in busy[d],
         NEW err \in {"nil", "error"}, Notified(d, o, err)
  PROVE  /\ errCh' \in [Events -> Seq({"nil", "error"})]
         /\ busy' \in [Events -> SUBSET Observers]
         /\ \A e \in Events : Len(errCh'[e]) <= errChCap
         /\ \A e \in Events : e # d => errCh'[e] = errCh[e] /\ busy'[e] = busy[e]
         /\ UNCHANGED <<pub, jobs, outcome>>
         /\ busy'[d] = busy[d] \ {o}
         /\ pub[d] = "wait"
         /\ PublishOK(d)'
         /\ ~Failed(d)' => ~Failed(d) /\ err = "nil"
<1> USE DEF Notified
<1>1. EventOK(d) /\ TypeOK
  BY DEF IInv
<1>2. errCh[d] \in Seq({"nil", "error"}) /\ busy[d] \in SUBSET Observers
  BY <1>1 DEF TypeOK
<1>3. /\ errCh'[d] = Append(errCh[d], err) /\ busy'[d] = busy[d] \ {o}
      /\ UNCHANGED <<pub, jobs, outcome>>
      /\ \A e \in Events : e # d => errCh'[e] = errCh[e] /\ busy'[e] = busy[e]
  BY <1>1 DEF TypeOK
<1>4. Append(errCh[d], err) \in Seq({"nil", "error"}) /\ Len(errCh'[d]) = Len(errCh[d]) + 1
  BY <1>2, <1>3
<1>5. errCh' \in [Events -> Seq({"nil", "error"})] /\ busy' \in [Events -> SUBSET Observers]
  BY <1>1, <1>2, <1>4 DEF TypeOK
<1>6. \A e \in Events : Len(errCh'[e]) <= errChCap
  <2>1. errChCap = 2 /\ Len(errCh[d]) \in Nat /\ Len(errCh[d]) < errChCap
    BY <1>2, ObserverFacts DEF errChCap
  <2>2. Len(errCh'[d]) <= errChCap
    BY <1>4, <2>1
  <2> QED  BY <1>1, <1>3, <2>2 DEF TypeOK
<1>7. pub[d] = "wait"
  BY <1>1 DEF EventOK, PublishOK
<1>8. PublishOK(d)'
  <2>1. Cardinality(busy'[d]) = Cardinality(busy[d]) - 1 /\ Cardinality(busy[d]) \in Nat
    BY <1>1, <1>3, BusyCounts DEF EventOK, PublishOK
  <2>2. Len(jobs[d]) \in Nat /\ Len(errCh[d]) \in Nat
    BY <1>1, <1>2 DEF TypeOK
  <2>3. Len(jobs'[d]) + Cardinality(busy'[d]) + Len(errCh'[d]) = Len(observers)
    <3>1. Len(jobs[d]) + Cardinality(busy[d]) + Len(errCh[d]) = Len(observers)
      BY <1>1, <1>7 DEF EventOK, PublishOK
    <3>2. jobs'[d] = jobs[d]
      BY <1>3
    <3> QED  BY <1>4, <2>1, <2>2, <3>1, <3>2
  <2> QED  BY <1>1, <1>3, <1>7, <2>3 DEF EventOK, PublishOK
<1>9. ~Failed(d)' => ~Failed(d) /\ err = "nil"
  <2>1. /\ DOMAIN errCh[d] = 1..Len(errCh[d]) /\ DOMAIN errCh'[d] = 1..(Len(errCh[d]) + 1)
        /\ \A i \in 1..Len(errCh[d]) : errCh'[d][i] = errCh[d][i]
        /\ errCh'[d][Len(errCh[d]) + 1] = err /\ Len(errCh[d]) \in Nat
    BY <1>2, <1>3
  <2>2. Failed(d) => Failed(d)'
    BY <2>1 DEF Failed
  <2>3. err = "error" => Failed(d)'
    BY <2>1 DEF Failed
  <2> QED  BY <2>2, <2>3
<1> QED  BY <1>3, <1>5, <1>6, <1>7, <1>8, <1>9

\* FileObserver.Notify: a line of d is written, or an error is returned.
LEMMA NotifyFileIInv == ASSUME IInv, NEW d \in Events, NotifyFile(d) PROVE IInv'
<1>1. EventOK(d) /\ TypeOK /\ TheFile \in busy[d]
      /\ UNCHANGED <<http, attempt, received, gone, ended, panicked>>
  BY DEF IInv, NotifyFile, httpVars
<1>2. PICK err \in {"nil", "error"} :
        /\ Notified(d, TheFile, err)
        /\ file' \in {"open", file}
        /\ lines' = IF err = "nil" THEN Append(lines, d) ELSE lines
  BY DEF NotifyFile
<1>3. /\ errCh' \in [Events -> Seq({"nil", "error"})]
      /\ busy' \in [Events -> SUBSET Observers]
      /\ \A e \in Events : Len(errCh'[e]) <= errChCap
      /\ \A e \in Events : e # d => errCh'[e] = errCh[e] /\ busy'[e] = busy[e]
      /\ UNCHANGED <<pub, jobs, outcome>>
      /\ busy'[d] = busy[d] \ {TheFile} /\ pub[d] = "wait" /\ PublishOK(d)'
      /\ ~Failed(d)' => ~Failed(d) /\ err = "nil"
  BY <1>1, <1>2, NotifiedLeaves
<1>4. \A e \in Events :
        Count(e)' = (IF e = d /\ err = "nil" THEN Count(e) + 1 ELSE Count(e))
  <2>1. CASE err = "nil"
    BY <1>1, <1>2, <2>1, AppendCounts DEF TypeOK
  <2>2. CASE err = "error"
    BY <1>2, <2>2 DEF Count
  <2> QED  BY <2>1, <2>2
<1>5. TypeOK'
  <2>1. lines' \in Seq(Events)
    BY <1>1, <1>2 DEF TypeOK
  <2> QED  BY <1>1, <1>2, <1>3, <2>1 DEF TypeOK
<1>6. \A e \in Events : e # d => Same(e)
  BY <1>1, <1>3, <1>4 DEF Same
<1>7. FileOK(d)'
  <2>1. jobs[d] # observers /\ Count(d) = 0
    BY <1>1 DEF EventOK, FileOK
  <2> HIDE DEF Count
  <2> QED  BY <1>3, <1>4, <2>1 DEF FileOK
<1>8. HTTPOK(d)'
  <2>1. TheURL \in busy'[d] <=> TheURL \in busy[d]
    BY <1>3, ObserverFacts
  <2> QED  BY <1>1, <1>3, <2>1 DEF EventOK, HTTPOK
<1>9. EventOK(d)'
  BY <1>1, <1>3, <1>7, <1>8 DEF EventOK, PublishOK
<1> QED  BY <1>5, <1>6, <1>9, Frame DEF IInv

\* HTTPObserver.Notify returns the result of its attempts.
LEMMA NotifyHTTPIInv == ASSUME IInv, NEW d \in Events, NotifyHTTP(d) PROVE IInv'
<1> DEFINE err == IF http[d] = "ok" THEN "nil" ELSE "error"
<1>1. EventOK(d) /\ TypeOK /\ TheURL \in busy[d] /\ http[d] \in {"ok", "failed"}
      /\ Notified(d, TheURL, err)
      /\ UNCHANGED <<http, attempt, received, gone, file, lines, ended, panicked>>
  BY DEF IInv, NotifyHTTP, httpVars, fileVars
<1>2. /\ errCh' \in [Events -> Seq({"nil", "error"})]
      /\ busy' \in [Events -> SUBSET Observers]
      /\ \A e \in Events : Len(errCh'[e]) <= errChCap
      /\ \A e \in Events : e # d => errCh'[e] = errCh[e] /\ busy'[e] = busy[e]
      /\ UNCHANGED <<pub, jobs, outcome>>
      /\ busy'[d] = busy[d] \ {TheURL} /\ pub[d] = "wait" /\ PublishOK(d)'
      /\ ~Failed(d)' => ~Failed(d) /\ err = "nil"
  <2>1. err \in {"nil", "error"}
    OBVIOUS
  <2> HIDE DEF err
  <2> QED  BY <1>1, <2>1, NotifiedLeaves
<1>3. \A e \in Events : Count(e)' = Count(e)
  BY <1>1 DEF Count
<1>4. TypeOK'
  BY <1>1, <1>2 DEF TypeOK
<1>5. \A e \in Events : e # d => Same(e)
  BY <1>1, <1>2, <1>3 DEF Same
<1>6. FileOK(d)'
  <2>1. TheFile \in busy'[d] <=> TheFile \in busy[d]
    BY <1>2, ObserverFacts
  <2>2. Count(d)' = Count(d)
    BY <1>3
  <2> HIDE DEF Count
  <2> QED  BY <1>1, <1>2, <2>1, <2>2 DEF EventOK, FileOK
<1>7. HTTPOK(d)'
  BY <1>1, <1>2 DEF EventOK, HTTPOK
<1>8. EventOK(d)'
  BY <1>1, <1>2, <1>6, <1>7 DEF EventOK, PublishOK
<1> QED  BY <1>4, <1>5, <1>8, Frame DEF IInv

\* One attempt of retryHTTPClient, or the wait before the next one.
LEMMA AttemptIInv == ASSUME IInv, NEW d \in Events, Do(d) \/ Sleep(d) PROVE IInv'
<1>1. EventOK(d) /\ TypeOK
      /\ UNCHANGED <<pub, jobs, busy, errCh, outcome, gone, file, lines, ended, panicked>>
  BY DEF IInv, Do, Sleep, publishVars, fileVars
<1>2. \A e \in Events : Count(e)' = Count(e)
  BY <1>1 DEF Count
<1>3. received[d] \in Nat /\ attempt[d] \in 0..MaxRetries /\ TheURL \in busy[d]
  BY <1>1 DEF TypeOK, EventOK, HTTPOK, Do, Sleep
<1>4. /\ http' \in [Events -> {"idle", "request", "sleep", "ok", "failed"}]
      /\ http'[d] \in {"request", "sleep", "ok", "failed"}
      /\ http'[d] = "sleep" => attempt'[d] < MaxRetries
      /\ http'[d] = "ok" => received'[d] >= 1
      /\ received'[d] <= attempt'[d] + (IF http'[d] = "request" THEN 0 ELSE 1)
      /\ received'[d] >= received[d]
      /\ attempt'[d] \in 0..MaxRetries /\ received'[d] \in Nat
      /\ \A e \in Events : e # d =>
           http'[e] = http[e] /\ attempt'[e] = attempt[e] /\ received'[e] = received[e]
      /\ attempt' = [attempt EXCEPT ![d] = attempt'[d]]
      /\ received' = [received EXCEPT ![d] = received'[d]]
  <2>1. CASE Do(d)
    <3>1. /\ http[d] = "request" /\ received[d] <= attempt[d] /\ attempt' = attempt
          /\ received' \in {received, [received EXCEPT ![d] = received[d] + 1]}
      <4>1. http[d] = "request" /\ attempt' = attempt
        BY <2>1 DEF Do
      <4>2. received[d] <= attempt[d]
        BY <1>1, <1>3, <4>1 DEF EventOK, HTTPOK
      <4>3. received' \in {received, [received EXCEPT ![d] = received[d] + 1]}
        BY <2>1 DEF Do
      <4> QED  BY <4>1, <4>2, <4>3
    <3>2. /\ received'[d] \in {received[d], received[d] + 1}
          /\ \A e \in Events : e # d => received'[e] = received[e]
          /\ received' = [received EXCEPT ![d] = received'[d]]
      BY <1>1, <3>1 DEF TypeOK
    <3>3. /\ http' \in [Events -> {"idle", "request", "sleep", "ok", "failed"}]
          /\ http'[d] \in {"sleep", "ok", "failed"}
          /\ \A e \in Events : e # d => http'[e] = http[e]
          /\ http'[d] = "sleep" => attempt[d] # MaxRetries
      BY <1>1, <2>1 DEF TypeOK, Do
    <3>4. http'[d] = "ok" => received'[d] = received[d] + 1
      BY <1>1, <2>1 DEF TypeOK, Do
    <3>5. attempt' = [attempt EXCEPT ![d] = attempt'[d]]
      BY <1>1, <3>1 DEF TypeOK
    <3> QED  BY <1>3, <3>1, <3>2, <3>3, <3>4, <3>5
  <2>2. CASE Sleep(d)
    <3>1. /\ http[d] = "sleep" /\ received[d] <= attempt[d] + 1 /\ attempt[d] < MaxRetries
          /\ received' = received
      BY <1>1, <2>2 DEF EventOK, HTTPOK, Sleep
    <3>2. \/ http' = [http EXCEPT ![d] = "request"] /\ attempt' = [attempt EXCEPT ![d] = attempt[d] + 1]
          \/ http' = [http EXCEPT ![d] = "failed"] /\ attempt' = attempt
      BY <2>2 DEF Sleep
    <3>3. /\ http' \in [Events -> {"idle", "request", "sleep", "ok", "failed"}]
          /\ \/ http'[d] = "request" /\ attempt'[d] = attempt[d] + 1
             \/ http'[d] = "failed" /\ attempt'[d] = attempt[d]
          /\ \A e \in Events : e # d => http'[e] = http[e] /\ attempt'[e] = attempt[e]
          /\ attempt' = [attempt EXCEPT ![d] = attempt'[d]]
          /\ received' = [received EXCEPT ![d] = received'[d]]
      BY <1>1, <3>1, <3>2 DEF TypeOK
    <3> QED  BY <1>3, <3>1, <3>3
  <2> QED  BY <2>1, <2>2
<1>5. TypeOK'
  <2>1. received'[d] \in 0..(MaxRetries + 1)
    BY <1>4
  <2> QED  BY <1>1, <1>4, <2>1 DEF TypeOK
<1>6. \A e \in Events : e # d => Same(e)
  BY <1>1, <1>2, <1>4 DEF Same
<1>7. PublishOK(d)' /\ (Failed(d)' <=> Failed(d))
  BY <1>1 DEF EventOK, PublishOK, Failed
<1>8. FileOK(d)'
  <2>1. Count(d)' = Count(d)
    BY <1>2
  <2> HIDE DEF Count
  <2> QED  BY <1>1, <1>7, <2>1 DEF EventOK, FileOK
<1>9. HTTPOK(d)'
  BY <1>1, <1>3, <1>4, <1>7 DEF EventOK, HTTPOK, PublishOK
<1>10. outcome[d] # "nil"
  BY <1>1, <1>3 DEF EventOK, PublishOK
<1>11. EventOK(d)'
  BY <1>1, <1>7, <1>8, <1>9, <1>10 DEF EventOK
<1> QED  BY <1>5, <1>6, <1>11, Frame DEF IInv

\* Publish returns when every observer was notified.
LEMMA JoinIInv == ASSUME IInv, NEW d \in Events, Join(d) PROVE IInv'
<1>1. EventOK(d) /\ TypeOK /\ pub[d] = "wait" /\ jobs[d] = <<>> /\ busy[d] = {}
      /\ UNCHANGED <<jobs, busy, http, attempt, received, gone, file, lines, ended, panicked>>
      /\ pub' = [pub EXCEPT ![d] = "done"] /\ errCh' = [errCh EXCEPT ![d] = <<>>]
      /\ outcome' = [outcome EXCEPT ![d] = IF Failed(d) THEN "error" ELSE "nil"]
  BY DEF IInv, Join, httpVars, fileVars, Failed
<1>2. \A e \in Events : Count(e)' = Count(e)
  BY <1>1 DEF Count
<1>3. /\ \A e \in Events : e # d => pub'[e] = pub[e] /\ errCh'[e] = errCh[e] /\ outcome'[e] = outcome[e]
      /\ pub'[d] = "done" /\ errCh'[d] = <<>> /\ outcome'[d] \in {"nil", "error"}
      /\ outcome'[d] = "nil" => ~Failed(d)
  BY <1>1 DEF TypeOK
<1>4. TypeOK'
  <2>1. <<>> \in Seq({"nil", "error"}) /\ Len(<<>>) <= errChCap
    BY EmptySeq, ObserverFacts DEF errChCap
  <2>2. errCh' \in [Events -> Seq({"nil", "error"})] /\ \A e \in Events : Len(errCh'[e]) <= errChCap
    BY <1>1, <1>3, <2>1 DEF TypeOK
  <2> QED  BY <1>1, <2>2 DEF TypeOK
<1>5. \A e \in Events : e # d => Same(e)
  BY <1>1, <1>2, <1>3 DEF Same
<1>6. PublishOK(d)'
  BY <1>1, <1>3 DEF EventOK, PublishOK
<1>7. FileOK(d)'
  BY <1>1, <1>3, ObserverFacts DEF FileOK
<1>8. HTTPOK(d)'
  BY <1>1, <1>3 DEF EventOK, HTTPOK
<1>9. outcome'[d] = "nil" => Recorded(d)'
  <2> SUFFICES ASSUME outcome'[d] = "nil" PROVE Recorded(d)'
    OBVIOUS
  <2>1. AuditFile => Count(d) = 1
    BY <1>1, <1>3, ObserverFacts DEF EventOK, FileOK
  <2>2. AuditUrl => received[d] >= 1
    BY <1>1, <1>3 DEF EventOK, HTTPOK
  <2>3. Count(d)' = Count(d)
    BY <1>2
  <2> HIDE DEF Count
  <2> QED  BY <1>1, <2>1, <2>2, <2>3 DEF Recorded
<1> QED  BY <1>4, <1>5, <1>6, <1>7, <1>8, <1>9, Frame DEF IInv, EventOK

\* A client goes away, the manager is closed, or nothing happens.
LEMMA OtherIInv ==
  IInv /\ ((\E e \in Events : Disconnect(e)) \/ Close \/ UNCHANGED vars) => IInv'
<1> SUFFICES ASSUME IInv, (\E e \in Events : Disconnect(e)) \/ Close \/ UNCHANGED vars
             PROVE  IInv'
  OBVIOUS
<1> USE DEF Disconnect, Close, vars, publishVars, httpVars, fileVars
<1>1. UNCHANGED <<pub, jobs, busy, errCh, outcome, http, attempt, received, lines>>
  OBVIOUS
<1>2. TypeOK'
  BY DEF IInv, TypeOK
<1>3. \A e \in Events : Same(e)
  BY <1>1 DEF Same, Count
<1> QED  BY <1>2, <1>3, Frame DEF IInv

\* IInv holds in every reachable state, however the workers of all requests interleave.
THEOREM InductiveInvariant == Spec => []IInv
<1>1. IInv /\ [Next]_vars => IInv'
  BY PublishIInv, TakeIInv, NotifyFileIInv, NotifyHTTPIInv, AttemptIInv, JoinIInv, OtherIInv
     DEF Next, Handler, Terminated
<1> QED  BY InitIInv, <1>1, PTL DEF Spec

-----------------------------------------------------------------------------
(* What follows from it *)

\* The variables keep their types; an event is received once per attempt at most.
THEOREM TypeCorrect == Spec => []TypeOK
<1>1. IInv => TypeOK
  BY DEF IInv
<1> QED  BY InductiveInvariant, <1>1, PTL

\* An event whose Publish returned nil (Publish, errors.Join) is in the file once and
\* was taken by the receiver.
THEOREM NilMeansRecorded == Spec => []SuccessIsRecorded
<1>1. IInv => SuccessIsRecorded
  BY DEF IInv, EventOK, SuccessIsRecorded
<1> QED  BY InductiveInvariant, <1>1, PTL

\* A worker that has notified its observer finds room in errCh, which has the capacity
\* of the list: it never waits for Publish, which waits for it.
RoomForErrors == \A e \in Events : busy[e] # {} => Len(errCh[e]) < errChCap

\* No worker of a Publish ever waits to send its error: errCh, which is read only
\* after they have ended, cannot make Publish hang.
THEOREM ErrorsHaveRoom == Spec => []RoomForErrors
<1>1. IInv => RoomForErrors
  <2> SUFFICES ASSUME IInv, NEW e \in Events, busy[e] # {} PROVE Len(errCh[e]) < errChCap
    BY DEF RoomForErrors
  <2>1. /\ Len(jobs[e]) + Cardinality(busy[e]) + Len(errCh[e]) = errChCap
        /\ busy[e] \subseteq {TheFile, TheURL}
    BY DEF IInv, EventOK, PublishOK, errChCap
  <2>2. PICK o \in {TheFile, TheURL} : o \in busy[e]
    BY <2>1
  <2>3. Cardinality(busy[e]) \in Nat /\ Cardinality(busy[e]) > 0
    BY <2>1, <2>2, BusyCounts
  <2>4. Len(jobs[e]) \in Nat /\ Len(errCh[e]) \in Nat
    BY DEF IInv, TypeOK
  <2> QED  BY <2>1, <2>3, <2>4
<1> QED  BY InductiveInvariant, <1>1, PTL

\* Nothing of an event changes after its Publish returned: no worker is left, no line
\* is written and no attempt is made for an answered request.
THEOREM ReturnedIsOver == Spec => NothingAfterReturn
<1>1. IInv /\ [Next]_vars => [\A e \in Events : pub[e] = "done" =>
                                received'[e] = received[e] /\ Count(e)' = Count(e)]_vars
  <2> SUFFICES ASSUME IInv, [Next]_vars, NEW e \in Events, pub[e] = "done"
               PROVE  received'[e] = received[e] /\ Count(e)' = Count(e)
    OBVIOUS
  <2>1. CASE \E d \in Events : NotifyFile(d)
    <3>1. PICK d \in Events : NotifyFile(d)
      BY <2>1
    <3>2. received' = received /\ d # e
      BY <3>1 DEF NotifyFile, httpVars, IInv, EventOK, PublishOK
    <3>3. lines \in Seq(Events) /\ (lines' = Append(lines, d) \/ lines' = lines)
      BY <3>1 DEF NotifyFile, IInv, TypeOK
    <3>4. CASE lines' = Append(lines, d)
      BY <3>2, <3>3, <3>4, AppendCounts
    <3>5. CASE lines' = lines
      BY <3>2, <3>5 DEF Count
    <3> QED  BY <3>3, <3>4, <3>5
  <2>2. CASE \E d \in Events : Do(d)
    <3>1. PICK d \in Events : Do(d)
      BY <2>2
    <3>2. lines' = lines /\ d # e
      BY <3>1 DEF Do, fileVars, IInv, EventOK, PublishOK, HTTPOK
    <3>3. received' \in {received, [received EXCEPT ![d] = received[d] + 1]}
      BY <3>1 DEF Do
    <3>4. received'[e] = received[e]
      BY <3>2, <3>3 DEF IInv, TypeOK
    <3> QED  BY <3>2, <3>4 DEF Count
  <2>3. CASE ~(\E d \in Events : NotifyFile(d)) /\ ~(\E d \in Events : Do(d))
    <3>1. lines' = lines /\ received' = received
      BY <2>3 DEF Next, Handler, Publish, Take, Sleep, NotifyHTTP, Join, Disconnect, Close,
             Terminated, vars, httpVars, fileVars
    <3> QED  BY <3>1 DEF Count
  <2> QED  BY <2>1, <2>2, <2>3
<1> QED  BY InductiveInvariant, <1>1, PTL DEF Spec, NothingAfterReturn
=============================================================================
