---------------------------- MODULE IngestProofs ----------------------------
(***************************************************************************)
(* Theorems about the ingest pipeline of Ingest, for every number of       *)
(* documents, job slots, retries and relay runs.                           *)
(***************************************************************************)
EXTENDS Ingest, TLAPS

-----------------------------------------------------------------------------
(* Types. *)

\* A job of d put into a free slot, and a task that goes on, keep the types.
LEMMA EnqueueType ==
  ASSUME QueueTypeOK, NEW d \in Docs, NEW queue \in SUBSET Jobs,
         EnqueueJob(d, queue)
  PROVE  QueueTypeOK'
BY DEF QueueTypeOK, EnqueueJob, Running, Unclaimed, Claimed

LEMMA EnqueueAndReturnType ==
  ASSUME QueueTypeOK, NEW i \in Jobs, pc[i] # "none", NEW queue \in SUBSET Jobs,
         EnqueueAndReturn(i, jdoc[i], queue)
  PROVE  QueueTypeOK'
BY DEF QueueTypeOK, EnqueueAndReturn, Running, Unclaimed, Claimed

LEMMA GoesType ==
  ASSUME QueueTypeOK, NEW j \in Jobs, pc[j] # "none",
         NEW p \in Running \cup {"pending"}, Goes(j, p)
  PROVE  QueueTypeOK'
BY DEF QueueTypeOK, Goes, Running, Unclaimed, Claimed

LEMMA RemovedType ==
  ASSUME QueueTypeOK, NEW j \in Jobs, Removed(j)
  PROVE  QueueTypeOK'
BY DEF QueueTypeOK, Removed

LEMMA StartedType ==
  ASSUME QueueTypeOK, NEW j \in Jobs, Started(j)
  PROVE  QueueTypeOK'
BY DEF QueueTypeOK, Started, Running, Unclaimed, Claimed

LEMMA ApiType ==
  ASSUME TypeOK, ApiStep
  PROVE  TypeOK'
<1> USE DEF TypeOK, docVars, apiVars, delVars, relayVars, history
<1>1. ASSUME NEW d \in Docs, UploadCheck(d) \/ UploadStore(d) \/ UploadCommit(d)
      PROVE  TypeOK'
  <2> DEFINE r == <<d, 0>>
  <2>1. r \in Rows
    BY IngestAssumption DEF Rows
  <2> HIDE DEF r
  <2>2. CASE UploadCheck(d) \/ UploadStore(d)
    <3>1. /\ api' = [api EXCEPT ![r] = "checked"] \/ api' = [api EXCEPT ![r] = "stored"]
          /\ blob' \in {blob, [blob EXCEPT ![d] = "stored"]}
      BY <2>2 DEF UploadCheck, UploadStore, ApiGoes, r
    <3>2. UNCHANGED <<doc, ingested, outbox, delVars, relayVars, history, queueVars>>
      BY <2>2 DEF UploadCheck, UploadStore
    <3> QED
      BY <2>1, <3>1, <3>2 DEF queueVars, QueueTypeOK, BeforeCommit
  <2>3. CASE UploadCommit(d)
    <3>1. /\ outbox' = [outbox EXCEPT ![r] = "unpublished"]
          /\ api' = [api EXCEPT ![r] = "committed"]
          /\ doc' = [doc EXCEPT ![d] = "queued"]
      BY <2>3 DEF UploadCommit, ApiGoes, r
    <3>2. UNCHANGED <<ingested, blob, delVars, relayVars, history, queueVars>>
      BY <2>3 DEF UploadCommit
    <3> QED
      BY <2>1, <3>1, <3>2 DEF queueVars, QueueTypeOK, AfterCommit, Statuses
  <2> QED
    BY <1>1, <2>2, <2>3
<1>2. ASSUME NEW d \in Docs, NEW k \in 1..MaxRetries, RetryRead(d, k) \/ RetryCommit(d, k)
      PROVE  TypeOK'
  <2> DEFINE r == <<d, k>>
  <2>1. r \in Rows
    BY IngestAssumption DEF Rows
  <2> HIDE DEF r
  <2>2. CASE RetryRead(d, k)
    BY <2>1, <2>2 DEF RetryRead, ApiGoes, queueVars, QueueTypeOK, BeforeCommit, r
  <2>3. CASE RetryCommit(d, k)
    BY <2>1, <2>3 DEF RetryCommit, Overwrites, ApiGoes, queueVars, QueueTypeOK, AfterCommit,
       Statuses, r
  <2> QED
    BY <1>2, <2>2, <2>3
<1>3. ASSUME NEW r \in Rows, ApiEnqueue(r)
      PROVE  TypeOK'
  <2>1. r[1] \in Docs
    BY DEF Rows
  <2>2. QueueTypeOK'
    BY <1>3, <2>1, EnqueueType DEF ApiEnqueue, Jobs
  <2> QED
    BY <1>3, <2>2 DEF ApiEnqueue, ApiGoes, AfterCommit
<1>4. ASSUME NEW r \in Rows, ApiPublish(r) \/ ApiEnds(r)
      PROVE  TypeOK'
  BY <1>4 DEF ApiPublish, ApiEnds, ApiGoes, queueVars, QueueTypeOK, BeforeCommit, AfterCommit
<1> QED
  BY <1>1, <1>2, <1>3, <1>4 DEF ApiStep

LEMMA DeleteType ==
  ASSUME TypeOK, DeleteStep
  PROVE  TypeOK'
<1> USE DEF TypeOK, docVars, apiVars, delVars, relayVars, history, queueVars, QueueTypeOK
<1>1. ASSUME NEW d \in Docs, DeleteRead(d) \/ DeleteObject(d)
      PROVE  TypeOK'
  BY <1>1 DEF DeleteRead, DeleteObject
<1>2. ASSUME NEW d \in Docs, DeleteRows(d) \/ DeleteCommit(d) \/ DeleteEnds(d)
      PROVE  TypeOK'
  BY <1>2 DEF DeleteRows, DeleteCommit, DeleteEnds, Unpublished
<1> QED
  BY <1>1, <1>2 DEF DeleteStep

LEMMA RelayType ==
  ASSUME TypeOK, RelayStep
  PROVE  TypeOK'
<1> USE DEF TypeOK, docVars, apiVars, delVars, relayVars, history
<1>1. ASSUME NEW rl \in Relays, RelayStart(rl) \/ RelayCommit(rl) \/ RelayDies(rl)
      PROVE  TypeOK'
  BY <1>1 DEF RelayStart, RelayCommit, RelayDies, RelayReset, queueVars, QueueTypeOK
<1>2. ASSUME NEW rl \in Relays, NEW r \in Rows, RelaySend(rl, r)
      PROVE  TypeOK'
  <2>1. r[1] \in Docs
    BY DEF Rows
  <2>2. QueueTypeOK'
    BY <1>2, <2>1, EnqueueType DEF RelaySend, Jobs
  <2> QED
    BY <1>2, <2>2 DEF RelaySend
<1>3. ASSUME NEW rl \in Relays, NEW r \in Rows, RelaySendFails(rl, r)
      PROVE  TypeOK'
  BY <1>3 DEF RelaySendFails, queueVars, QueueTypeOK
<1> QED
  BY <1>1, <1>2, <1>3 DEF RelayStep

LEMMA WorkerType ==
  ASSUME TypeOK, WorkerStep
  PROVE  TypeOK'
<1> USE DEF TypeOK, docVars, apiVars, delVars, relayVars, history
<1> PICK j \in Jobs :
      Task(j) \/ Start(j) \/ Finish(j) \/ GiveUp(j) \/ WorkerDies(j) \/ JobRaises(j)
  BY DEF WorkerStep
<1>0. pc[j] # "none" => jdoc[j] \in Docs
  BY DEF QueueTypeOK
<1>1. CASE RejectRead(j) \/ RouteRead(j) \/ RunIngestRead(j) \/ Extract(j)
  <2>1. \E p \in Running \cup {"pending"} : pc[j] # "none" /\ Goes(j, p)
    BY <1>1 DEF RejectRead, RouteRead, RunIngestRead, Extract, Running, Unclaimed, Claimed
  <2> QED
    BY <1>1, <2>1, GoesType DEF RejectRead, RouteRead, RunIngestRead, Extract
<1>2. CASE FailDocument(j) \/ RouteCommit(j) \/ Claim(j) \/ Enrich(j) \/ Index(j)
  <2>1. \E p \in Running \cup {"pending"} : pc[j] # "none" /\ Goes(j, p)
    BY <1>2 DEF FailDocument, RouteCommit, Claim, Enrich, Index, Running, Unclaimed, Claimed
  <2>2. QueueTypeOK'
    BY <2>1, GoesType
  <2>3. jdoc[j] \in Docs
    BY <2>1, <1>0
  <2>4. /\ doc' \in [Docs -> Statuses \cup {"absent"}]
        /\ overwritten' \in SUBSET Docs
        /\ ingested' \in [Docs -> 0..2]
    BY <1>2, <2>3 DEF FailDocument, RouteCommit, Claim, Enrich, Index, StatusGoes,
       Overwrites, Statuses
  <2> QED
    BY <1>2, <2>2, <2>4 DEF FailDocument, RouteCommit, Claim, Enrich, Index
<1>3. CASE Handoff(j)
  <2>1. QueueTypeOK'
    BY <1>3, EnqueueAndReturnType DEF Handoff, Jobs
  <2> QED
    BY <1>3, <2>1 DEF Handoff
<1>4. CASE Start(j) \/ Finish(j)
  BY <1>4, StartedType, RemovedType DEF Start, Finish
<1>5. CASE GiveUp(j) \/ JobRaises(j)
  <2>1. QueueTypeOK' /\ jdoc[j] \in Docs
    BY <1>5, <1>0, RemovedType DEF GiveUp, GivenUp, JobRaises, Running, Unclaimed, Claimed
  <2> QED
    BY <1>5, <2>1 DEF GiveUp, JobRaises, Loses
<1>6. CASE WorkerDies(j)
  <2>1. QueueTypeOK' /\ jdoc[j] \in Docs
    BY <1>6, <1>0, GoesType DEF WorkerDies, Running, Unclaimed, Claimed
  <2> QED
    BY <1>6, <2>1 DEF WorkerDies, Loses
<1> QED
  BY <1>1, <1>2, <1>3, <1>4, <1>5, <1>6 DEF Task

LEMMA StutterType ==
  ASSUME TypeOK, UNCHANGED vars
  PROVE  TypeOK'
BY DEF TypeOK, QueueTypeOK, vars, docVars, apiVars, delVars, relayVars, history, queueVars

\* Statuses, handler and job states, outbox rows and relay batches keep their
\* types in every behaviour of handlers, relay and workers.
THEOREM TypeCorrect == Spec => []TypeOK
<1>1. Init => TypeOK
  BY IngestAssumption, QueueAssumption DEF Init, TypeOK, QueueInit, QueueTypeOK,
     BeforeCommit, Statuses
<1>2. TypeOK /\ [Next]_vars => TypeOK'
  BY ApiType, DeleteType, RelayType, WorkerType, StutterType DEF Next
<1> QED
  BY <1>1, <1>2, PTL DEF Spec

-----------------------------------------------------------------------------
(* Where rows, documents and jobs come from. *)

\* The upload of d has committed.
Accepted(d) == Committed(<<d, 0>>)

\* Outbox rows, and what the relay works on, come from committed handlers.
RowsCommitted ==
  /\ \A r \in Rows : outbox[r] # "none" \/ r \in sent => Committed(r)
  /\ \A rl \in Relays : \A r \in relayTodo[rl] : Committed(r)

\* What counts as sent was sent.
SentIsSent ==
  /\ \A r \in Rows : api[r] = "sent" => r \in sent
  /\ \A rl \in Relays : relayDone[rl] \subseteq sent
  /\ PublishedWasSent

\* A delete handler holds rows of its own document.
OwnRows == \A d \in Docs : \A r \in delLock[d] : r[1] = d

\* Retries, documents and jobs belong to accepted documents.
AcceptedOnly ==
  /\ \A r \in Rows : Committed(r) => Accepted(r[1])
  /\ \A d \in Docs : doc[d] # "absent" => Accepted(d)
  /\ \A j \in Jobs : pc[j] # "none" => Accepted(jdoc[j])

Provenance == TypeOK /\ RowsCommitted /\ SentIsSent /\ OwnRows /\ AcceptedOnly

\* A handler past its commit stays past it.
LEMMA CommittedStays ==
  ASSUME TypeOK, [Next]_vars, NEW r \in Rows, Committed(r)
  PROVE  Committed(r)'
<1> USE DEF TypeOK, Committed, AfterCommit, BeforeCommit, apiVars
<1>1. CASE ApiStep
  <2>1. ASSUME NEW q, NEW p, api[q] \in BeforeCommit, api' = [api EXCEPT ![q] = p]
        PROVE  Committed(r)'
    BY <2>1
  <2>2. ASSUME NEW d \in Docs,
               \/ UploadCheck(d) \/ UploadStore(d) \/ UploadCommit(d)
               \/ \E k \in 1..MaxRetries : RetryRead(d, k) \/ RetryCommit(d, k)
        PROVE  Committed(r)'
    <3>1. CASE UploadCheck(d) \/ UploadStore(d) \/ UploadCommit(d)
      <4>1. api[<<d, 0>>] \in BeforeCommit /\ \E p : api' = [api EXCEPT ![<<d, 0>>] = p]
        BY <3>1 DEF UploadCheck, UploadStore, UploadCommit, ApiGoes
      <4> QED
        BY <4>1, <2>1
    <3>2. ASSUME NEW k \in 1..MaxRetries, RetryRead(d, k) \/ RetryCommit(d, k)
          PROVE  Committed(r)'
      <4>1. api[<<d, k>>] \in BeforeCommit /\ \E p : api' = [api EXCEPT ![<<d, k>>] = p]
        BY <3>2 DEF RetryRead, RetryCommit, ApiGoes
      <4> QED
        BY <4>1, <2>1
    <3> QED
      BY <2>2, <3>1, <3>2
  <2>3. CASE \E q \in Rows : ApiEnqueue(q) \/ ApiPublish(q) \/ ApiEnds(q)
    BY <2>3 DEF ApiEnqueue, ApiPublish, ApiEnds, ApiGoes
  <2> QED
    BY <1>1, <2>2, <2>3 DEF ApiStep
<1>2. CASE DeleteStep
  BY <1>2 DEF DeleteStep, DeleteRead, DeleteObject, DeleteRows, DeleteCommit, DeleteEnds
<1>3. CASE RelayStep
  BY <1>3 DEF RelayStep, RelayStart, RelaySend, RelaySendFails, RelayCommit, RelayDies
<1>4. CASE WorkerStep
  BY <1>4 DEF WorkerStep, Task, RejectRead, FailDocument, RouteRead, RouteCommit, Handoff,
     RunIngestRead, Claim, Extract, Enrich, Index, Start, Finish, GiveUp, WorkerDies, JobRaises
<1>5. CASE UNCHANGED vars
  BY <1>5 DEF vars
<1> QED
  BY <1>1, <1>2, <1>3, <1>4, <1>5 DEF Next

LEMMA RowsCommittedStep ==
  ASSUME Provenance, [Next]_vars
  PROVE  RowsCommitted'
<1> SUFFICES /\ \A r \in Rows : (outbox[r] # "none" \/ r \in sent)' => Committed(r)'
             /\ \A rl \in Relays : \A r \in relayTodo'[rl] : Committed(r)'
  BY DEF RowsCommitted
<1> USE DEF Provenance
<1>0. \A r \in Rows : Committed(r) => Committed(r)'
  BY CommittedStays
<1>1. CASE ApiStep
  <2>1. ASSUME NEW d \in Docs, UploadCheck(d) \/ UploadStore(d)
        PROVE  UNCHANGED <<outbox, sent, relayTodo>>
    BY <2>1 DEF UploadCheck, UploadStore, history, relayVars
  <2>2. ASSUME NEW d \in Docs, NEW k \in 0..MaxRetries,
               \/ k = 0 /\ UploadCommit(d)
               \/ k # 0 /\ RetryCommit(d, k)
        PROVE  \E r \in Rows : /\ outbox' = [outbox EXCEPT ![r] = "unpublished"]
                               /\ Committed(r)'
                               /\ UNCHANGED <<sent, relayTodo>>
    <3> DEFINE r == <<d, k>>
    <3>1. r \in Rows
      BY DEF Rows
    <3> HIDE DEF r
    <3>2. outbox' = [outbox EXCEPT ![r] = "unpublished"] /\ UNCHANGED <<sent, relayTodo>>
      BY <2>2 DEF UploadCommit, RetryCommit, history, relayVars, r
    <3>3. api' = [api EXCEPT ![r] = "committed"]
      BY <2>2 DEF UploadCommit, RetryCommit, ApiGoes, r
    <3>4. Committed(r)'
      BY <3>1, <3>3 DEF TypeOK, Committed, AfterCommit
    <3> QED
      BY <3>1, <3>2, <3>4
  <2>3. ASSUME NEW d \in Docs, NEW k \in 1..MaxRetries, RetryRead(d, k)
        PROVE  UNCHANGED <<outbox, sent, relayTodo>>
    BY <2>3 DEF RetryRead, history, relayVars
  <2>4. ASSUME NEW r \in Rows, ApiEnqueue(r) \/ ApiPublish(r) \/ ApiEnds(r)
        PROVE  /\ (Committed(r) /\ sent' = sent \cup {r}) \/ sent' = sent
               /\ \A q \in Rows : outbox'[q] # "none" => outbox[q] # "none"
               /\ UNCHANGED relayTodo
    BY <2>4 DEF ApiEnqueue, ApiPublish, ApiEnds, Committed, AfterCommit, history, relayVars, TypeOK
  <2>5. CASE \E d \in Docs : UploadCheck(d) \/ UploadStore(d)
    BY <2>1, <2>5, <1>0 DEF RowsCommitted, TypeOK
  <2>6. CASE \E d \in Docs : UploadCommit(d) \/ \E k \in 1..MaxRetries : RetryCommit(d, k)
    <3>1. PICK r \in Rows : /\ outbox' = [outbox EXCEPT ![r] = "unpublished"]
                            /\ Committed(r)'
                            /\ UNCHANGED <<sent, relayTodo>>
      BY <2>2, <2>6, IngestAssumption
    <3> QED
      BY <3>1, <1>0 DEF RowsCommitted, TypeOK
  <2>7. CASE \E d \in Docs : \E k \in 1..MaxRetries : RetryRead(d, k)
    BY <2>3, <2>7, <1>0 DEF RowsCommitted, TypeOK
  <2>8. CASE \E r \in Rows : ApiEnqueue(r) \/ ApiPublish(r) \/ ApiEnds(r)
    BY <2>4, <2>8, <1>0 DEF RowsCommitted, TypeOK
  <2> QED
    BY <1>1, <2>5, <2>6, <2>7, <2>8 DEF ApiStep
<1>2. CASE DeleteStep
  <2>1. /\ \A r \in Rows : outbox'[r] # "none" => outbox[r] # "none"
        /\ UNCHANGED <<sent, relayTodo>>
    BY <1>2 DEF DeleteStep, DeleteRead, DeleteObject, DeleteRows, DeleteCommit, DeleteEnds,
       history, relayVars, TypeOK
  <2> QED
    BY <2>1, <1>0 DEF RowsCommitted, TypeOK
<1>3. CASE RelayStep
  <2>1. ASSUME NEW rl \in Relays, RelayStart(rl)
        PROVE  /\ UNCHANGED <<outbox, sent>>
               /\ \E batch \in SUBSET {r \in Rows : outbox[r] = "unpublished"} :
                    relayTodo' = [relayTodo EXCEPT ![rl] = batch]
    BY <2>1 DEF RelayStart, history
  <2>2. CASE \E rl \in Relays : RelayStart(rl)
    <3>1. /\ UNCHANGED <<outbox, sent>>
          /\ \A q \in Relays : \A r \in relayTodo'[q] :
               r \in relayTodo[q] \/ (r \in Rows /\ outbox[r] = "unpublished")
      <4>1. PICK rl \in Relays : RelayStart(rl)
        BY <2>2
      <4>2. PICK batch \in SUBSET {r \in Rows : outbox[r] = "unpublished"} :
              relayTodo' = [relayTodo EXCEPT ![rl] = batch]
        BY <2>1, <4>1
      <4>3. \A q \in Relays : relayTodo'[q] = IF q = rl THEN batch ELSE relayTodo[q]
        BY <4>2 DEF TypeOK
      <4> QED
        BY <2>1, <4>1, <4>3
    <3> QED
      BY <3>1, <1>0 DEF RowsCommitted, TypeOK
  <2>3. ASSUME NEW rl \in Relays, NEW r \in Rows, RelaySend(rl, r) \/ RelaySendFails(rl, r)
        PROVE  /\ Committed(r)
               /\ sent' = sent \cup {r} \/ sent' = sent
               /\ \A q \in Relays : relayTodo'[q] \subseteq relayTodo[q]
               /\ UNCHANGED outbox
    BY <2>3 DEF RelaySend, RelaySendFails, RowsCommitted, TypeOK, history
  <2>4. CASE \E rl \in Relays : \E r \in Rows : RelaySend(rl, r) \/ RelaySendFails(rl, r)
    BY <2>3, <2>4, <1>0 DEF RowsCommitted, TypeOK
  <2>5. CASE \E rl \in Relays : RelayCommit(rl) \/ RelayDies(rl)
    <3>1. /\ UNCHANGED sent
          /\ \A q \in Relays : relayTodo'[q] \subseteq relayTodo[q]
          /\ \A r \in Rows : outbox'[r] # "none" => outbox[r] # "none" \/ r \in sent
      BY <2>5 DEF RelayCommit, RelayDies, RelayReset, SentIsSent, TypeOK, history
    <3> QED
      BY <3>1, <1>0 DEF RowsCommitted, TypeOK
  <2> QED
    BY <1>3, <2>2, <2>4, <2>5 DEF RelayStep
<1>4. CASE WorkerStep
  <2>1. UNCHANGED <<outbox, sent, relayTodo>>
    BY <1>4 DEF WorkerStep, Task, RejectRead, FailDocument, RouteRead, RouteCommit, Handoff,
       RunIngestRead, Claim, Extract, Enrich, Index, Start, Finish, GiveUp, WorkerDies, JobRaises,
       history, relayVars
  <2> QED
    BY <2>1, <1>0 DEF RowsCommitted, TypeOK
<1>5. CASE UNCHANGED vars
  BY <1>5, <1>0 DEF vars, history, relayVars, RowsCommitted, TypeOK
<1> QED
  BY <1>1, <1>2, <1>3, <1>4, <1>5 DEF Next

LEMMA SentIsSentStep ==
  ASSUME Provenance, [Next]_vars
  PROVE  SentIsSent'
<1> USE DEF Provenance, TypeOK, SentIsSent, PublishedWasSent
<1> SUFFICES /\ \A r \in Rows : (api'[r] = "sent" \/ outbox'[r] = "published") => r \in sent'
             /\ \A rl \in Relays : relayDone'[rl] \subseteq sent'
  OBVIOUS
<1>1. CASE ApiStep
  <2>1. CASE \E d \in Docs :
               \/ UploadCheck(d) \/ UploadStore(d) \/ UploadCommit(d)
               \/ \E k \in 1..MaxRetries : RetryRead(d, k) \/ RetryCommit(d, k)
    <3>1. UNCHANGED <<sent, relayDone>>
      BY <2>1 DEF UploadCheck, UploadStore, UploadCommit, RetryRead, RetryCommit, history, relayVars
    <3>2. \E q, p : p # "sent" /\ api' = [api EXCEPT ![q] = p]
      BY <2>1 DEF UploadCheck, UploadStore, UploadCommit, RetryRead, RetryCommit, ApiGoes
    <3>3. \E q : outbox' = [outbox EXCEPT ![q] = "unpublished"] \/ outbox' = outbox
      BY <2>1 DEF UploadCheck, UploadStore, UploadCommit, RetryRead, RetryCommit
    <3>4. \A r \in Rows : api'[r] = "sent" => api[r] = "sent"
      BY <3>2
    <3>5. \A r \in Rows : outbox'[r] = "published" => outbox[r] = "published"
      BY <3>3
    <3> QED
      BY <3>1, <3>4, <3>5
  <2>2. CASE \E r \in Rows : ApiEnqueue(r) \/ ApiPublish(r) \/ ApiEnds(r)
    BY <2>2 DEF ApiEnqueue, ApiPublish, ApiEnds, ApiGoes, history, relayVars
  <2> QED
    BY <1>1, <2>1, <2>2 DEF ApiStep
<1>2. CASE DeleteStep
  BY <1>2 DEF DeleteStep, DeleteRead, DeleteObject, DeleteRows, DeleteCommit, DeleteEnds,
     apiVars, history, relayVars
<1>3. CASE RelayStep
  <2>1. CASE \E rl \in Relays : RelayStart(rl)
    BY <1>3, <2>1 DEF RelayStart, apiVars, history
  <2>2. CASE \E rl \in Relays : RelayCommit(rl) \/ RelayDies(rl)
    BY <2>2 DEF RelayCommit, RelayDies, RelayReset, apiVars, history
  <2>3. CASE \E rl \in Relays : \E r \in Rows : RelaySend(rl, r) \/ RelaySendFails(rl, r)
    BY <2>3 DEF RelaySend, RelaySendFails, apiVars, history
  <2> QED
    BY <1>3, <2>1, <2>2, <2>3 DEF RelayStep
<1>4. CASE WorkerStep
  BY <1>4 DEF WorkerStep, Task, RejectRead, FailDocument, RouteRead, RouteCommit, Handoff,
     RunIngestRead, Claim, Extract, Enrich, Index, Start, Finish, GiveUp, WorkerDies, JobRaises,
     apiVars, history, relayVars
<1>5. CASE UNCHANGED vars
  BY <1>5 DEF vars, apiVars, history, relayVars
<1> QED
  BY <1>1, <1>2, <1>3, <1>4, <1>5 DEF Next

LEMMA OwnRowsStep ==
  ASSUME Provenance, [Next]_vars
  PROVE  OwnRows'
<1> USE DEF Provenance, TypeOK, OwnRows
<1>1. CASE DeleteStep
  <2>1. ASSUME NEW d \in Docs, DeleteRows(d)
        PROVE  OwnRows'
    BY <2>1 DEF DeleteRows, Unpublished
  <2>2. ASSUME NEW d \in Docs,
               DeleteRead(d) \/ DeleteObject(d) \/ DeleteCommit(d) \/ DeleteEnds(d)
        PROVE  OwnRows'
    BY <2>2 DEF DeleteRead, DeleteObject, DeleteCommit, DeleteEnds
  <2> QED
    BY <1>1, <2>1, <2>2 DEF DeleteStep
<1>2. CASE ~ DeleteStep
  <2>1. UNCHANGED delLock
    BY <1>2 DEF Next, ApiStep, UploadCheck, UploadStore, UploadCommit, RetryRead, RetryCommit,
       ApiEnqueue, ApiPublish, ApiEnds, RelayStep, RelayStart, RelaySend, RelaySendFails,
       RelayCommit, RelayDies, WorkerStep, Task, RejectRead, FailDocument, RouteRead, RouteCommit,
       Handoff, RunIngestRead, Claim, Extract, Enrich, Index, Start, Finish, GiveUp, WorkerDies,
       JobRaises, vars, delVars
  <2> QED
    BY <2>1
<1> QED
  BY <1>1, <1>2

-----------------------------------------------------------------------------
(* What the operations of the queues do to its jobs. *)

LEMMA EnqueueEffect ==
  ASSUME QueueTypeOK, NEW d \in Docs, NEW queue \in SUBSET Jobs, EnqueueJob(d, queue)
  PROVE  \E j \in queue :
           /\ pc[j] = "none" /\ pc'[j] = "pending" /\ jdoc'[j] = d
           /\ \A i \in Jobs \ {j} : pc'[i] = pc[i] /\ jdoc'[i] = jdoc[i]
BY DEF QueueTypeOK, EnqueueJob

LEMMA EnqueueAndReturnEffect ==
  ASSUME QueueTypeOK, NEW i \in Jobs, pc[i] # "none", NEW d \in Docs,
         NEW queue \in SUBSET Jobs, EnqueueAndReturn(i, d, queue)
  PROVE  \E j \in queue :
           /\ pc[j] = "none" /\ pc'[j] = "pending" /\ jdoc'[j] = d
           /\ i # j /\ pc'[i] = "done" /\ jdoc'[i] = jdoc[i]
           /\ \A k \in Jobs \ {i, j} : pc'[k] = pc[k] /\ jdoc'[k] = jdoc[k]
BY DEF QueueTypeOK, EnqueueAndReturn

LEMMA GoesEffect ==
  ASSUME QueueTypeOK, NEW j \in Jobs, NEW p, Goes(j, p)
  PROVE  /\ pc'[j] = p /\ jdoc' = jdoc
         /\ \A i \in Jobs \ {j} : pc'[i] = pc[i]
BY DEF QueueTypeOK, Goes

LEMMA RemovedEffect ==
  ASSUME QueueTypeOK, NEW j \in Jobs, Removed(j)
  PROVE  /\ pc'[j] = "none"
         /\ \A i \in Jobs \ {j} : pc'[i] = pc[i] /\ jdoc'[i] = jdoc[i]
BY DEF QueueTypeOK, Removed

LEMMA StartedEffect ==
  ASSUME QueueTypeOK, NEW j \in Jobs, Started(j)
  PROVE  /\ pc[j] = "pending" /\ pc'[j] = "start" /\ jdoc' = jdoc
         /\ \A i \in Jobs \ {j} : pc'[i] = pc[i]
BY DEF QueueTypeOK, Started

\* No step of a worker makes or removes a document, and its new jobs are for
\* documents that have one already.
LEMMA WorkerEffect ==
  ASSUME TypeOK, WorkerStep
  PROVE  /\ UNCHANGED api
         /\ \A d \in Docs : doc'[d] = "absent" <=> doc[d] = "absent"
         /\ \A i \in Jobs : pc'[i] # "none" => \E j \in Jobs : pc[j] # "none" /\ jdoc'[i] = jdoc[j]
<1> USE DEF TypeOK
<1> PICK j \in Jobs :
      Task(j) \/ Start(j) \/ Finish(j) \/ GiveUp(j) \/ WorkerDies(j) \/ JobRaises(j)
  BY DEF WorkerStep
<1>0. pc[j] # "none" => jdoc[j] \in Docs
  BY DEF QueueTypeOK
<1>1. CASE RejectRead(j) \/ RouteRead(j) \/ RunIngestRead(j) \/ Extract(j)
           \/ FailDocument(j) \/ RouteCommit(j) \/ Claim(j) \/ Enrich(j) \/ Index(j) \/ WorkerDies(j)
  <2>1. UNCHANGED api
    BY <1>1 DEF RejectRead, RouteRead, RunIngestRead, Extract, FailDocument, RouteCommit, Claim,
       Enrich, Index, WorkerDies, apiVars
  <2>2. pc[j] # "none"
    BY <1>1 DEF RejectRead, RouteRead, RunIngestRead, Extract, FailDocument, RouteCommit, Claim,
       Enrich, Index, WorkerDies, Running, Unclaimed, Claimed
  <2>3. \E p : Goes(j, p)
    BY <1>1 DEF RejectRead, RouteRead, RunIngestRead, Extract, FailDocument, RouteCommit, Claim,
       Enrich, Index, WorkerDies
  <2>4. \A d \in Docs : doc'[d] = "absent" <=> doc[d] = "absent"
    BY <1>1, <2>2, <1>0 DEF RejectRead, RouteRead, RunIngestRead, Extract, FailDocument,
       RouteCommit, Claim, Enrich, Index, WorkerDies, StatusGoes, docVars
  <2> QED
    BY <2>1, <2>2, <2>3, <2>4, GoesEffect
<1>2. CASE Handoff(j)
  <2>1. pc[j] # "none" /\ EnqueueAndReturn(j, jdoc[j], GpuJobs) /\ UNCHANGED <<doc, api>>
    BY <1>2 DEF Handoff, docVars, apiVars
  <2> QED
    BY <2>1, <1>0, EnqueueAndReturnEffect DEF Jobs
<1>3. CASE Start(j)
  BY <1>3, StartedEffect DEF Start, docVars, apiVars
<1>4. CASE Finish(j) \/ GiveUp(j) \/ JobRaises(j)
  <2>1. Removed(j) /\ UNCHANGED <<doc, api>>
    BY <1>4 DEF Finish, GiveUp, GivenUp, JobRaises, docVars, apiVars
  <2> QED
    BY <2>1, RemovedEffect
<1> QED
  BY <1>1, <1>2, <1>3, <1>4 DEF Task

LEMMA AcceptedOnlyStep ==
  ASSUME Provenance, [Next]_vars
  PROVE  AcceptedOnly'
<1> USE DEF Provenance, AcceptedOnly
<1>0. /\ \A r \in Rows : Committed(r) => Committed(r)'
      /\ \A d \in Docs : Accepted(d) => Accepted(d)'
      /\ \A r \in Rows : r[1] \in Docs
  BY CommittedStays, IngestAssumption DEF Accepted, Rows
<1>j. \A j \in Jobs : pc[j] # "none" => jdoc[j] \in Docs
  BY DEF TypeOK, QueueTypeOK
<1>1. CASE \E d \in Docs : UploadCheck(d) \/ UploadStore(d)
  <2>1. UNCHANGED <<doc, queueVars>>
    BY <1>1 DEF UploadCheck, UploadStore, docVars
  <2>2. \A r \in Rows : Committed(r)' => Committed(r)
    BY <1>1 DEF UploadCheck, UploadStore, ApiGoes, Committed, AfterCommit, TypeOK
  <2> QED
    BY <2>1, <2>2, <1>0, <1>j DEF queueVars
<1>2. ASSUME NEW d \in Docs, UploadCommit(d)
      PROVE  AcceptedOnly'
  <2> DEFINE q == <<d, 0>>
  <2>1. q \in Rows /\ q[1] = d
    BY IngestAssumption DEF Rows
  <2>2. api' = [api EXCEPT ![q] = "committed"]
    BY <1>2 DEF UploadCommit, ApiGoes
  <2>3. Accepted(d)'
    BY <2>1, <2>2 DEF Accepted, Committed, AfterCommit, TypeOK
  <2>4. UNCHANGED queueVars /\ \A e \in Docs : doc'[e] # "absent" => e = d \/ doc[e] # "absent"
    BY <1>2 DEF UploadCommit, TypeOK
  <2> HIDE DEF q
  <2>5. \A r \in Rows : Committed(r)' => r = q \/ Committed(r)
    BY <2>2 DEF Committed, TypeOK
  <2> QED
    BY <2>1, <2>3, <2>4, <2>5, <1>0, <1>j DEF queueVars
<1>3. ASSUME NEW d \in Docs, NEW k \in 1..MaxRetries, RetryRead(d, k) \/ RetryCommit(d, k)
      PROVE  AcceptedOnly'
  <2> DEFINE q == <<d, k>>
  <2>1. q \in Rows /\ q[1] = d
    BY IngestAssumption DEF Rows
  <2>2. api' = [api EXCEPT ![q] = "read"] \/ api' = [api EXCEPT ![q] = "committed"]
    BY <1>3 DEF RetryRead, RetryCommit, ApiGoes
  <2>3. doc[d] # "absent"
    BY <1>3 DEF RetryRead, RetryCommit
  <2>4. UNCHANGED queueVars /\ \A e \in Docs : doc'[e] # "absent" => doc[e] # "absent"
    BY <1>3, <2>3 DEF RetryRead, RetryCommit, TypeOK, docVars
  <2> HIDE DEF q
  <2>5. \A r \in Rows : Committed(r)' => r = q \/ Committed(r)
    BY <2>2 DEF Committed, TypeOK
  <2> QED
    BY <2>1, <2>3, <2>4, <2>5, <1>0, <1>j DEF queueVars
<1>4. ASSUME NEW r \in Rows, ApiEnqueue(r)
      PROVE  AcceptedOnly'
  <2>1. Committed(r) /\ UNCHANGED doc /\ EnqueueJob(r[1], CpuJobs)
    BY <1>4 DEF ApiEnqueue, Committed, AfterCommit, docVars
  <2>2. \A q \in Rows : Committed(q)' => Committed(q)
    BY <1>4 DEF ApiEnqueue, ApiGoes, Committed, AfterCommit, TypeOK
  <2>3. \A j \in Jobs : pc'[j] # "none" => (pc[j] # "none" /\ jdoc'[j] = jdoc[j]) \/ jdoc'[j] = r[1]
    BY <2>1, <1>0, EnqueueEffect DEF TypeOK, Jobs
  <2> QED
    BY <2>1, <2>2, <2>3, <1>0, <1>j
<1>5. CASE \E r \in Rows : ApiPublish(r) \/ ApiEnds(r)
  <2>1. UNCHANGED <<doc, queueVars>>
    BY <1>5 DEF ApiPublish, ApiEnds, docVars
  <2>2. \A r \in Rows : Committed(r)' => Committed(r)
    BY <1>5 DEF ApiPublish, ApiEnds, ApiGoes, Committed, AfterCommit, BeforeCommit, TypeOK
  <2> QED
    BY <2>1, <2>2, <1>0, <1>j DEF queueVars
<1>6. CASE DeleteStep
  <2>1. /\ UNCHANGED <<api, queueVars>>
        /\ \A d \in Docs : doc'[d] # "absent" => doc[d] # "absent"
    BY <1>6 DEF DeleteStep, DeleteRead, DeleteObject, DeleteRows, DeleteCommit, DeleteEnds,
       docVars, apiVars, TypeOK
  <2> QED
    BY <2>1, <1>0, <1>j DEF queueVars, Committed
<1>7. ASSUME NEW rl \in Relays, NEW r \in Rows, RelaySend(rl, r)
      PROVE  AcceptedOnly'
  <2>1. Committed(r) /\ UNCHANGED <<doc, api>> /\ EnqueueJob(r[1], CpuJobs)
    BY <1>7 DEF RelaySend, RowsCommitted, docVars, apiVars
  <2>2. \A j \in Jobs : pc'[j] # "none" => (pc[j] # "none" /\ jdoc'[j] = jdoc[j]) \/ jdoc'[j] = r[1]
    BY <2>1, <1>0, EnqueueEffect DEF TypeOK, Jobs
  <2> QED
    BY <2>1, <2>2, <1>0, <1>j DEF Committed
<1>8. CASE \E rl \in Relays :
             \/ RelayStart(rl) \/ RelayCommit(rl) \/ RelayDies(rl)
             \/ \E r \in Rows : RelaySendFails(rl, r)
  <2>1. UNCHANGED <<doc, api, queueVars>>
    BY <1>8 DEF RelayStart, RelayCommit, RelayDies, RelaySendFails, docVars, apiVars
  <2> QED
    BY <2>1, <1>0, <1>j DEF queueVars, Committed
<1>9. CASE WorkerStep
  BY <1>9, <1>0, <1>j, WorkerEffect DEF Committed
<1>10. CASE UNCHANGED vars
  BY <1>10, <1>0, <1>j DEF vars, docVars, apiVars, queueVars, Committed
<1> QED
  BY <1>1, <1>2, <1>3, <1>4, <1>5, <1>6, <1>7, <1>8, <1>9, <1>10 DEF Next, ApiStep, RelayStep

\* Rows, documents and jobs have the origin that Provenance states.
THEOREM ProvenanceHolds == Spec => []Provenance
<1>1. Init => Provenance
  <2>1. Init => TypeOK
    BY IngestAssumption, QueueAssumption DEF Init, TypeOK, QueueInit, QueueTypeOK,
       BeforeCommit, Statuses
  <2>2. Init => RowsCommitted /\ SentIsSent /\ OwnRows /\ AcceptedOnly
    BY DEF Init, QueueInit, RowsCommitted, SentIsSent, PublishedWasSent, OwnRows, AcceptedOnly,
       Committed, AfterCommit
  <2> QED
    BY <2>1, <2>2 DEF Provenance
<1>2. Provenance /\ [Next]_vars => Provenance'
  <2> SUFFICES ASSUME Provenance, [Next]_vars
               PROVE  Provenance'
    OBVIOUS
  <2>1. TypeOK'
    BY ApiType, DeleteType, RelayType, WorkerType, StutterType DEF Next, Provenance
  <2> QED
    BY <2>1, RowsCommittedStep, SentIsSentStep, OwnRowsStep, AcceptedOnlyStep DEF Provenance
<1> QED
  BY <1>1, <1>2, PTL DEF Spec

\* An outbox row is marked published only after a job was enqueued for it,
\* whatever crashes between the enqueue and the mark.
THEOREM PublishedCorrect == Spec => []PublishedWasSent
<1>1. Provenance => PublishedWasSent
  BY DEF Provenance, SentIsSent
<1> QED
  BY <1>1, ProvenanceHolds, PTL

-----------------------------------------------------------------------------
(* Documents, their objects and their contents. *)

\* A document appears only when its upload commits.
LEMMA OnlyUploadsMake ==
  ASSUME TypeOK, [Next]_vars, NEW d \in Docs, doc[d] = "absent", doc'[d] # "absent"
  PROVE  UploadCommit(d)
<1> USE DEF TypeOK
<1>1. CASE \E e \in Docs : \/ UploadCheck(e) \/ UploadStore(e)
                           \/ \E k \in 1..MaxRetries : RetryRead(e, k)
  <2>1. \A e \in Docs : UploadCheck(e) => doc' = doc
    BY DEF UploadCheck, docVars
  <2>2. \A e \in Docs : UploadStore(e) => doc' = doc
    BY DEF UploadStore
  <2>3. \A e \in Docs : \A k \in 1..MaxRetries : RetryRead(e, k) => doc' = doc
    BY DEF RetryRead, docVars
  <2> QED
    BY <1>1, <2>1, <2>2, <2>3
<1>2. CASE \E e \in Docs : UploadCommit(e)
  <2>1. PICK e \in Docs : UploadCommit(e)
    BY <1>2
  <2>2. doc' = [doc EXCEPT ![e] = "queued"]
    BY <2>1 DEF UploadCommit
  <2>3. e = d
    BY <2>2
  <2> QED
    BY <2>1, <2>3
<1>3. CASE \E e \in Docs : \E k \in 1..MaxRetries : RetryCommit(e, k)
  BY <1>3 DEF RetryCommit
<1>4. CASE \E r \in Rows : ApiEnqueue(r) \/ ApiPublish(r) \/ ApiEnds(r)
  BY <1>4 DEF ApiEnqueue, ApiPublish, ApiEnds, docVars
<1>5. CASE DeleteStep
  BY <1>5 DEF DeleteStep, DeleteRead, DeleteObject, DeleteRows, DeleteCommit, DeleteEnds, docVars
<1>6. CASE RelayStep
  BY <1>6 DEF RelayStep, RelayStart, RelaySend, RelaySendFails, RelayCommit, RelayDies, docVars
<1>7. CASE WorkerStep
  BY <1>7, WorkerEffect
<1>8. CASE UNCHANGED vars
  BY <1>8 DEF vars, docVars
<1> QED
  BY <1>1, <1>2, <1>3, <1>4, <1>5, <1>6, <1>7, <1>8 DEF Next, ApiStep

\* However uploads race each other, one document holds a content.
THEOREM OneContentCorrect == Spec => []OneDocumentPerContent
<1>1. Init => OneDocumentPerContent
  BY DEF Init, OneDocumentPerContent
<1>2. TypeOK /\ OneDocumentPerContent /\ [Next]_vars => OneDocumentPerContent'
  <2> SUFFICES ASSUME TypeOK, OneDocumentPerContent, [Next]_vars,
                      NEW d \in Docs, NEW e \in Docs,
                      doc'[d] # "absent", doc'[e] # "absent", ContentOf[d] = ContentOf[e]
               PROVE  d = e
    BY DEF OneDocumentPerContent
  <2>1. CASE doc[d] # "absent" /\ doc[e] # "absent"
    BY <2>1 DEF OneDocumentPerContent
  <2>2. ASSUME NEW a \in Docs, NEW b \in Docs, doc[a] = "absent", doc'[a] # "absent",
               doc'[b] # "absent", ContentOf[a] = ContentOf[b]
        PROVE  a = b
    <3>1. UploadCommit(a)
      BY <2>2, OnlyUploadsMake
    <3>2. /\ doc' = [doc EXCEPT ![a] = "queued"]
          /\ doc[b] = "absent"
      BY <3>1, <2>2 DEF UploadCommit
    <3> QED
      BY <3>2, <2>2 DEF TypeOK
  <2>3. CASE doc[d] = "absent" \/ doc[e] = "absent"
    BY <2>2, <2>3
  <2> QED
    BY <2>1, <2>2, <2>3
<1> QED
  BY <1>1, <1>2, TypeCorrect, PTL DEF Spec

\* An upload past the object store has stored its object.
Stored == \A d \in Docs : api[<<d, 0>>] \in {"stored"} \cup AfterCommit => blob[d] # "none"

\* A document's row appears after its object was stored.
THEOREM StoredCorrect == Spec => []StoredBeforeRow
<1>0. \A d \in Docs : <<d, 0>> \in Rows
  BY IngestAssumption DEF Rows
<1>1. Init => Stored
  BY <1>0 DEF Init, Stored, AfterCommit
<1>2. TypeOK /\ Stored /\ [Next]_vars => Stored'
  <2> SUFFICES ASSUME TypeOK, Stored, [Next]_vars, NEW d \in Docs,
                      api'[<<d, 0>>] \in {"stored"} \cup AfterCommit
               PROVE  blob'[d] # "none"
    BY DEF Stored
  <2> USE DEF TypeOK
  <2> DEFINE r == <<d, 0>>
  <2>0. r \in Rows
    BY <1>0
  <2>h. api[r] \in {"stored"} \cup AfterCommit => blob[d] # "none"
    BY DEF Stored
  <2>g. api'[r] \in {"stored"} \cup AfterCommit
    OBVIOUS
  <2>s. \A e \in Docs : <<e, 0>> = r => e = d
    OBVIOUS
  <2>t. \A e \in Docs : \A k \in 1..MaxRetries : <<e, k>> # r
    BY IngestAssumption
  <2>1. CASE \E e \in Docs : UploadStore(e)
    <3>1. PICK e \in Docs : UploadStore(e)
      BY <2>1
    <3>2. CASE e = d
      BY <3>1, <3>2 DEF UploadStore
    <3>3. CASE e # d
      <4>1. <<e, 0>> # r
        BY <3>3, <2>s
      <4>2. api'[r] = api[r] /\ blob'[d] = blob[d]
        <5> HIDE DEF r
        <5> QED
          BY <3>1, <3>3, <4>1, <2>0 DEF UploadStore, ApiGoes
      <4> QED
        BY <4>2, <2>h, <2>g
    <3> QED
      BY <3>2, <3>3
  <2>2. CASE /\ blob[d] # "none" => blob'[d] # "none"
             /\ api'[r] \in {"stored"} \cup AfterCommit => api[r] \in {"stored"} \cup AfterCommit
    BY <2>2, <2>h, <2>g
  <2> HIDE DEF r
  <2>3. ASSUME NEW e \in Docs,
               \/ UploadCheck(e) \/ UploadCommit(e)
               \/ \E k \in 1..MaxRetries : RetryRead(e, k) \/ RetryCommit(e, k)
        PROVE  blob'[d] # "none"
    <3>1. CASE UploadCheck(e)
      BY <3>1, <2>2, <2>0 DEF UploadCheck, ApiGoes, AfterCommit, docVars
    <3>2. CASE UploadCommit(e)
      BY <3>2, <2>2, <2>0 DEF UploadCommit, ApiGoes, AfterCommit
    <3>3. ASSUME NEW k \in 1..MaxRetries, RetryRead(e, k) \/ RetryCommit(e, k)
          PROVE  blob'[d] # "none"
      <4>1. <<e, k>> # r
        BY <2>t
      <4>2. \E p : api' = [api EXCEPT ![<<e, k>>] = p]
        BY <3>3 DEF RetryRead, RetryCommit, ApiGoes
      <4>3. UNCHANGED blob
        BY <3>3 DEF RetryRead, RetryCommit, docVars
      <4> QED
        BY <4>1, <4>2, <4>3, <2>2, <2>0
    <3> QED
      BY <2>3, <3>1, <3>2, <3>3
  <2>4. CASE \E q \in Rows : ApiEnqueue(q) \/ ApiPublish(q) \/ ApiEnds(q)
    BY <2>4, <2>2, <2>0
       DEF ApiEnqueue, ApiPublish, ApiEnds, ApiGoes, AfterCommit, BeforeCommit, docVars
  <2>5. CASE DeleteStep
    BY <2>5, <2>2 DEF DeleteStep, DeleteRead, DeleteObject, DeleteRows, DeleteCommit,
                      DeleteEnds, docVars, apiVars
  <2>6. CASE RelayStep
    BY <2>6, <2>2 DEF RelayStep, RelayStart, RelaySend, RelaySendFails, RelayCommit,
                      RelayDies, docVars, apiVars
  <2>7. CASE WorkerStep
    <3>1. UNCHANGED api
      BY <2>7, WorkerEffect
    <3>2. UNCHANGED blob
      BY <2>7 DEF WorkerStep, Task, RejectRead, FailDocument, RouteRead, RouteCommit, Handoff,
         RunIngestRead, Claim, Extract, Enrich, Index, Start, Finish, GiveUp, WorkerDies,
         JobRaises, docVars
    <3> QED
      BY <3>1, <3>2, <2>2
  <2>8. CASE UNCHANGED vars
    BY <2>8, <2>2 DEF vars, docVars, apiVars
  <2> QED
    BY <2>1, <2>3, <2>4, <2>5, <2>6, <2>7, <2>8 DEF Next, ApiStep
<1>3. Provenance /\ Stored => StoredBeforeRow
  BY DEF Provenance, AcceptedOnly, Accepted, Committed, Stored, StoredBeforeRow
<1> QED
  BY <1>1, <1>2, <1>3, ProvenanceHolds, TypeCorrect, PTL DEF Spec

-----------------------------------------------------------------------------
(***************************************************************************)
(* Owners of documents, for every number of documents, job slots, retries  *)
(* and relay runs: none is left behind, and, up to the first lost update   *)
(* of its status, one is ingested once.  Neither property is inductive.    *)
(* OwnedUnlessLost: the row that owns a queued document must be one that   *)
(* was not sent yet, for the row of a sent job may be published at any     *)
(* time.  OneIngestUnlessOverwritten: the worker that claimed a document   *)
(* must find the status it left there.                                     *)
(***************************************************************************)

\* An outbox row of d whose job is still to be enqueued.
ToSend(d) == \E r \in Rows : r[1] = d /\ outbox[r] = "unpublished" /\ r \notin sent

Busy(d) == \E j \in Jobs : jdoc[j] = d /\ pc[j] \in Claimed

Owned(d) ==
  /\ doc[d] = "queued" => ToSend(d) \/ WillTake(d)
  /\ doc[d] = "routing" => WillRoute(d)
  /\ doc[d] \in {"extracting", "enriching"} => Busy(d)

\* Only documents of the GPU workers are routed.
OnlyGpuRouted ==
  \A j \in Jobs :
    pc[j] # "none" /\ (j \in GpuJobs \/ pc[j] \in {"route", "handoff"})
      => ClassOf[jdoc[j]] = "gpu"

OwnedInv == OnlyGpuRouted /\ \A d \in Docs \ lost : Owned(d)

-----------------------------------------------------------------------------
(* Steps of the handlers and of the relay. *)

\* What the API handlers, the delete handler and the relay may do to what owns
\* a document.
Quiet ==
  /\ \A j \in Jobs : pc[j] # "none" => pc'[j] = pc[j] /\ jdoc'[j] = jdoc[j]
  /\ \A j \in Jobs : pc[j] = "none" /\ pc'[j] # "none" => j \in CpuJobs /\ pc'[j] = "pending"
  /\ \A r \in Rows : r \in sent' => r \in sent \/ WillTake(r[1])'
  /\ \A r \in Rows :
       outbox[r] = "unpublished" /\ r \notin sent
         => outbox'[r] = "unpublished" \/ doc'[r[1]] = "absent"
  /\ \A d \in Docs :
       doc'[d] = doc[d] \/ doc'[d] = "absent" \/ (doc'[d] = "queued" /\ ToSend(d)')
  /\ UNCHANGED lost

LEMMA QuietOwned ==
  ASSUME Provenance, OwnedInv, Quiet
  PROVE  OwnedInv'
<1>1. OnlyGpuRouted'
  BY QueueAssumption DEF OwnedInv, OnlyGpuRouted, Quiet
<1>2. ASSUME NEW d \in Docs, d \notin lost
      PROVE  Owned(d)'
  <2>1. /\ WillTake(d) => WillTake(d)'
        /\ WillRoute(d) => WillRoute(d)'
        /\ Busy(d) => Busy(d)'
    BY DEF Quiet, WillTake, WillRoute, Busy, Unclaimed, Claimed
  <2>2. ToSend(d) => ToSend(d)' \/ WillTake(d)' \/ doc'[d] = "absent"
    BY DEF Quiet, ToSend
  <2>3. doc'[d] = doc[d] \/ doc'[d] = "absent" \/ (doc'[d] = "queued" /\ ToSend(d)')
    BY DEF Quiet
  <2>4. Owned(d)
    BY <1>2 DEF OwnedInv
  <2> QED
    BY <2>1, <2>2, <2>3, <2>4 DEF Owned
<1> QED
  BY <1>1, <1>2 DEF OwnedInv, Quiet

\* A job enqueued for a row takes its document.
LEMMA EnqueueTakes ==
  ASSUME TypeOK, NEW r \in Rows, EnqueueJob(r[1], CpuJobs)
  PROVE  /\ WillTake(r[1])'
         /\ \A j \in Jobs : pc[j] # "none" => pc'[j] = pc[j] /\ jdoc'[j] = jdoc[j]
         /\ \A j \in Jobs : pc[j] = "none" /\ pc'[j] # "none" => j \in CpuJobs /\ pc'[j] = "pending"
<1>1. r[1] \in Docs
  BY DEF Rows
<1>2. PICK j \in CpuJobs :
        /\ pc[j] = "none" /\ pc'[j] = "pending" /\ jdoc'[j] = r[1]
        /\ \A i \in Jobs \ {j} : pc'[i] = pc[i] /\ jdoc'[i] = jdoc[i]
  BY <1>1, EnqueueEffect DEF TypeOK, Jobs
<1> QED
  BY <1>2 DEF WillTake, Jobs

LEMMA ApiQuiet ==
  ASSUME Provenance, ApiStep
  PROVE  Quiet
<1> USE DEF Provenance, TypeOK
<1>1. CASE \E d \in Docs : UploadCheck(d) \/ UploadStore(d) \/ \E k \in 1..MaxRetries : RetryRead(d, k)
  <2>1. UNCHANGED <<doc, outbox, sent, lost, pc, jdoc>>
    BY <1>1 DEF UploadCheck, UploadStore, RetryRead, docVars, history, queueVars
  <2> QED
    BY <2>1 DEF Quiet
<1>2. ASSUME NEW d \in Docs, NEW k \in 0..MaxRetries,
             (k = 0 /\ UploadCommit(d)) \/ (k # 0 /\ RetryCommit(d, k))
      PROVE  Quiet
  <2> DEFINE r == <<d, k>>
  <2>1. r \in Rows /\ r[1] = d
    BY DEF Rows
  <2>2. r \notin sent
    <3>1. ~ Committed(r)
      BY <1>2 DEF UploadCommit, RetryCommit, Committed, AfterCommit
    <3> QED
      BY <2>1, <3>1 DEF RowsCommitted
  <2>3. /\ doc' = [doc EXCEPT ![d] = "queued"]
        /\ outbox' = [outbox EXCEPT ![r] = "unpublished"]
        /\ UNCHANGED <<sent, lost, pc, jdoc>>
    BY <1>2 DEF UploadCommit, RetryCommit, docVars, history, queueVars
  <2> HIDE DEF r
  <2>4. ToSend(d)'
    BY <2>1, <2>2, <2>3 DEF ToSend
  <2> QED
    BY <2>3, <2>4 DEF Quiet
<1>3. ASSUME NEW r \in Rows, ApiEnqueue(r)
      PROVE  Quiet
  <2>1. EnqueueJob(r[1], CpuJobs) /\ sent' = sent \cup {r} /\ UNCHANGED <<doc, outbox, lost>>
    BY <1>3 DEF ApiEnqueue, docVars
  <2> QED
    BY <2>1, EnqueueTakes DEF Quiet
<1>4. ASSUME NEW r \in Rows, ApiPublish(r) \/ ApiEnds(r)
      PROVE  Quiet
  <2>1. UNCHANGED <<doc, sent, lost, pc, jdoc>>
    BY <1>4 DEF ApiPublish, ApiEnds, docVars, history, queueVars
  <2>2. \A q \in Rows : outbox[q] = "unpublished" /\ q \notin sent => outbox'[q] = "unpublished"
    BY <1>4 DEF ApiPublish, ApiEnds, SentIsSent
  <2> QED
    BY <2>1, <2>2 DEF Quiet
<1> QED
  BY <1>1, <1>2, <1>3, <1>4, IngestAssumption DEF ApiStep

LEMMA DeleteQuiet ==
  ASSUME Provenance, DeleteStep
  PROVE  Quiet
<1> USE DEF Provenance, TypeOK
<1>1. PICK d \in Docs :
        DeleteRead(d) \/ DeleteObject(d) \/ DeleteRows(d) \/ DeleteCommit(d) \/ DeleteEnds(d)
  BY DEF DeleteStep
<1>2. CASE DeleteCommit(d)
  <2>1. UNCHANGED <<sent, lost, pc, jdoc>> /\ doc' = [doc EXCEPT ![d] = "absent"]
    BY <1>2 DEF DeleteCommit, history, queueVars
  <2>2. \A r \in Rows : r \notin delLock[d] => outbox'[r] = outbox[r]
    BY <1>2 DEF DeleteCommit
  <2>3. \A r \in delLock[d] : doc'[r[1]] = "absent"
    BY <2>1 DEF OwnRows
  <2> QED
    BY <2>1, <2>2, <2>3 DEF Quiet
<1>3. CASE ~ DeleteCommit(d)
  <2>1. UNCHANGED <<doc, outbox, sent, lost, pc, jdoc>>
    BY <1>1, <1>3 DEF DeleteRead, DeleteObject, DeleteRows, DeleteEnds, docVars, history, queueVars
  <2> QED
    BY <2>1 DEF Quiet
<1> QED
  BY <1>2, <1>3

LEMMA RelayQuiet ==
  ASSUME Provenance, RelayStep
  PROVE  Quiet
<1> USE DEF Provenance, TypeOK
<1>1. ASSUME NEW rl \in Relays, NEW r \in Rows, RelaySend(rl, r)
      PROVE  Quiet
  <2>1. EnqueueJob(r[1], CpuJobs) /\ sent' = sent \cup {r} /\ UNCHANGED <<doc, outbox, lost>>
    BY <1>1 DEF RelaySend, docVars
  <2> QED
    BY <2>1, EnqueueTakes DEF Quiet
<1>2. CASE \E rl \in Relays :
             RelayStart(rl) \/ RelayDies(rl) \/ \E r \in Rows : RelaySendFails(rl, r)
  <2>1. UNCHANGED <<doc, outbox, sent, lost, pc, jdoc>>
    BY <1>2 DEF RelayStart, RelayDies, RelaySendFails, docVars, history, queueVars
  <2> QED
    BY <2>1 DEF Quiet
<1>3. CASE \E rl \in Relays : RelayCommit(rl)
  <2>1. UNCHANGED <<doc, sent, lost, pc, jdoc>>
    BY <1>3 DEF RelayCommit, docVars, history, queueVars
  <2>2. \A r \in Rows : r \notin sent => outbox'[r] = outbox[r]
    BY <1>3 DEF RelayCommit, SentIsSent
  <2> QED
    BY <2>1, <2>2 DEF Quiet
<1> QED
  BY <1>1, <1>2, <1>3 DEF RelayStep

-----------------------------------------------------------------------------
(* Steps of the workers. *)

\* A step of job j leaves the documents of other jobs alone.
LEMMA OthersOwned ==
  ASSUME NEW j \in Jobs, NEW e \in Docs, Owned(e), doc'[e] = doc[e],
         \A i \in Jobs :
           jdoc[i] = e /\ pc[i] # "none" => pc'[i] = pc[i] /\ jdoc'[i] = jdoc[i],
         UNCHANGED <<outbox, sent>>
  PROVE  Owned(e)'
BY DEF Owned, ToSend, WillTake, WillRoute, Busy, Unclaimed, Claimed

LEMMA WorkerOwned ==
  ASSUME Provenance, OwnedInv, WorkerStep
  PROVE  OwnedInv'
<1> USE DEF Provenance, TypeOK
<1> PICK j \in Jobs :
      Task(j) \/ Start(j) \/ Finish(j) \/ GiveUp(j) \/ WorkerDies(j) \/ JobRaises(j)
  BY DEF WorkerStep
<1>d. PICK d : d = jdoc[j]
  OBVIOUS
<1>0. UNCHANGED <<outbox, sent>>
  BY DEF Task, RejectRead, FailDocument, RouteRead, RouteCommit, Handoff, RunIngestRead, Claim,
     Extract, Enrich, Index, Start, Finish, GiveUp, WorkerDies, JobRaises, history
<1>j. pc[j] # "none" => d \in Docs
  BY <1>d DEF QueueTypeOK
<1>t. (j \in GpuJobs) # (j \in CpuJobs)
  BY QueueAssumption DEF Jobs
<1>1. ASSUME NEW p, Goes(j, p), pc[j] # "none",
             \A e \in Docs : e # d => doc'[e] = doc[e],
             p \in {"route", "handoff"} => ClassOf[d] = "gpu",
             lost \subseteq lost',
             d \notin lost' => Owned(d)'
      PROVE  OwnedInv'
  <2>1. /\ pc'[j] = p /\ jdoc' = jdoc
        /\ \A i \in Jobs \ {j} : pc'[i] = pc[i]
    BY <1>1, GoesEffect
  <2>2. OnlyGpuRouted'
    BY <2>1, <1>1, <1>d DEF OwnedInv, OnlyGpuRouted
  <2>3. ASSUME NEW e \in Docs, e # d, e \notin lost
        PROVE  Owned(e)'
    BY <2>1, <2>3, <1>0, <1>1, <1>d, OthersOwned DEF OwnedInv
  <2> QED
    BY <2>2, <2>3, <1>1 DEF OwnedInv
<1>2. CASE RejectRead(j) \/ RouteRead(j) \/ RunIngestRead(j)
  <2>1. pc[j] = "start" /\ UNCHANGED <<doc, lost>>
    BY <1>2 DEF RejectRead, RouteRead, RunIngestRead, docVars, history
  <2>2. PICK p \in {"reject", "route", "handoff", "claim", "done"} :
          /\ Goes(j, p)
          /\ j \in GpuJobs => p \in {"claim", "done"}
          /\ p \in {"route", "handoff"} => ClassOf[d] = "gpu"
          /\ p = "done" => doc[d] # "queued" /\ (doc[d] = "routing" => j \notin GpuJobs)
          /\ p = "handoff" => doc[d] = "absent"
    <3>1. CASE RejectRead(j)
      <4>1. ClassOf[d] = "none" /\ j \notin GpuJobs
        BY <3>1, <2>1, <1>d DEF RejectRead, OwnedInv, OnlyGpuRouted
      <4>2. CASE doc[d] \in {"absent", "failed"}
        BY <3>1, <4>1, <4>2, <1>d DEF RejectRead
      <4>3. CASE doc[d] \notin {"absent", "failed"}
        BY <3>1, <4>1, <4>3, <1>d DEF RejectRead
      <4> QED
        BY <4>2, <4>3
    <3>2. CASE RouteRead(j)
      <4>1. ClassOf[d] = "gpu" /\ j \notin GpuJobs
        BY <3>2, <1>d, <1>t DEF RouteRead, Routes
      <4>2. CASE doc[d] = "absent"
        BY <3>2, <4>1, <4>2, <1>d DEF RouteRead
      <4>3. CASE doc[d] = "queued"
        BY <3>2, <4>1, <4>3, <1>d DEF RouteRead
      <4>4. CASE doc[d] \notin {"absent", "queued"}
        <5>1. Goes(j, "done")
          BY <3>2, <4>4, <1>d DEF RouteRead
        <5> QED
          BY <4>1, <4>4, <5>1
      <4> QED
        BY <4>2, <4>3, <4>4
    <3>3. CASE RunIngestRead(j)
      BY <3>3, <1>d DEF RunIngestRead
    <3> QED
      BY <1>2, <3>1, <3>2, <3>3
  <2>3. /\ pc'[j] = p /\ jdoc' = jdoc
        /\ \A i \in Jobs \ {j} : pc'[i] = pc[i]
    BY <2>2, GoesEffect
  <2>4. ASSUME d \notin lost
        PROVE  Owned(d)'
    <3>1. Owned(d)
      BY <2>1, <2>4, <1>j DEF OwnedInv
    <3>2. p \in {"reject", "route", "claim"} => WillTake(d)'
      BY <2>3, <1>d DEF WillTake, Unclaimed
    <3>3. doc[d] = "routing" /\ WillRoute(d) => WillRoute(d)'
      BY <2>1, <2>2, <2>3, <1>d DEF WillRoute
    <3>4. Busy(d) => Busy(d)'
      BY <2>1, <2>3 DEF Busy, Claimed
    <3> QED
      BY <2>1, <2>2, <3>1, <3>2, <3>3, <3>4 DEF Owned
  <2> QED
    BY <2>1, <2>2, <2>4, <1>1
<1>9. CASE Extract(j)
  <2>1. PICK p \in {"extracted", "unreadable"} :
          Goes(j, p) /\ pc[j] = "extract" /\ UNCHANGED <<doc, lost>>
    BY <1>9 DEF Extract, docVars, history
  <2>2. /\ pc'[j] = p /\ jdoc' = jdoc
        /\ \A i \in Jobs \ {j} : pc'[i] = pc[i]
    BY <2>1, GoesEffect
  <2>3. ASSUME d \notin lost
        PROVE  Owned(d)'
    <3>1. Owned(d)
      BY <2>1, <2>3, <1>j DEF OwnedInv
    <3>2. /\ WillTake(d) => WillTake(d)'
          /\ WillRoute(d) => WillRoute(d)'
          /\ ToSend(d) => ToSend(d)'
          /\ Busy(d)'
      BY <2>1, <2>2, <1>0, <1>d DEF WillTake, WillRoute, ToSend, Busy, Unclaimed, Claimed
    <3> QED
      BY <2>1, <3>1, <3>2 DEF Owned
  <2> QED
    BY <2>1, <2>3, <1>1
<1>3. CASE FailDocument(j) \/ Claim(j) \/ Enrich(j) \/ Index(j)
  <2>1. UNCHANGED lost
    BY <1>3 DEF FailDocument, Claim, Enrich, Index, history
  <2>2. PICK p \in {"done", "extract", "enrich"} :
          /\ Goes(j, p) /\ pc[j] # "none"
          /\ \/ UNCHANGED doc /\ p = "done" /\ pc[j] = "claim" /\ doc[d] \notin {"queued", "routing"}
             \/ UNCHANGED doc /\ p = "done" /\ doc[d] = "absent"
             \/ p = "done" /\ doc' = [doc EXCEPT ![d] = "failed"]
             \/ p = "done" /\ doc' = [doc EXCEPT ![d] = "indexed"]
             \/ p = "extract" /\ doc' = [doc EXCEPT ![d] = "extracting"]
             \/ p = "enrich" /\ doc' = [doc EXCEPT ![d] = "enriching"]
    <3>1. CASE FailDocument(j)
      BY <3>1, <1>d DEF FailDocument, StatusGoes
    <3>2. CASE Claim(j)
      BY <3>2, <1>d DEF Claim, StatusGoes
    <3>3. CASE Enrich(j)
      BY <3>3, <1>d DEF Enrich, StatusGoes
    <3>4. CASE Index(j)
      BY <3>4, <1>d DEF Index, StatusGoes
    <3> QED
      BY <1>3, <3>1, <3>2, <3>3, <3>4
  <2>3. /\ pc'[j] = p /\ jdoc' = jdoc
        /\ \A i \in Jobs \ {j} : pc'[i] = pc[i]
    BY <2>2, GoesEffect
  <2>4. ASSUME d \notin lost
        PROVE  Owned(d)'
    <3>1. pc[j] = "claim" /\ Busy(d) => Busy(d)'
      BY <2>3 DEF Busy, Claimed
    <3>2. p \in {"extract", "enrich"} => Busy(d)'
      BY <2>3, <1>d DEF Busy, Claimed
    <3> QED
      BY <2>2, <2>4, <3>1, <3>2, <1>j DEF OwnedInv, Owned
  <2> QED
    BY <2>1, <2>2, <2>4, <1>1
<1>4. CASE RouteCommit(j)
  <2>1. PICK p : /\ Goes(j, p) /\ pc[j] = "route" /\ UNCHANGED lost
                 /\ \/ doc[d] = "absent" /\ p = "done" /\ UNCHANGED doc
                    \/ p = "handoff" /\ doc' = [doc EXCEPT ![d] = "routing"]
    BY <1>4, <1>d DEF RouteCommit, StatusGoes
  <2>2. pc'[j] = p /\ jdoc' = jdoc
    BY <2>1, GoesEffect
  <2>3. ClassOf[d] = "gpu"
    BY <2>1, <1>d DEF OwnedInv, OnlyGpuRouted
  <2>4. Owned(d)'
    BY <2>1, <2>2, <1>j, <1>d DEF Owned, WillRoute
  <2> QED
    BY <2>1, <2>3, <2>4, <1>1
<1>5. CASE Handoff(j)
  <2>1. pc[j] = "handoff" /\ EnqueueAndReturn(j, d, GpuJobs) /\ UNCHANGED <<doc, lost>>
    BY <1>5, <1>d DEF Handoff, docVars, history
  <2>2. PICK k \in GpuJobs :
          /\ pc[k] = "none" /\ pc'[k] = "pending" /\ jdoc'[k] = d
          /\ j # k /\ pc'[j] = "done" /\ jdoc'[j] = jdoc[j]
          /\ \A i \in Jobs \ {j, k} : pc'[i] = pc[i] /\ jdoc'[i] = jdoc[i]
    BY <2>1, <1>j, EnqueueAndReturnEffect DEF Jobs
  <2>3. ClassOf[d] = "gpu"
    BY <2>1, <1>d DEF OwnedInv, OnlyGpuRouted
  <2>4. OnlyGpuRouted'
    BY <2>1, <2>2, <2>3, <1>d DEF OwnedInv, OnlyGpuRouted
  <2>5. ASSUME NEW e \in Docs, e # d, e \notin lost
        PROVE  Owned(e)'
    BY <2>1, <2>2, <2>5, <1>0, <1>d, OthersOwned DEF OwnedInv
  <2>6. d \notin lost => Owned(d)'
    <3>1. WillRoute(d)' /\ WillTake(d)'
      BY <2>2 DEF WillRoute, WillTake, Jobs
    <3>2. Busy(d) => Busy(d)'
      BY <2>1, <2>2 DEF Busy, Claimed
    <3> QED
      BY <2>1, <3>1, <3>2, <1>j DEF OwnedInv, Owned
  <2> QED
    BY <2>1, <2>4, <2>5, <2>6 DEF OwnedInv
<1>6. CASE Start(j)
  <2>1. Started(j) /\ UNCHANGED <<doc, lost>>
    BY <1>6 DEF Start, docVars, history
  <2>2. /\ pc[j] = "pending" /\ pc'[j] = "start" /\ jdoc' = jdoc
        /\ \A i \in Jobs \ {j} : pc'[i] = pc[i]
    BY <2>1, StartedEffect
  <2>3. OnlyGpuRouted'
    BY <2>2 DEF OwnedInv, OnlyGpuRouted
  <2>4. ASSUME NEW e \in Docs, e \notin lost
        PROVE  Owned(e)'
    <3>1. /\ WillTake(e) => WillTake(e)'
          /\ WillRoute(e) => WillRoute(e)'
          /\ Busy(e) => Busy(e)'
          /\ ToSend(e) => ToSend(e)'
      BY <2>2, <1>0 DEF WillTake, WillRoute, Busy, ToSend, Unclaimed, Claimed
    <3> QED
      BY <2>1, <2>4, <3>1 DEF OwnedInv, Owned
  <2> QED
    BY <2>1, <2>3, <2>4 DEF OwnedInv
<1>7. CASE Finish(j) \/ GiveUp(j) \/ JobRaises(j)
  <2>1. /\ Removed(j) /\ UNCHANGED doc
        /\ (pc[j] = "done" /\ UNCHANGED lost) \/ lost' = lost \cup {d}
    BY <1>7, <1>d DEF Finish, GiveUp, GivenUp, JobRaises, Loses, docVars, history
  <2>2. /\ pc'[j] = "none"
        /\ \A i \in Jobs \ {j} : pc'[i] = pc[i] /\ jdoc'[i] = jdoc[i]
    BY <2>1, RemovedEffect
  <2>3. OnlyGpuRouted'
    BY <2>2 DEF OwnedInv, OnlyGpuRouted
  <2>4. ASSUME NEW e \in Docs, e \notin lost, e # d \/ pc[j] = "done"
        PROVE  Owned(e)'
    <3>1. /\ WillTake(e) => WillTake(e)'
          /\ WillRoute(e) => WillRoute(e)'
          /\ Busy(e) => Busy(e)'
          /\ ToSend(e) => ToSend(e)'
      BY <2>2, <2>4, <1>0, <1>d DEF WillTake, WillRoute, Busy, ToSend, Unclaimed, Claimed
    <3> QED
      BY <2>1, <2>4, <3>1 DEF OwnedInv, Owned
  <2> QED
    BY <2>1, <2>3, <2>4 DEF OwnedInv
<1>8. CASE WorkerDies(j)
  <2>1. /\ Goes(j, "pending") /\ pc[j] \in Running /\ UNCHANGED doc
        /\ IF pc[j] \in Claimed \cup {"handoff"} THEN lost' = lost \cup {d} ELSE UNCHANGED lost
    BY <1>8, <1>d DEF WorkerDies, Loses, docVars
  <2>2. /\ pc'[j] = "pending" /\ jdoc' = jdoc
        /\ \A i \in Jobs \ {j} : pc'[i] = pc[i]
    BY <2>1, GoesEffect
  <2>3. ASSUME d \notin lost'
        PROVE  Owned(d)'
    <3>1. pc[j] \notin Claimed \cup {"handoff"} /\ d \notin lost
      BY <2>1, <2>3
    <3>2. /\ WillTake(d) => WillTake(d)'
          /\ WillRoute(d) => WillRoute(d)'
          /\ Busy(d) => Busy(d)'
          /\ ToSend(d) => ToSend(d)'
      BY <2>2, <3>1, <1>0, <1>d DEF WillTake, WillRoute, Busy, ToSend, Unclaimed, Claimed
    <3> QED
      BY <2>1, <3>1, <3>2, <1>j DEF OwnedInv, Owned, Running, Unclaimed, Claimed
  <2>4. pc[j] # "none" /\ lost \subseteq lost'
    BY <2>1 DEF Running, Unclaimed, Claimed
  <2> QED
    BY <2>1, <2>3, <2>4, <1>1
<1> QED
  BY <1>2, <1>3, <1>4, <1>5, <1>6, <1>7, <1>8, <1>9 DEF Task

\* The strengthened invariant of ownership: a row that is still to be sent.
THEOREM OwnedHolds == Spec => []OwnedInv
<1>1. Init => OwnedInv
  BY DEF Init, QueueInit, OwnedInv, OnlyGpuRouted, Owned
<1>2. Provenance /\ OwnedInv /\ [Next]_vars => OwnedInv'
  <2> SUFFICES ASSUME Provenance, OwnedInv, [Next]_vars
               PROVE  OwnedInv'
    OBVIOUS
  <2>1. CASE UNCHANGED vars
    <3>1. Quiet
      BY <2>1 DEF Quiet, vars, docVars, history, queueVars
    <3> QED
      BY <3>1, QuietOwned
  <2> QED
    BY <2>1, ApiQuiet, DeleteQuiet, RelayQuiet, QuietOwned, WorkerOwned DEF Next
<1> QED
  BY <1>1, <1>2, ProvenanceHolds, PTL DEF Spec

\* No document is left behind while its workers live: see OwnedUnlessLost.
THEOREM OwnedCorrect == Spec => []OwnedUnlessLost
<1>1. OwnedInv => OwnedUnlessLost
  <2> SUFFICES ASSUME OwnedInv, NEW d \in Docs \ lost
               PROVE  /\ doc[d] = "queued" => Unpublished(d) # {} \/ WillTake(d)
                      /\ doc[d] = "routing" => WillRoute(d)
                      /\ doc[d] \in {"extracting", "enriching"} => Working(d) # {}
    BY DEF OwnedUnlessLost
  <2>1. ToSend(d) => Unpublished(d) # {}
    BY DEF ToSend, Unpublished
  <2>2. Busy(d) => Working(d) # {}
    BY DEF Busy, Working
  <2> QED
    BY <2>1, <2>2 DEF OwnedInv, Owned
<1> QED
  BY <1>1, OwnedHolds, PTL

-----------------------------------------------------------------------------
(* Claims are atomic. *)

\* A job past the claim of a document leaves and finds it in this status.
ClaimedStatus(j) == IF pc[j] = "enrich" THEN "enriching" ELSE "extracting"

Works(j, d) == jdoc[j] = d /\ pc[j] \in Claimed

Once(d) ==
  /\ \A i, j \in Jobs : Works(i, d) /\ Works(j, d) => i = j
  /\ \A j \in Jobs : Works(j, d) => doc[d] \in {"absent", ClaimedStatus(j)}
  /\ ingested[d] <= 1
  /\ ingested[d] = 1 <=> doc[d] = "indexed"

\* Documents without a handler are only ever queued or failed.
Unhandled ==
  /\ \A d \in Docs : ClassOf[d] = "none" => doc[d] \in {"queued", "failed", "absent"}
  /\ \A j \in Jobs :
       /\ pc[j] \in Claimed \cup {"claim", "route", "handoff"} => ClassOf[jdoc[j]] # "none"
       /\ pc[j] = "reject" => ClassOf[jdoc[j]] = "none"

OnceInv == Unhandled /\ \A d \in Docs \ overwritten : Once(d)

-----------------------------------------------------------------------------
(* Steps of the handlers and of the relay. *)

\* The claimed jobs stay as they are, and the status of a document changes
\* only where no worker is at it.
LEMMA QuietOnce ==
  ASSUME Provenance, OnceInv, Quiet,
         overwritten \subseteq overwritten',
         \A d \in Docs :
           \/ doc'[d] = doc[d] /\ ingested'[d] = ingested[d]
           \/ doc'[d] = "absent" /\ ingested'[d] = 0
           \/ /\ doc'[d] = "queued" /\ ingested'[d] = ingested[d]
              /\ \/ d \in overwritten'
                 \/ doc[d] = "failed"
                 \/ doc[d] = "absent" /\ \A j \in Jobs : ~ Works(j, d)
  PROVE  OnceInv'
<1>1. \A j \in Jobs : \/ pc'[j] = pc[j] /\ jdoc'[j] = jdoc[j]
                      \/ pc[j] = "none" /\ pc'[j] \in {"none", "pending"}
  BY DEF Quiet
<1>2. \A j \in Jobs, d \in Docs : Works(j, d)' => Works(j, d) /\ ClaimedStatus(j)' = ClaimedStatus(j)
  BY <1>1 DEF Works, ClaimedStatus, Claimed
<1>3. Unhandled'
  BY <1>1 DEF OnceInv, Unhandled, Claimed
<1>4. ASSUME NEW d \in Docs, d \notin overwritten'
      PROVE  Once(d)'
  <2>1. Once(d)
    BY <1>4 DEF OnceInv
  <2>2. doc[d] = "failed" => \A j \in Jobs : ~ Works(j, d)
    BY <2>1 DEF Once, ClaimedStatus
  <2>3. \A i, j \in Jobs : Works(i, d)' /\ Works(j, d)' => i = j
    BY <1>2, <2>1 DEF Once
  <2>4. CASE doc'[d] = doc[d] /\ ingested'[d] = ingested[d]
    <3>1. \A j \in Jobs : Works(j, d)' => doc'[d] \in {"absent", ClaimedStatus(j)'}
      BY <1>2, <2>1, <2>4 DEF Once
    <3> QED
      BY <2>1, <2>3, <2>4, <3>1 DEF Once
  <2>5. CASE doc'[d] = "absent" /\ ingested'[d] = 0
    BY <2>3, <2>5 DEF Once
  <2>6. CASE /\ doc'[d] = "queued" /\ ingested'[d] = ingested[d]
             /\ \/ doc[d] = "failed"
                \/ doc[d] = "absent" /\ \A j \in Jobs : ~ Works(j, d)
    BY <1>2, <2>1, <2>2, <2>6 DEF Once
  <2> QED
    BY <1>4, <2>4, <2>5, <2>6
<1> QED
  BY <1>3, <1>4 DEF OnceInv

LEMMA ApiOnce ==
  ASSUME Provenance, OnceInv, ApiStep
  PROVE  OnceInv'
<1> USE DEF Provenance, TypeOK
<1>0. Quiet
  BY ApiQuiet
<1>1. ASSUME NEW d \in Docs, UploadCommit(d)
      PROVE  OnceInv'
  <2>1. doc[d] = "absent" /\ ~ Accepted(d)
    BY <1>1 DEF UploadCommit, Accepted, Committed, AfterCommit
  <2>2. \A j \in Jobs : ~ Works(j, d)
    BY <2>1 DEF AcceptedOnly, Works, Claimed
  <2>3. doc' = [doc EXCEPT ![d] = "queued"] /\ UNCHANGED <<ingested, overwritten>>
    BY <1>1 DEF UploadCommit, history
  <2> QED
    BY <1>0, <2>1, <2>2, <2>3, QuietOnce
<1>2. ASSUME NEW d \in Docs, NEW k \in 1..MaxRetries, RetryCommit(d, k)
      PROVE  OnceInv'
  <2>1. /\ doc' = [doc EXCEPT ![d] = "queued"] /\ UNCHANGED ingested
        /\ overwritten' = IF doc[d] = "failed" THEN overwritten ELSE overwritten \cup {d}
    BY <1>2 DEF RetryCommit, Overwrites
  <2> QED
    BY <1>0, <2>1, QuietOnce
<1>3. CASE \/ \E d \in Docs : \/ UploadCheck(d) \/ UploadStore(d)
                             \/ \E k \in 1..MaxRetries : RetryRead(d, k)
           \/ \E r \in Rows : ApiEnqueue(r) \/ ApiPublish(r) \/ ApiEnds(r)
  <2>1. UNCHANGED <<doc, ingested, overwritten>>
    BY <1>3 DEF UploadCheck, UploadStore, RetryRead, ApiEnqueue, ApiPublish, ApiEnds, docVars, history
  <2> QED
    BY <1>0, <2>1, QuietOnce
<1> QED
  BY <1>1, <1>2, <1>3 DEF ApiStep

LEMMA DeleteOnce ==
  ASSUME Provenance, OnceInv, DeleteStep
  PROVE  OnceInv'
<1> USE DEF Provenance, TypeOK
<1>1. PICK d \in Docs :
        DeleteRead(d) \/ DeleteObject(d) \/ DeleteRows(d) \/ DeleteCommit(d) \/ DeleteEnds(d)
  BY DEF DeleteStep
<1>2. /\ \/ UNCHANGED <<doc, ingested>>
         \/ /\ doc' = [doc EXCEPT ![d] = "absent"]
            /\ ingested' = [ingested EXCEPT ![d] = 0]
      /\ UNCHANGED overwritten
  BY <1>1 DEF DeleteRead, DeleteObject, DeleteRows, DeleteCommit, DeleteEnds, docVars, history
<1> QED
  BY <1>2, DeleteQuiet, QuietOnce

LEMMA RelayOnce ==
  ASSUME Provenance, OnceInv, RelayStep
  PROVE  OnceInv'
<1>1. UNCHANGED <<doc, ingested, overwritten>>
  BY DEF RelayStep, RelayStart, RelaySend, RelaySendFails, RelayCommit, RelayDies, docVars, history
<1> QED
  BY <1>1, RelayQuiet, QuietOnce DEF Provenance

-----------------------------------------------------------------------------
(* Steps of the workers. *)

LEMMA WorkerOnce ==
  ASSUME Provenance, OnceInv, WorkerStep
  PROVE  OnceInv'
<1> USE DEF Provenance, TypeOK
<1> PICK j \in Jobs :
      Task(j) \/ Start(j) \/ Finish(j) \/ GiveUp(j) \/ WorkerDies(j) \/ JobRaises(j)
  BY DEF WorkerStep
<1>d. PICK d : d = jdoc[j]
  OBVIOUS
<1>j. pc[j] # "none" => d \in Docs
  BY <1>d DEF QueueTypeOK

<1>1. ASSUME NEW p, Goes(j, p), pc[j] # "none",
             \A e \in Docs : e # d => doc'[e] = doc[e] /\ ingested'[e] = ingested[e],
             overwritten \subseteq overwritten',
             p \in Claimed \cup {"claim", "route", "handoff"} => ClassOf[d] # "none",
             p = "reject" => ClassOf[d] = "none",
             ClassOf[d] = "none" => doc'[d] \in {"queued", "failed", "absent"},
             d \notin overwritten' => Once(d)'
      PROVE  OnceInv'
  <2>1. /\ pc'[j] = p /\ jdoc' = jdoc
        /\ \A i \in Jobs \ {j} : pc'[i] = pc[i]
    BY <1>1, GoesEffect
  <2>2. Unhandled'
    BY <1>1, <2>1, <1>d DEF OnceInv, Unhandled
  <2>3. ASSUME NEW e \in Docs, e # d, e \notin overwritten
        PROVE  Once(e)'
    <3>1. \A i \in Jobs : Works(i, e)' <=> Works(i, e)
      BY <2>1, <2>3, <1>d DEF Works
    <3>2. \A i \in Jobs : Works(i, e) => ClaimedStatus(i)' = ClaimedStatus(i)
      BY <2>1, <2>3, <1>d DEF Works, ClaimedStatus
    <3> QED
      BY <1>1, <2>3, <3>1, <3>2 DEF OnceInv, Once
  <2> QED
    BY <1>1, <2>2, <2>3 DEF OnceInv
\* A step that puts no job past its claim leaves the documents with theirs.
<1>2. ASSUME UNCHANGED <<doc, ingested, overwritten>>,
             \A i \in Jobs, e \in Docs :
               Works(i, e)' => Works(i, e) /\ ClaimedStatus(i)' = ClaimedStatus(i)
      PROVE  \A e \in Docs \ overwritten : Once(e)'
  BY <1>2 DEF OnceInv, Once
<1>3. CASE RejectRead(j) \/ RouteRead(j) \/ RunIngestRead(j) \/ Start(j) \/ WorkerDies(j)
  <2>1. UNCHANGED <<doc, ingested, overwritten>>
    BY <1>3 DEF RejectRead, RouteRead, RunIngestRead, Start, WorkerDies, docVars, history
  <2>2. PICK p \in {"reject", "route", "handoff", "claim", "done", "start", "pending"} :
          /\ pc'[j] = p /\ jdoc' = jdoc
          /\ \A i \in Jobs \ {j} : pc'[i] = pc[i]
          /\ p \in {"claim", "route", "handoff"} => ClassOf[d] # "none"
          /\ p = "reject" => ClassOf[d] = "none"
    <3>1. CASE RejectRead(j)
      <4>1. \E p \in {"done", "reject"} : Goes(j, p)
        BY <3>1 DEF RejectRead
      <4> QED
        BY <3>1, <4>1, <1>d, GoesEffect DEF RejectRead
    <3>2. CASE RouteRead(j)
      <4>1. \E p \in {"handoff", "route", "done"} : Goes(j, p)
        BY <3>2 DEF RouteRead
      <4> QED
        BY <3>2, <4>1, <1>d, GoesEffect DEF RouteRead, Routes
    <3>3. CASE RunIngestRead(j)
      <4>1. \E p \in {"claim", "done"} : Goes(j, p)
        BY <3>3 DEF RunIngestRead
      <4> QED
        BY <3>3, <4>1, <1>d, GoesEffect DEF RunIngestRead
    <3>4. CASE Start(j)
      BY <3>4, StartedEffect DEF Start
    <3>5. CASE WorkerDies(j)
      BY <3>5, GoesEffect DEF WorkerDies
    <3> QED
      BY <1>3, <3>1, <3>2, <3>3, <3>4, <3>5
  <2>3. \A i \in Jobs, e \in Docs : Works(i, e)' => Works(i, e) /\ ClaimedStatus(i)' = ClaimedStatus(i)
    BY <2>2 DEF Works, ClaimedStatus, Claimed
  <2>4. Unhandled'
    BY <2>1, <2>2, <1>d DEF OnceInv, Unhandled, Claimed
  <2> QED
    BY <2>1, <2>3, <2>4, <1>2 DEF OnceInv
<1>4. CASE Finish(j) \/ GiveUp(j) \/ JobRaises(j)
  <2>1. Removed(j) /\ UNCHANGED <<doc, ingested, overwritten>>
    BY <1>4 DEF Finish, GiveUp, GivenUp, JobRaises, docVars, history
  <2>2. /\ pc'[j] = "none"
        /\ \A i \in Jobs \ {j} : pc'[i] = pc[i] /\ jdoc'[i] = jdoc[i]
    BY <2>1, RemovedEffect
  <2>3. \A i \in Jobs, e \in Docs : Works(i, e)' => Works(i, e) /\ ClaimedStatus(i)' = ClaimedStatus(i)
    BY <2>2 DEF Works, ClaimedStatus, Claimed
  <2>4. Unhandled'
    BY <2>1, <2>2 DEF OnceInv, Unhandled, Claimed
  <2> QED
    BY <2>1, <2>3, <2>4, <1>2 DEF OnceInv
<1>5. CASE Handoff(j)
  <2>1. /\ pc[j] = "handoff" /\ EnqueueAndReturn(j, d, GpuJobs)
        /\ UNCHANGED <<doc, ingested, overwritten>>
    BY <1>5, <1>d DEF Handoff, docVars, history
  <2>2. PICK k \in GpuJobs :
          /\ pc[k] = "none" /\ pc'[k] = "pending" /\ jdoc'[k] = d
          /\ j # k /\ pc'[j] = "done" /\ jdoc'[j] = jdoc[j]
          /\ \A i \in Jobs \ {j, k} : pc'[i] = pc[i] /\ jdoc'[i] = jdoc[i]
    BY <2>1, <1>j, EnqueueAndReturnEffect DEF Jobs
  <2>3. \A i \in Jobs, e \in Docs : Works(i, e)' => Works(i, e) /\ ClaimedStatus(i)' = ClaimedStatus(i)
    BY <2>2 DEF Works, ClaimedStatus, Claimed
  <2>4. Unhandled'
    BY <2>1, <2>2 DEF OnceInv, Unhandled, Claimed
  <2> QED
    BY <2>1, <2>3, <2>4, <1>2 DEF OnceInv
<1>6. CASE Extract(j)
  <2>1. PICK p \in {"extracted", "unreadable"} :
          Goes(j, p) /\ pc[j] = "extract" /\ UNCHANGED <<doc, ingested, overwritten>>
    BY <1>6 DEF Extract, docVars, history
  <2>2. /\ pc'[j] = p /\ jdoc' = jdoc
        /\ \A i \in Jobs \ {j} : pc'[i] = pc[i]
    BY <2>1, GoesEffect
  <2>3. \A i \in Jobs, e \in Docs : Works(i, e)' => Works(i, e) /\ ClaimedStatus(i)' = ClaimedStatus(i)
    BY <2>1, <2>2 DEF Works, ClaimedStatus, Claimed
  <2>4. Unhandled'
    BY <2>1, <2>2 DEF OnceInv, Unhandled, Claimed
  <2> QED
    BY <2>1, <2>3, <2>4, <1>2 DEF OnceInv
<1>7. CASE Claim(j)
  <2>1. pc[j] = "claim" /\ ClassOf[d] # "none" /\ UNCHANGED <<ingested, overwritten>>
    BY <1>7, <1>d DEF Claim, history, OnceInv, Unhandled
  <2>2. CASE doc[d] \in {"queued", "routing"}
    <3>1. doc' = [doc EXCEPT ![d] = "extracting"] /\ Goes(j, "extract")
      BY <1>7, <2>2, <1>d DEF Claim, StatusGoes
    <3>2. /\ pc'[j] = "extract" /\ jdoc' = jdoc
          /\ \A i \in Jobs \ {j} : pc'[i] = pc[i]
      BY <3>1, GoesEffect
    <3>3. ASSUME d \notin overwritten
          PROVE  Once(d)'
      <4>1. Once(d)
        BY <3>3, <2>1, <1>j DEF OnceInv
      <4>2. \A i \in Jobs : ~ Works(i, d)
        BY <2>2, <4>1 DEF Once, ClaimedStatus
      <4>3. \A i \in Jobs : Works(i, d)' => i = j
        BY <3>2, <4>2 DEF Works
      <4>4. doc'[d] = "extracting" /\ ClaimedStatus(j)' = "extracting"
        BY <3>1, <3>2, <2>1, <1>j DEF ClaimedStatus
      <4> QED
        BY <2>1, <2>2, <4>1, <4>3, <4>4 DEF Once
    <3> QED
      BY <2>1, <3>1, <3>3, <1>1
  <2>3. CASE doc[d] \notin {"queued", "routing"}
    <3>1. UNCHANGED doc /\ Goes(j, "done")
      BY <1>7, <2>3, <1>d DEF Claim
    <3>2. /\ pc'[j] = "done" /\ jdoc' = jdoc
          /\ \A i \in Jobs \ {j} : pc'[i] = pc[i]
      BY <3>1, GoesEffect
    <3>3. \A i \in Jobs, e \in Docs :
            Works(i, e)' => Works(i, e) /\ ClaimedStatus(i)' = ClaimedStatus(i)
      BY <3>2 DEF Works, ClaimedStatus, Claimed
    <3>4. Unhandled'
      BY <3>1, <3>2 DEF OnceInv, Unhandled, Claimed
    <3> QED
      BY <2>1, <3>1, <3>3, <3>4, <1>2 DEF OnceInv
  <2> QED
    BY <2>2, <2>3
<1>8. CASE RouteCommit(j)
  <2>1. pc[j] = "route" /\ ClassOf[d] # "none" /\ UNCHANGED ingested
    BY <1>8, <1>d DEF RouteCommit, OnceInv, Unhandled
  <2>2. CASE doc[d] = "absent"
    <3>1. Goes(j, "done") /\ UNCHANGED <<doc, overwritten>>
      BY <1>8, <2>2, <1>d DEF RouteCommit
    <3>2. /\ pc'[j] = "done" /\ jdoc' = jdoc
          /\ \A i \in Jobs \ {j} : pc'[i] = pc[i]
      BY <3>1, GoesEffect
    <3>3. \A i \in Jobs, e \in Docs :
            Works(i, e)' => Works(i, e) /\ ClaimedStatus(i)' = ClaimedStatus(i)
      BY <3>2 DEF Works, ClaimedStatus, Claimed
    <3>4. Unhandled'
      BY <3>1, <3>2 DEF OnceInv, Unhandled, Claimed
    <3> QED
      BY <2>1, <3>1, <3>3, <3>4, <1>2 DEF OnceInv
  <2>3. CASE doc[d] # "absent"
    <3>1. /\ Goes(j, "handoff")
          /\ doc' = [doc EXCEPT ![d] = "routing"]
          /\ overwritten' = IF doc[d] = "queued" THEN overwritten ELSE overwritten \cup {d}
      BY <1>8, <2>3, <1>d DEF RouteCommit, StatusGoes, Overwrites
    <3>2. /\ pc'[j] = "handoff" /\ jdoc' = jdoc
          /\ \A i \in Jobs \ {j} : pc'[i] = pc[i]
      BY <3>1, GoesEffect
    <3>3. ASSUME d \notin overwritten'
          PROVE  Once(d)'
      <4>1. doc[d] = "queued" /\ Once(d)
        BY <3>1, <3>3, <2>1, <1>j DEF OnceInv
      <4>2. \A i \in Jobs : ~ Works(i, d)
        BY <4>1 DEF Once, ClaimedStatus
      <4>3. \A i \in Jobs : ~ Works(i, d)'
        BY <3>2, <4>2 DEF Works, Claimed
      <4> QED
        BY <2>1, <3>1, <4>1, <4>3, <1>j DEF Once
    <3> QED
      BY <2>1, <3>1, <3>3, <1>1
  <2> QED
    BY <2>2, <2>3
<1>9. CASE FailDocument(j)
  <2>1. /\ pc[j] \in {"reject", "unreadable"} /\ Goes(j, "done")
        /\ doc' = IF doc[d] = "absent" THEN doc ELSE [doc EXCEPT ![d] = "failed"]
        /\ UNCHANGED ingested /\ overwritten \subseteq overwritten'
    BY <1>9, <1>d DEF FailDocument, StatusGoes, Overwrites
  <2>2. /\ pc'[j] = "done" /\ jdoc' = jdoc
        /\ \A i \in Jobs \ {j} : pc'[i] = pc[i]
    BY <2>1, GoesEffect
  <2>3. ASSUME d \notin overwritten'
        PROVE  Once(d)'
    <3>1. Once(d) /\ d \in Docs
      BY <2>1, <2>3, <1>j DEF OnceInv
    <3>2. pc[j] = "reject" => \A i \in Jobs : ~ Works(i, d)
      BY <1>d DEF OnceInv, Unhandled, Works
    <3>3. pc[j] = "unreadable" => \A i \in Jobs : Works(i, d) => i = j
      BY <3>1, <1>d DEF Once, Works, Claimed
    <3>4. \A i \in Jobs : ~ Works(i, d)'
      BY <2>1, <2>2, <3>2, <3>3 DEF Works, Claimed
    <3>5. doc[d] # "indexed"
      <4>1. CASE pc[j] = "reject"
        BY <3>1, <4>1, <1>d DEF OnceInv, Unhandled
      <4>2. CASE pc[j] = "unreadable"
        BY <3>1, <4>2, <1>d DEF Once, Works, Claimed, ClaimedStatus
      <4> QED
        BY <2>1, <4>1, <4>2
    <3> QED
      BY <2>1, <3>1, <3>4, <3>5 DEF Once
  <2>4. ClassOf[d] = "none" => doc'[d] \in {"queued", "failed", "absent"}
    BY <2>1, <1>j DEF OnceInv, Unhandled
  <2> QED
    BY <2>1, <2>3, <2>4, <1>1, <1>j DEF Claimed
<1>10. CASE Enrich(j) \/ Index(j)
  <2>1. /\ pc[j] \in {"extracted", "enrich"} /\ ClassOf[d] # "none" /\ d \in Docs
        /\ overwritten \subseteq overwritten'
    BY <1>10, <1>d, <1>j DEF Enrich, Index, Overwrites, OnceInv, Unhandled, Claimed
  <2>2. CASE doc[d] = "absent"
    <3>1. Goes(j, "done") /\ UNCHANGED <<doc, ingested, overwritten>>
      BY <1>10, <2>2, <1>d DEF Enrich, Index
    <3>2. /\ pc'[j] = "done" /\ jdoc' = jdoc
          /\ \A i \in Jobs \ {j} : pc'[i] = pc[i]
      BY <3>1, GoesEffect
    <3>3. \A i \in Jobs, e \in Docs :
            Works(i, e)' => Works(i, e) /\ ClaimedStatus(i)' = ClaimedStatus(i)
      BY <3>2 DEF Works, ClaimedStatus, Claimed
    <3>4. Unhandled'
      BY <3>1, <3>2 DEF OnceInv, Unhandled, Claimed
    <3> QED
      BY <2>1, <3>1, <3>3, <3>4, <1>2 DEF OnceInv
  <2>3. CASE doc[d] # "absent" /\ Enrich(j)
    <3>1. /\ pc[j] = "extracted" /\ Goes(j, "enrich")
          /\ doc' = [doc EXCEPT ![d] = "enriching"] /\ UNCHANGED ingested
      BY <2>3, <1>d DEF Enrich, StatusGoes
    <3>2. /\ pc'[j] = "enrich" /\ jdoc' = jdoc
          /\ \A i \in Jobs \ {j} : pc'[i] = pc[i]
      BY <3>1, GoesEffect
    <3>3. ASSUME d \notin overwritten'
          PROVE  Once(d)'
      <4>1. Once(d)
        BY <3>3, <2>1 DEF OnceInv
      <4>2. Works(j, d) /\ doc[d] = "extracting"
        BY <2>3, <3>1, <4>1, <1>d DEF Once, Works, Claimed, ClaimedStatus
      <4>3. \A i \in Jobs : Works(i, d)' => i = j
        BY <3>2, <4>1, <4>2 DEF Works, Once
      <4>4. doc'[d] = "enriching" /\ ClaimedStatus(j)' = "enriching"
        BY <3>1, <3>2, <2>1 DEF ClaimedStatus
      <4> QED
        BY <3>1, <4>1, <4>2, <4>3, <4>4 DEF Once
    <3> QED
      BY <2>1, <3>1, <3>3, <1>1
  <2>4. CASE doc[d] # "absent" /\ Index(j)
    <3>1. /\ pc[j] = "enrich" /\ Goes(j, "done")
          /\ doc' = [doc EXCEPT ![d] = "indexed"]
          /\ ingested' = [ingested EXCEPT ![d] = IF @ = 0 THEN 1 ELSE 2]
      BY <2>4, <1>d DEF Index, StatusGoes
    <3>2. /\ pc'[j] = "done" /\ jdoc' = jdoc
          /\ \A i \in Jobs \ {j} : pc'[i] = pc[i]
      BY <3>1, GoesEffect
    <3>3. ASSUME d \notin overwritten'
          PROVE  Once(d)'
      <4>1. Once(d)
        BY <3>3, <2>1 DEF OnceInv
      <4>2. Works(j, d) /\ doc[d] = "enriching"
        BY <2>4, <3>1, <4>1, <1>d DEF Once, Works, Claimed, ClaimedStatus
      <4>3. ingested[d] = 0
        BY <2>1, <4>1, <4>2 DEF Once
      <4>4. \A i \in Jobs : ~ Works(i, d)'
        BY <3>2, <4>1, <4>2 DEF Works, Once, Claimed
      <4>5. doc'[d] = "indexed" /\ ingested'[d] = 1
        BY <3>1, <4>3, <2>1
      <4> QED
        BY <4>4, <4>5 DEF Once
    <3> QED
      BY <2>1, <3>1, <3>3, <1>1 DEF Claimed
  <2> QED
    BY <1>10, <2>2, <2>3, <2>4
<1> QED
  BY <1>3, <1>4, <1>5, <1>6, <1>7, <1>8, <1>9, <1>10 DEF Task

\* The strengthened invariant of the claim: what a worker left it finds.
THEOREM OnceHolds == Spec => []OnceInv
<1>1. Init => OnceInv
  BY DEF Init, QueueInit, OnceInv, Unhandled, Once, Works, Claimed
<1>2. Provenance /\ OnceInv /\ [Next]_vars => OnceInv'
  <2> SUFFICES ASSUME Provenance, OnceInv, [Next]_vars
               PROVE  OnceInv'
    OBVIOUS
  <2>1. CASE UNCHANGED vars
    <3>1. Quiet /\ UNCHANGED <<doc, ingested, overwritten>>
      BY <2>1 DEF Quiet, vars, docVars, history, queueVars
    <3> QED
      BY <3>1, QuietOnce
  <2> QED
    BY <2>1, ApiOnce, DeleteOnce, RelayOnce, WorkerOnce DEF Next
<1> QED
  BY <1>1, <1>2, ProvenanceHolds, PTL DEF Spec

\* The atomic claim: one worker at a time, one set of chunks, exactly when
\* indexed: see OneIngestUnlessOverwritten.
THEOREM OneIngestCorrect == Spec => []OneIngestUnlessOverwritten
<1>1. OnceInv => OneIngestUnlessOverwritten
  BY DEF OnceInv, Once, Works, Working, OneIngestUnlessOverwritten
<1> QED
  BY <1>1, OnceHolds, PTL

-----------------------------------------------------------------------------
(* Who may replace a status unread. *)

Retries == 1..MaxRetries

CommittedRetry(d, k) == Committed(<<d, k>>)

\* A retry of a document the CPU workers handle that is past its check
\* finds the document failed or gone, unless another retry has committed.
RetrySafe ==
  \A d \in Docs, k \in Retries :
    api[<<d, k>>] = "read" /\ ClassOf[d] = "cpu"
      => \/ doc[d] \in {"failed", "absent"}
         \/ \E i \in Retries : i # k /\ CommittedRetry(d, i)

\* Only accepted documents are read by a retry.
RetryAccepted == \A d \in Docs, k \in Retries : api[<<d, k>>] = "read" => Accepted(d)

RetryInv == RetrySafe /\ RetryAccepted /\ CpuOverwriteNeedsTwoRetries

LEMMA RetryCommittedStays ==
  ASSUME TypeOK, [Next]_vars, NEW d \in Docs, NEW k \in Retries, CommittedRetry(d, k)
  PROVE  CommittedRetry(d, k)'
<1>1. <<d, k>> \in Rows
  BY IngestAssumption DEF Rows, Retries
<1> QED
  BY <1>1, CommittedStays DEF CommittedRetry

\* No step but a retry's own puts it past its check.
LEMMA OtherRetries ==
  ASSUME TypeOK, [Next]_vars, NEW d \in Docs, NEW k \in Retries,
         api'[<<d, k>>] = "read", api[<<d, k>>] # "read"
  PROVE  RetryRead(d, k)
<1> DEFINE r == <<d, k>>
<1>0. r \in Rows
  BY IngestAssumption DEF Rows, Retries
<1>1. CASE ApiStep
  <2>1. ASSUME NEW e \in Docs, UploadCheck(e) \/ UploadStore(e) \/ UploadCommit(e)
        PROVE  api'[r] = "read" => api[r] = "read"
    <3>1. \E q : \E p \in {"checked", "stored", "committed"} : api' = [api EXCEPT ![q] = p]
      BY <2>1 DEF UploadCheck, UploadStore, UploadCommit, ApiGoes
    <3> QED
      BY <3>1, <1>0 DEF TypeOK
  <2>2. ASSUME NEW e \in Docs, NEW i \in Retries, RetryCommit(e, i)
        PROVE  api'[r] = "read" => api[r] = "read"
    <3>1. \E q : api' = [api EXCEPT ![q] = "committed"]
      BY <2>2 DEF RetryCommit, ApiGoes
    <3> QED
      BY <3>1, <1>0 DEF TypeOK
  <2>3. ASSUME NEW q \in Rows, ApiEnqueue(q) \/ ApiPublish(q) \/ ApiEnds(q)
        PROVE  api'[r] = "read" => api[r] = "read"
    BY <2>3, <1>0 DEF ApiEnqueue, ApiPublish, ApiEnds, ApiGoes, TypeOK
  <2>4. ASSUME NEW e \in Docs, NEW i \in Retries, RetryRead(e, i)
        PROVE  e = d /\ i = k
    <3> DEFINE q == <<e, i>>
    <3>1. api' = [api EXCEPT ![q] = "read"]
      BY <2>4 DEF RetryRead, ApiGoes
    <3> HIDE DEF q
    <3>2. q = r
      BY <3>1, <1>0 DEF TypeOK
    <3> QED
      BY <3>2 DEF q
  <2> QED
    BY <1>1, <2>1, <2>2, <2>3, <2>4 DEF ApiStep, Retries
<1>2. CASE ~ ApiStep
  <2>1. UNCHANGED api
    <3>1. WorkerStep => UNCHANGED api
      BY WorkerEffect
    <3>2. DeleteStep => UNCHANGED api
      BY DEF DeleteStep, DeleteRead, DeleteObject, DeleteRows, DeleteCommit, DeleteEnds, apiVars
    <3>3. RelayStep => UNCHANGED api
      BY DEF RelayStep, RelayStart, RelaySend, RelaySendFails, RelayCommit, RelayDies, apiVars
    <3> QED
      BY <1>2, <3>1, <3>2, <3>3 DEF Next, vars, apiVars
  <2> QED
    BY <2>1
<1> QED
  BY <1>1, <1>2

\* A document leaves failed, and its status is taken for another one, only so.
LEMMA LeavesFailed ==
  ASSUME Provenance, OwnedInv, OnceInv, [Next]_vars, NEW d \in Docs, ClassOf[d] = "cpu"
  PROVE  /\ \/ doc[d] \in {"failed", "absent"} => doc'[d] \in {"failed", "absent"}
            \/ d \in overwritten
            \/ ~ Accepted(d)
            \/ \E k \in Retries : RetryCommit(d, k)
         /\ \/ d \in overwritten' => d \in overwritten
            \/ \E k \in Retries : RetryCommit(d, k) /\ doc[d] # "failed"
<1> USE DEF Provenance, TypeOK
<1>1. CASE \E e \in Docs : UploadCommit(e)
  BY <1>1 DEF UploadCommit, Accepted, Committed, AfterCommit, history
<1>2. ASSUME NEW e \in Docs, NEW k \in Retries, RetryCommit(e, k)
      PROVE  /\ doc'[d] = doc[d] \/ RetryCommit(d, k)
             /\ (d \in overwritten' => d \in overwritten) \/ (RetryCommit(d, k) /\ doc[d] # "failed")
  <2>1. CASE e = d
    BY <1>2, <2>1 DEF RetryCommit, Overwrites
  <2>2. CASE e # d
    BY <1>2, <2>2 DEF RetryCommit, Overwrites
  <2> QED
    BY <2>1, <2>2
<1>3. CASE DeleteStep
  BY <1>3 DEF DeleteStep, DeleteRead, DeleteObject, DeleteRows, DeleteCommit, DeleteEnds,
     docVars, history
<1>4. CASE WorkerStep
  <2> PICK j \in Jobs :
        Task(j) \/ Start(j) \/ Finish(j) \/ GiveUp(j) \/ WorkerDies(j) \/ JobRaises(j)
    BY <1>4 DEF WorkerStep
  <2>1. CASE RouteCommit(j)
    <3>1. jdoc[j] # d
      BY <2>1 DEF RouteCommit, OwnedInv, OnlyGpuRouted
    <3>2. doc'[d] = doc[d] /\ (d \in overwritten' => d \in overwritten)
      BY <2>1, <3>1 DEF RouteCommit, StatusGoes, Overwrites
    <3> QED
      BY <3>2
  <2>2. CASE Enrich(j) \/ Index(j) \/ FailDocument(j)
    <3>1. CASE jdoc[j] # d
      BY <2>2, <3>1 DEF Enrich, Index, FailDocument, StatusGoes, Overwrites
    <3>2. CASE jdoc[j] = d /\ d \in overwritten
      BY <3>2
    <3>3. CASE jdoc[j] = d /\ d \notin overwritten
      <4>1. pc[j] # "reject"
        BY <3>3 DEF OnceInv, Unhandled
      <4>2. Works(j, d)
        BY <2>2, <3>3, <4>1 DEF Enrich, Index, FailDocument, Works, Claimed
      <4>3. doc[d] \in {"absent", ClaimedStatus(j)}
        BY <3>3, <4>2 DEF OnceInv, Once
      <4>4. d \notin overwritten'
        BY <2>2, <3>3, <4>1, <4>3 DEF Enrich, Index, FailDocument, Overwrites, ClaimedStatus
      <4>5. doc[d] # "failed" /\ (doc[d] = "absent" => doc'[d] = "absent")
        BY <2>2, <3>3, <4>3 DEF Enrich, Index, FailDocument, ClaimedStatus
      <4> QED
        BY <4>4, <4>5
    <3> QED
      BY <3>1, <3>2, <3>3
  <2>3. CASE RejectRead(j) \/ RouteRead(j) \/ Handoff(j) \/ RunIngestRead(j)
             \/ Claim(j) \/ Extract(j) \/ Start(j) \/ Finish(j) \/ GiveUp(j) \/ WorkerDies(j)
             \/ JobRaises(j)
    BY <2>3 DEF RejectRead, RouteRead, Handoff, RunIngestRead, Claim, Extract,
       Start, Finish, GiveUp, WorkerDies, JobRaises, StatusGoes, docVars, history
  <2> QED
    BY <2>1, <2>2, <2>3 DEF Task
<1>5. CASE \/ \E e \in Docs : \/ UploadCheck(e) \/ UploadStore(e)
                             \/ \E k \in Retries : RetryRead(e, k)
           \/ \E r \in Rows : ApiEnqueue(r) \/ ApiPublish(r) \/ ApiEnds(r)
           \/ RelayStep \/ UNCHANGED vars
  BY <1>5 DEF UploadCheck, UploadStore, RetryRead, ApiEnqueue, ApiPublish, ApiEnds, RelayStep,
     RelayStart, RelaySend, RelaySendFails, RelayCommit, RelayDies, vars, docVars, history
<1> QED
  BY <1>1, <1>2, <1>3, <1>4, <1>5 DEF Next, ApiStep, Retries

LEMMA RetryStep ==
  ASSUME Provenance, OwnedInv, OnceInv, RetryInv, [Next]_vars
  PROVE  RetryInv'
<1> USE DEF Provenance
<1>a. \A d \in Docs : Accepted(d) => Accepted(d)'
  BY CommittedStays, IngestAssumption DEF Accepted, Rows
<1>c. \A d \in Docs, k \in Retries : CommittedRetry(d, k) => CommittedRetry(d, k)'
  BY RetryCommittedStays
<1>r. \A d \in Docs, k \in Retries :
        RetryCommit(d, k) => CommittedRetry(d, k)' /\ api[<<d, k>>] = "read" /\ doc[d] # "absent"
  <2> SUFFICES ASSUME NEW d \in Docs, NEW k \in Retries, RetryCommit(d, k)
               PROVE  CommittedRetry(d, k)' /\ api[<<d, k>>] = "read" /\ doc[d] # "absent"
    OBVIOUS
  <2>1. <<d, k>> \in Rows
    BY IngestAssumption DEF Rows, Retries
  <2> QED
    BY <2>1 DEF RetryCommit, ApiGoes, CommittedRetry, Committed, AfterCommit, TypeOK
<1>1. RetryAccepted'
  <2> SUFFICES ASSUME NEW d \in Docs, NEW k \in Retries, api'[<<d, k>>] = "read"
               PROVE  Accepted(d)'
    BY DEF RetryAccepted
  <2>1. CASE api[<<d, k>>] = "read"
    BY <2>1, <1>a DEF RetryInv, RetryAccepted
  <2>2. CASE api[<<d, k>>] # "read"
    <3>1. doc[d] = "failed"
      BY <2>2, OtherRetries DEF RetryRead
    <3> QED
      BY <3>1, <1>a DEF AcceptedOnly
  <2> QED
    BY <2>1, <2>2
<1>2. RetrySafe'
  <2> SUFFICES ASSUME NEW d \in Docs, NEW k \in Retries, api'[<<d, k>>] = "read", ClassOf[d] = "cpu"
               PROVE  \/ doc'[d] \in {"failed", "absent"}
                      \/ \E i \in Retries : i # k /\ CommittedRetry(d, i)'
    BY DEF RetrySafe
  <2>1. ~ CommittedRetry(d, k)'
    BY DEF CommittedRetry, Committed, AfterCommit
  <2>2. \A i \in Retries : CommittedRetry(d, i)' => i # k
    BY <2>1
  <2>3. CASE d \in overwritten
    BY <2>2, <2>3, <1>c DEF RetryInv, CpuOverwriteNeedsTwoRetries, CommittedRetry, Retries
  <2>4. CASE \E i \in Retries : RetryCommit(d, i)
    BY <2>2, <2>4, <1>r
  <2>5. CASE api[<<d, k>>] # "read"
    <3>1. RetryRead(d, k)
      BY <2>5, OtherRetries
    <3> QED
      BY <3>1 DEF RetryRead, docVars
  <2>6. CASE api[<<d, k>>] = "read" /\ d \notin overwritten /\ ~ \E i \in Retries : RetryCommit(d, i)
    <3>1. Accepted(d)
      BY <2>6 DEF RetryInv, RetryAccepted
    <3>2. doc[d] \in {"failed", "absent"} => doc'[d] \in {"failed", "absent"}
      BY <2>6, <3>1, LeavesFailed
    <3> QED
      BY <2>2, <2>6, <3>2, <1>c DEF RetryInv, RetrySafe
  <2> QED
    BY <2>3, <2>4, <2>5, <2>6
<1>3. CpuOverwriteNeedsTwoRetries'
  <2> SUFFICES ASSUME NEW d \in overwritten', ClassOf[d] = "cpu"
               PROVE  \E i, k \in Retries : i # k /\ CommittedRetry(d, i)' /\ CommittedRetry(d, k)'
    BY DEF CpuOverwriteNeedsTwoRetries, CommittedRetry, Retries
  <2>1. d \in Docs
    BY ApiType, DeleteType, RelayType, WorkerType, StutterType DEF Next, TypeOK
  <2>2. CASE d \in overwritten
    BY <2>1, <2>2, <1>c DEF RetryInv, CpuOverwriteNeedsTwoRetries, CommittedRetry, Retries
  <2>3. CASE d \notin overwritten
    <3>1. PICK k \in Retries : RetryCommit(d, k) /\ doc[d] # "failed"
      BY <2>1, <2>3, LeavesFailed
    <3>2. PICK i \in Retries : i # k /\ CommittedRetry(d, i)
      BY <2>1, <3>1, <1>r DEF RetryInv, RetrySafe
    <3> QED
      BY <2>1, <3>1, <3>2, <1>c, <1>r
  <2> QED
    BY <2>2, <2>3
<1> QED
  BY <1>1, <1>2, <1>3 DEF RetryInv

\* The status of a document the CPU workers handle is taken for another one
\* only after two of its retries: see CpuOverwriteNeedsTwoRetries.
THEOREM CpuOverwriteCorrect == Spec => []CpuOverwriteNeedsTwoRetries
<1>1. Init => RetryInv
  <2>1. Init => \A d \in Docs, k \in Retries : api[<<d, k>>] # "read"
    <3>1. \A d \in Docs, k \in Retries : <<d, k>> \in Rows
      BY IngestAssumption DEF Rows, Retries
    <3> QED
      BY <3>1 DEF Init
  <2> QED
    BY <2>1 DEF Init, RetryInv, RetrySafe, RetryAccepted, CpuOverwriteNeedsTwoRetries
<1>2. Provenance /\ OwnedInv /\ OnceInv /\ RetryInv /\ [Next]_vars => RetryInv'
  BY RetryStep
<1>3. RetryInv => CpuOverwriteNeedsTwoRetries
  BY DEF RetryInv
<1> QED
  BY <1>1, <1>2, <1>3, ProvenanceHolds, OwnedHolds, OnceHolds, PTL DEF Spec

-----------------------------------------------------------------------------
(***************************************************************************)
(* The pipeline implements the lifecycle promise, for every number of      *)
(* documents, job slots, retries and relay runs: every step moves the      *)
(* stage of at most one document, and only the way Lifecycle says.         *)
(***************************************************************************)

Results(d) == IF d \in overwritten THEN 0 ELSE ingested[d]

Keeps(d) == Stage(d)' = Stage(d) /\ Results(d)' = Results(d)

Turns(d, from, to, n) ==
  /\ Stage(d) \in from /\ Stage(d)' = to
  /\ Results(d)' = n

Present == Life!Stages \ {"new", "gone"}

\* What Lifecycle lets happen to one document.
Promised(d) ==
  \/ Keeps(d)
  \/ Turns(d, {"new"}, "waiting", Results(d))
  \/ Turns(d, {"waiting"}, "working", Results(d))
  \/ Turns(d, {"working"}, "indexed", 1)
  \/ Turns(d, {"waiting", "working"}, "failed", Results(d))
  \/ Turns(d, {"failed"}, "waiting", Results(d))
  \/ Turns(d, Present, "gone", 0)
  \/ Turns(d, Present, "overwritten", 0)

Unmoved(d) ==
  /\ doc'[d] = doc[d] /\ ingested'[d] = ingested[d]
  /\ Accepted(d)' <=> Accepted(d)
  /\ d \in overwritten' <=> d \in overwritten

\* Only accepted documents are overwritten.
OverwrittenAccepted == \A d \in overwritten : Accepted(d)

-----------------------------------------------------------------------------
(* Stages. *)

LEMMA StageOf ==
  ASSUME NEW d
  PROVE  /\ doc[d] = "absent" => Stage(d) = IF Accepted(d) THEN "gone" ELSE "new"
         /\ doc[d] # "absent" /\ d \in overwritten => Stage(d) = "overwritten"
         /\ d \notin overwritten =>
              /\ doc[d] \in {"queued", "routing"} => Stage(d) = "waiting"
              /\ doc[d] \in {"extracting", "enriching"} => Stage(d) = "working"
              /\ doc[d] = "indexed" => Stage(d) = "indexed"
              /\ doc[d] = "failed" => Stage(d) = "failed"
BY DEF Stage, Accepted

\* The same of the next state.
LEMMA NextStageOf ==
  ASSUME NEW d
  PROVE  /\ doc'[d] = "absent" => Stage(d)' = IF Accepted(d)' THEN "gone" ELSE "new"
         /\ doc'[d] # "absent" /\ d \in overwritten' => Stage(d)' = "overwritten"
         /\ d \notin overwritten' =>
              /\ doc'[d] \in {"queued", "routing"} => Stage(d)' = "waiting"
              /\ doc'[d] \in {"extracting", "enriching"} => Stage(d)' = "working"
              /\ doc'[d] = "indexed" => Stage(d)' = "indexed"
              /\ doc'[d] = "failed" => Stage(d)' = "failed"
BY DEF Stage, Accepted

LEMMA UnmovedKeeps ==
  ASSUME NEW d, Unmoved(d)
  PROVE  Keeps(d)
BY DEF Unmoved, Keeps, Stage, Results, Accepted

LEMMA PresentStage ==
  ASSUME TypeOK, NEW d \in Docs, doc[d] # "absent"
  PROVE  Stage(d) \in Present
BY StageOf DEF TypeOK, Statuses, Present, Life!Stages

-----------------------------------------------------------------------------
(* Documents are accepted by the commit of their upload alone. *)

LEMMA OnlyUploadsAccept ==
  ASSUME TypeOK, [Next]_vars, NEW d \in Docs, Accepted(d)', ~ Accepted(d)
  PROVE  UploadCommit(d)
<1> DEFINE r == <<d, 0>>
<1>0. r \in Rows /\ Committed(r)' /\ ~ Committed(r)
  BY IngestAssumption DEF Rows, Accepted
<1>r. \A e \in Docs, k \in 1..MaxRetries : <<e, k>> # r
  BY IngestAssumption
<1>1. ASSUME NEW e \in Docs, UploadCommit(e)
      PROVE  e = d
  <2> DEFINE q == <<e, 0>>
  <2>1. \E p : api' = [api EXCEPT ![q] = p]
    BY <1>1 DEF UploadCommit, ApiGoes
  <2> HIDE DEF q, r
  <2>2. q = r
    BY <2>1, <1>0 DEF TypeOK, Committed
  <2> QED
    BY <2>2 DEF q, r
<1>2. ASSUME NEW e \in Docs, NEW k \in 1..MaxRetries, RetryRead(e, k) \/ RetryCommit(e, k)
      PROVE  FALSE
  <2> DEFINE q == <<e, k>>
  <2>1. \E p : api' = [api EXCEPT ![q] = p]
    BY <1>2 DEF RetryRead, RetryCommit, ApiGoes
  <2>2. q # r
    BY <1>r
  <2> HIDE DEF q, r
  <2> QED
    BY <2>1, <2>2, <1>0 DEF TypeOK, Committed
<1> HIDE DEF r
<1>3. ASSUME NEW e \in Docs, UploadCheck(e) \/ UploadStore(e)
      PROVE  FALSE
  <2>1. \E q : \E p \in {"checked", "stored"} : api' = [api EXCEPT ![q] = p]
    BY <1>3 DEF UploadCheck, UploadStore, ApiGoes
  <2> QED
    BY <2>1, <1>0 DEF TypeOK, Committed, AfterCommit
<1>4. ASSUME NEW q \in Rows, ApiEnqueue(q) \/ ApiPublish(q) \/ ApiEnds(q)
      PROVE  FALSE
  BY <1>4, <1>0 DEF ApiEnqueue, ApiPublish, ApiEnds, ApiGoes, TypeOK, Committed, AfterCommit,
     BeforeCommit
<1>5. CASE ~ ApiStep
  <2>1. WorkerStep => UNCHANGED api
    BY WorkerEffect
  <2>2. DeleteStep => UNCHANGED api
    BY DEF DeleteStep, DeleteRead, DeleteObject, DeleteRows, DeleteCommit, DeleteEnds, apiVars
  <2>3. RelayStep => UNCHANGED api
    BY DEF RelayStep, RelayStart, RelaySend, RelaySendFails, RelayCommit, RelayDies, apiVars
  <2>4. UNCHANGED api
    BY <1>5, <2>1, <2>2, <2>3 DEF Next, vars, apiVars
  <2> QED
    BY <2>4, <1>0 DEF Committed
<1> QED
  BY <1>1, <1>2, <1>3, <1>4, <1>5 DEF ApiStep

\* Acceptance is for ever, and only an upload's commit gives it.
LEMMA AcceptedSame ==
  ASSUME TypeOK, [Next]_vars, NEW d \in Docs, ~ UploadCommit(d)
  PROVE  Accepted(d)' <=> Accepted(d)
<1>1. <<d, 0>> \in Rows
  BY IngestAssumption DEF Rows
<1> QED
  BY <1>1, OnlyUploadsAccept, CommittedStays DEF Accepted

LEMMA UploadAccepts ==
  ASSUME TypeOK, NEW d \in Docs, UploadCommit(d)
  PROVE  /\ ~ Accepted(d) /\ Accepted(d)'
         /\ \A e \in Docs : e # d => ~ UploadCommit(e)
<1>1. <<d, 0>> \in Rows
  BY IngestAssumption DEF Rows
<1>2. api[<<d, 0>>] = "stored" /\ api'[<<d, 0>>] = "committed"
  BY <1>1 DEF UploadCommit, ApiGoes, TypeOK
<1>3. doc[d] = "absent" /\ doc' = [doc EXCEPT ![d] = "queued"]
  BY DEF UploadCommit
<1>4. ASSUME NEW e \in Docs, UploadCommit(e)
      PROVE  e = d
  BY <1>3, <1>4 DEF UploadCommit, TypeOK
<1> QED
  BY <1>2, <1>4 DEF Accepted, Committed, AfterCommit

-----------------------------------------------------------------------------
(* Every step moves one document at most, as promised. *)

Moves(d) == Promised(d) /\ \A e \in Docs : e # d => Unmoved(e)

Still == \A d \in Docs : Unmoved(d)

LEMMA RestUnmoved ==
  ASSUME TypeOK, [Next]_vars, NEW e \in Docs,
         doc'[e] = doc[e], ingested'[e] = ingested[e], e \in overwritten' <=> e \in overwritten
  PROVE  Unmoved(e)
<1>1. ~ UploadCommit(e)
  BY DEF UploadCommit, TypeOK
<1> QED
  BY <1>1, AcceptedSame DEF Unmoved

\* The results of a document that is not overwritten, by its status.
LEMMA ResultsOf ==
  ASSUME OnceInv, TypeOK, NEW d \in Docs
  PROVE  Results(d) = IF d \notin overwritten /\ doc[d] = "indexed" THEN 1 ELSE 0
<1>1. CASE d \in overwritten
  BY <1>1 DEF Results
<1>2. CASE d \notin overwritten
  BY <1>2 DEF Results, OnceInv, Once, TypeOK
<1> QED
  BY <1>1, <1>2

LEMMA UploadPromised ==
  ASSUME Provenance, OnceInv, OverwrittenAccepted, [Next]_vars, NEW d \in Docs, UploadCommit(d)
  PROVE  Moves(d)
<1> USE DEF Provenance
<1>1. /\ doc[d] = "absent" /\ doc' = [doc EXCEPT ![d] = "queued"]
      /\ UNCHANGED <<ingested, overwritten>>
  BY DEF UploadCommit, history
<1>2. ~ Accepted(d) /\ Accepted(d)' /\ d \notin overwritten
  BY UploadAccepts DEF OverwrittenAccepted
<1>3. doc'[d] = "queued"
  BY <1>1 DEF TypeOK
<1>4. Stage(d) = "new" /\ Stage(d)' = "waiting" /\ Results(d)' = Results(d)
  BY <1>1, <1>2, <1>3, StageOf, NextStageOf DEF Results
<1>5. \A e \in Docs : e # d => Unmoved(e)
  BY <1>1, RestUnmoved
<1> QED
  BY <1>4, <1>5 DEF Moves, Promised, Turns

LEMMA RetryPromised ==
  ASSUME Provenance, OnceInv, [Next]_vars,
         NEW d \in Docs, NEW k \in 1..MaxRetries, RetryCommit(d, k)
  PROVE  Moves(d)
<1> USE DEF Provenance
<1>1. /\ doc[d] # "absent" /\ doc' = [doc EXCEPT ![d] = "queued"] /\ UNCHANGED ingested
      /\ overwritten' = IF doc[d] = "failed" THEN overwritten ELSE overwritten \cup {d}
  BY DEF RetryCommit, Overwrites
<1>2. doc'[d] = "queued"
  BY <1>1 DEF TypeOK
<1>3. Promised(d)
  <2>1. CASE d \in overwritten'
    <3>1. Stage(d) \in Present /\ Stage(d)' = "overwritten" /\ Results(d)' = 0
      BY <2>1, <1>1, <1>2, PresentStage, NextStageOf DEF Results
    <3> QED
      BY <3>1 DEF Promised, Turns
  <2>2. CASE d \notin overwritten'
    <3>1. doc[d] = "failed" /\ d \notin overwritten
      BY <2>2, <1>1
    <3>2. Stage(d) = "failed" /\ Stage(d)' = "waiting" /\ Results(d)' = Results(d)
      BY <2>2, <3>1, <1>1, <1>2, StageOf, NextStageOf DEF Results
    <3> QED
      BY <3>2 DEF Promised, Turns
  <2> QED
    BY <2>1, <2>2
<1>4. \A e \in Docs : e # d => Unmoved(e)
  BY <1>1, RestUnmoved
<1> QED
  BY <1>3, <1>4 DEF Moves

LEMMA DeletePromised ==
  ASSUME Provenance, OnceInv, [Next]_vars, DeleteStep
  PROVE  Still \/ \E d \in Docs : Moves(d)
<1> USE DEF Provenance
<1> PICK d \in Docs :
      DeleteRead(d) \/ DeleteObject(d) \/ DeleteRows(d) \/ DeleteCommit(d) \/ DeleteEnds(d)
  BY DEF DeleteStep
<1>0. UNCHANGED overwritten /\ \A e \in Docs : Accepted(e)' <=> Accepted(e)
  BY DEF DeleteRead, DeleteObject, DeleteRows, DeleteCommit, DeleteEnds, history, apiVars,
     Accepted, Committed
<1>1. CASE UNCHANGED <<doc, ingested>>
  BY <1>0, <1>1, RestUnmoved DEF Still
<1>2. CASE DeleteCommit(d)
  <2>1. /\ doc' = [doc EXCEPT ![d] = "absent"]
        /\ ingested' = [ingested EXCEPT ![d] = 0]
    BY <1>2 DEF DeleteCommit
  <2>2. \A e \in Docs : e # d => Unmoved(e)
    BY <2>1, <1>0, RestUnmoved
  <2>3. doc'[d] = "absent" /\ Results(d)' = 0
    BY <2>1 DEF TypeOK, Results
  <2>4. CASE doc[d] = "absent"
    <3>1. Stage(d)' = Stage(d)
      BY <2>3, <2>4, <1>0, StageOf, NextStageOf
    <3>2. Results(d)' = Results(d)
      BY <2>3, <2>4, ResultsOf
    <3> QED
      BY <2>2, <3>1, <3>2 DEF Moves, Promised, Keeps
  <2>5. CASE doc[d] # "absent"
    <3>1. Stage(d) \in Present
      BY <2>5, PresentStage
    <3>2. Stage(d)' = "gone"
      BY <2>3, <2>5, <1>0, NextStageOf DEF AcceptedOnly
    <3> QED
      BY <2>2, <2>3, <3>1, <3>2 DEF Moves, Promised, Turns
  <2> QED
    BY <2>4, <2>5
<1> QED
  BY <1>1, <1>2 DEF DeleteRead, DeleteObject, DeleteRows, DeleteEnds, docVars

LEMMA WorkerPromised ==
  ASSUME Provenance, OnceInv, [Next]_vars, WorkerStep
  PROVE  Still \/ \E d \in Docs : Moves(d)
<1> USE DEF Provenance
<1> PICK j \in Jobs :
      Task(j) \/ Start(j) \/ Finish(j) \/ GiveUp(j) \/ WorkerDies(j) \/ JobRaises(j)
  BY DEF WorkerStep
<1>d. PICK d : d = jdoc[j]
  OBVIOUS
<1>j. pc[j] # "none" => d \in Docs
  BY <1>d DEF TypeOK, QueueTypeOK
<1>1. CASE UNCHANGED <<doc, ingested, overwritten>>
  BY <1>1, RestUnmoved DEF Still
\* A worker that finds the document of its job writes a status.
<1>2. ASSUME NEW s, d \in Docs, doc[d] # "absent", doc' = [doc EXCEPT ![d] = s],
             \A e \in Docs : e # d => ingested'[e] = ingested[e],
             \A e \in Docs : e # d => (e \in overwritten' <=> e \in overwritten),
             Promised(d)
      PROVE  Moves(d)
  BY <1>2, RestUnmoved DEF Moves
\* A document that is overwritten already stays so.
<1>3. ASSUME NEW s, s # "absent", d \in Docs, doc[d] # "absent", doc' = [doc EXCEPT ![d] = s],
             d \in overwritten'
      PROVE  Promised(d)
  <2>1. Stage(d) \in Present /\ Stage(d)' = "overwritten" /\ Results(d)' = 0
    BY <1>3, PresentStage, NextStageOf DEF TypeOK, Results
  <2> QED
    BY <2>1 DEF Promised, Turns
<1>4. ASSUME NEW s, d \in Docs, doc' = [doc EXCEPT ![d] = s]
      PROVE  doc'[d] = s
  BY <1>4 DEF TypeOK
<1>5. CASE FailDocument(j) /\ doc[d] # "absent"
  <2>1. /\ pc[j] \in {"reject", "unreadable"} /\ d \in Docs
        /\ doc' = [doc EXCEPT ![d] = "failed"] /\ UNCHANGED ingested
        /\ overwritten' \in {overwritten, overwritten \cup {d}}
    BY <1>5, <1>d, <1>j DEF FailDocument, StatusGoes, Overwrites
  <2>2. CASE d \notin overwritten'
    <3>1. doc[d] \in {"queued", "extracting", "failed"}
      <4>1. CASE pc[j] = "reject"
        BY <1>5, <2>1, <4>1, <1>d DEF OnceInv, Unhandled
      <4>2. CASE pc[j] = "unreadable"
        BY <1>5, <2>1, <2>2, <4>2, <1>d DEF OnceInv, Once, Works, Claimed, ClaimedStatus
      <4> QED
        BY <2>1, <4>1, <4>2
    <3>2. Stage(d)' = "failed" /\ Results(d)' = Results(d)
      BY <2>1, <2>2, <1>4, NextStageOf DEF Results
    <3>3. Stage(d) \in {"waiting", "working", "failed"}
      BY <2>1, <2>2, <3>1, StageOf
    <3> QED
      BY <2>1, <3>2, <3>3, <1>2, <1>5 DEF Promised, Keeps, Turns
  <2>3. CASE d \in overwritten'
    BY <2>1, <2>3, <1>2, <1>3, <1>5
  <2> QED
    BY <2>2, <2>3
<1>6. CASE RouteCommit(j) /\ doc[d] # "absent"
  <2>1. /\ d \in Docs /\ doc' = [doc EXCEPT ![d] = "routing"] /\ UNCHANGED ingested
        /\ overwritten' = IF doc[d] = "queued" THEN overwritten ELSE overwritten \cup {d}
    BY <1>6, <1>d, <1>j DEF RouteCommit, StatusGoes, Overwrites
  <2>2. CASE d \notin overwritten'
    <3>1. doc[d] = "queued" /\ d \notin overwritten
      BY <2>1, <2>2
    <3>2. Stage(d) = "waiting" /\ Stage(d)' = "waiting" /\ Results(d)' = Results(d)
      BY <2>1, <2>2, <3>1, <1>4, StageOf, NextStageOf DEF Results
    <3> QED
      BY <2>1, <3>2, <1>2, <1>6 DEF Promised, Keeps
  <2>3. CASE d \in overwritten'
    BY <2>1, <2>3, <1>2, <1>3, <1>6
  <2> QED
    BY <2>2, <2>3
<1>7. CASE Claim(j) /\ doc[d] \in {"queued", "routing"}
  <2>1. /\ d \in Docs /\ doc' = [doc EXCEPT ![d] = "extracting"]
        /\ UNCHANGED <<ingested, overwritten>>
    BY <1>7, <1>d, <1>j DEF Claim, StatusGoes, history
  <2>2. CASE d \notin overwritten
    <3>1. Stage(d) = "waiting" /\ Stage(d)' = "working" /\ Results(d)' = Results(d)
      BY <2>1, <2>2, <1>7, <1>4, StageOf, NextStageOf DEF Results
    <3> QED
      BY <2>1, <3>1, <1>2, <1>7 DEF Promised, Turns
  <2>3. CASE d \in overwritten
    BY <2>1, <2>3, <1>2, <1>3, <1>7
  <2> QED
    BY <2>2, <2>3
<1>8. CASE Enrich(j) /\ doc[d] # "absent"
  <2>1. /\ pc[j] = "extracted" /\ d \in Docs /\ doc' = [doc EXCEPT ![d] = "enriching"]
        /\ UNCHANGED ingested
        /\ overwritten' \in {overwritten, overwritten \cup {d}}
    BY <1>8, <1>d, <1>j DEF Enrich, StatusGoes, Overwrites
  <2>2. CASE d \notin overwritten'
    <3>1. doc[d] = "extracting"
      BY <1>8, <2>1, <2>2, <1>d DEF OnceInv, Once, Works, Claimed, ClaimedStatus
    <3>2. Stage(d) = "working" /\ Stage(d)' = "working" /\ Results(d)' = Results(d)
      BY <2>1, <2>2, <3>1, <1>4, StageOf, NextStageOf DEF Results
    <3> QED
      BY <2>1, <3>2, <1>2, <1>8 DEF Promised, Keeps
  <2>3. CASE d \in overwritten'
    BY <2>1, <2>3, <1>2, <1>3, <1>8
  <2> QED
    BY <2>2, <2>3
<1>9. CASE Index(j) /\ doc[d] # "absent"
  <2>1. /\ pc[j] = "enrich" /\ d \in Docs /\ doc' = [doc EXCEPT ![d] = "indexed"]
        /\ ingested' = [ingested EXCEPT ![d] = IF @ = 0 THEN 1 ELSE 2]
        /\ overwritten' \in {overwritten, overwritten \cup {d}}
    BY <1>9, <1>d, <1>j DEF Index, StatusGoes, Overwrites
  <2>2. CASE d \notin overwritten'
    <3>1. doc[d] = "enriching" /\ ingested[d] = 0
      BY <1>9, <2>1, <2>2, <1>d DEF OnceInv, Once, Works, Claimed, ClaimedStatus, TypeOK
    <3>2. Stage(d) = "working" /\ Stage(d)' = "indexed"
      BY <2>1, <2>2, <3>1, <1>4, StageOf, NextStageOf
    <3>3. ingested'[d] = 1
      BY <2>1, <3>1 DEF TypeOK
    <3>4. Results(d)' = 1
      BY <2>1, <2>2, <3>3 DEF Results
    <3>5. Promised(d)
      BY <3>2, <3>4 DEF Promised, Turns
    <3>6. \A e \in Docs : e # d => ingested'[e] = ingested[e]
      BY <2>1 DEF TypeOK
    <3> QED
      BY <2>1, <3>5, <3>6, <1>2, <1>9
  <2>3. CASE d \in overwritten'
    <3>1. \A e \in Docs : e # d => ingested'[e] = ingested[e]
      BY <2>1 DEF TypeOK
    <3>2. Promised(d)
      BY <2>1, <2>3, <1>3, <1>9
    <3> QED
      BY <2>1, <3>1, <3>2, <1>2, <1>9
  <2> QED
    BY <2>2, <2>3
<1>10. pc[j] # "none" /\ (Claim(j) => doc[d] \notin {"queued", "routing"})
        /\ (FailDocument(j) \/ RouteCommit(j) \/ Enrich(j) \/ Index(j) => doc[d] = "absent")
         => UNCHANGED <<doc, ingested, overwritten>>
  BY <1>d DEF Task, RejectRead, FailDocument, RouteRead, RouteCommit, Handoff, RunIngestRead,
     Claim, Extract, Enrich, Index, Start, Finish, GiveUp, WorkerDies, JobRaises, docVars, history
<1>11. pc[j] # "none"
  BY DEF Task, RejectRead, FailDocument, RouteRead, RouteCommit, Handoff, RunIngestRead,
     Claim, Extract, Enrich, Index, Start, Started, Finish, GiveUp, GivenUp, WorkerDies, JobRaises,
     Running, Unclaimed, Claimed
<1> QED
  BY <1>1, <1>5, <1>6, <1>7, <1>8, <1>9, <1>10, <1>11

-----------------------------------------------------------------------------
(* The refinement. *)

LEMMA StepPromised ==
  ASSUME Provenance, OnceInv, OverwrittenAccepted, [Next]_vars
  PROVE  Still \/ \E d \in Docs : Moves(d)
<1> USE DEF Provenance
<1>1. ASSUME UNCHANGED <<doc, ingested, overwritten>>
      PROVE  Still
  BY <1>1, RestUnmoved DEF Still
<1>2. CASE \/ \E d \in Docs : \/ UploadCheck(d) \/ UploadStore(d)
                             \/ \E k \in 1..MaxRetries : RetryRead(d, k)
           \/ \E r \in Rows : ApiEnqueue(r) \/ ApiPublish(r) \/ ApiEnds(r)
           \/ RelayStep
           \/ UNCHANGED vars
  BY <1>1, <1>2 DEF UploadCheck, UploadStore, RetryRead, ApiEnqueue, ApiPublish, ApiEnds,
     RelayStep, RelayStart, RelaySend, RelaySendFails, RelayCommit, RelayDies, docVars,
     history, vars
<1> QED
  BY <1>2, UploadPromised, RetryPromised, DeletePromised, WorkerPromised DEF Next, ApiStep

LEMMA OverwrittenStep ==
  ASSUME Provenance, OverwrittenAccepted, [Next]_vars
  PROVE  OverwrittenAccepted'
<1> USE DEF Provenance
<1> SUFFICES ASSUME NEW d \in overwritten'
             PROVE  Accepted(d)'
  BY DEF OverwrittenAccepted
<1>1. d \in Docs
  BY ApiType, DeleteType, RelayType, WorkerType, StutterType DEF Next, TypeOK
<1>2. Accepted(d) => Accepted(d)'
  BY <1>1, AcceptedSame, UploadAccepts
<1>3. CASE d \in overwritten
  BY <1>2, <1>3 DEF OverwrittenAccepted
<1>4. CASE d \notin overwritten
  <2>1. doc[d] # "absent"
    <3>1. CASE \E e \in Docs : \E k \in 1..MaxRetries : RetryCommit(e, k)
      BY <1>4, <3>1 DEF RetryCommit, Overwrites
    <3> DEFINE Writes(j) == RouteCommit(j) \/ FailDocument(j) \/ Enrich(j) \/ Index(j)
    <3>2. CASE \E j \in Jobs : Writes(j)
      BY <1>4, <3>2 DEF RouteCommit, FailDocument, Enrich, Index, Overwrites
    <3>3. CASE WorkerStep /\ ~ \E j \in Jobs : Writes(j)
      BY <1>4, <3>3 DEF WorkerStep, Task, RejectRead, RouteRead, Handoff,
         RunIngestRead, Claim, Extract, Start, Finish, GiveUp, WorkerDies,
         JobRaises, history
    <3>4. CASE DeleteStep \/ RelayStep \/ UNCHANGED vars
      BY <1>4, <3>4 DEF DeleteStep, DeleteRead, DeleteObject, DeleteRows, DeleteCommit,
         DeleteEnds, RelayStep, RelayStart, RelaySend, RelaySendFails, RelayCommit, RelayDies,
         history, vars
    <3>5. CASE ApiStep /\ ~ \E e \in Docs : \E k \in 1..MaxRetries : RetryCommit(e, k)
      BY <1>4, <3>5 DEF ApiStep, UploadCheck, UploadStore, UploadCommit, RetryRead, ApiEnqueue,
         ApiPublish, ApiEnds, history
    <3> QED
      BY <3>1, <3>2, <3>3, <3>4, <3>5 DEF Next
  <2> QED
    BY <1>1, <1>2, <2>1 DEF AcceptedOnly
<1> QED
  BY <1>3, <1>4

\* A document that moves as promised, all others at rest, takes a step of
\* Lifecycle or none.
LEMMA PromisedIsLife ==
  ASSUME NEW d \in Docs, Moves(d)
  PROVE  [Life!LifeNext]_(Life!lifeVars)
<1>1. \A e \in Docs : e # d => Stage(e)' = Stage(e) /\ Results(e)' = Results(e)
  BY UnmovedKeeps DEF Moves, Keeps
<1> DEFINE stage == [e \in Docs |-> Stage(e)]
           results == [e \in Docs |-> Results(e)]
<1>2. ASSUME NEW from, NEW to, NEW n, Turns(d, from, to, n)
      PROVE  /\ Life!Move(d, from, to)
             /\ results' = [results EXCEPT ![d] = n]
  <2>1. stage' = [stage EXCEPT ![d] = to] /\ results' = [results EXCEPT ![d] = n]
    BY <1>1, <1>2 DEF Turns
  <2>2. stage[d] \in from
    BY <1>2 DEF Turns
  <2> QED
    BY <2>1, <2>2 DEF Life!Move
<1>3. ASSUME NEW from, NEW to, Turns(d, from, to, Results(d))
      PROVE  Life!Move(d, from, to) /\ results' = results
  <2>1. Life!Move(d, from, to) /\ results' = [results EXCEPT ![d] = Results(d)]
    BY <1>2, <1>3
  <2> QED
    BY <2>1
<1>4. CASE Keeps(d)
  <2>1. stage' = stage
    BY <1>1, <1>4 DEF Keeps
  <2>2. results' = results
    BY <1>1, <1>4 DEF Keeps
  <2> QED
    BY <2>1, <2>2 DEF Life!lifeVars, Results
<1>5. CASE ~ Keeps(d)
  <2>1. CASE \/ Turns(d, {"new"}, "waiting", Results(d))
             \/ Turns(d, {"waiting"}, "working", Results(d))
             \/ Turns(d, {"waiting", "working"}, "failed", Results(d))
             \/ Turns(d, {"failed"}, "waiting", Results(d))
    <3>1. Life!Accept(d) \/ Life!Work(d) \/ Life!Fail(d) \/ Life!Requeue(d)
      BY <2>1, <1>3 DEF Results, Life!Accept, Life!Work, Life!Fail, Life!Requeue
    <3> QED
      BY <3>1 DEF Life!LifeNext
  <2>2. CASE \/ Turns(d, {"working"}, "indexed", 1)
             \/ Turns(d, Present, "gone", 0)
             \/ Turns(d, Present, "overwritten", 0)
    <3>1. Life!Finish(d) \/ Life!Remove(d) \/ Life!Overwrite(d)
      BY <2>2, <1>2 DEF Results, Present, Life!Finish, Life!Remove, Life!Overwrite
    <3> QED
      BY <3>1 DEF Life!LifeNext
  <2> QED
    BY <1>5, <2>1, <2>2 DEF Moves, Promised
<1> QED
  BY <1>4, <1>5

\* The pipeline keeps the promise of Lifecycle: see LifeSpec.
THEOREM LifeCorrect == Spec => LifeSpec
<1>1. Init => OverwrittenAccepted
  BY DEF Init, OverwrittenAccepted
<1>2. Provenance /\ OverwrittenAccepted /\ [Next]_vars => OverwrittenAccepted'
  BY OverwrittenStep
<1>3. Init => Life!LifeInit
  <2>1. \A d \in Docs : <<d, 0>> \in Rows
    BY IngestAssumption DEF Rows
  <2> QED
    BY <2>1 DEF Init, Life!LifeInit, Stage, Committed, AfterCommit
<1>4. Still => UNCHANGED Life!lifeVars
  BY UnmovedKeeps DEF Still, Keeps, Life!lifeVars, Results
<1>5. /\ Provenance /\ OnceInv /\ OverwrittenAccepted /\ [Next]_vars
      => [Life!LifeNext]_(Life!lifeVars)
  BY <1>4, StepPromised, PromisedIsLife
<1> QED
  BY <1>1, <1>2, <1>3, <1>5, ProvenanceHolds, OnceHolds, PTL DEF Spec, LifeSpec, Life!LifeSpec
=============================================================================
