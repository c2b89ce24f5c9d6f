------------------------------- MODULE Ingest -------------------------------
(***************************************************************************)
(* The ingest pipeline of omnivore: the upload, retry and delete handlers  *)
(* of the API, the transactional outbox and its relay, and the CPU and GPU *)
(* worker tasks, over one documents table, one outbox table, the object    *)
(* store and the two ARQ queues.  A step ends where the code awaits        *)
(* something another process can get in front of: a statement, a commit,   *)
(* the object store or Redis.  Commits are atomic; between its read of a   *)
(* row and its later write of it, no handler holds a lock (READ COMMITTED, *)
(* plain SELECT), and the ORM writes the status by primary key.            *)
(*                                                                         *)
(* Row <<d, 0>> of the outbox is inserted by the upload of document d and  *)
(* row <<d, k>> by its k-th retry request; a handler is named by its row.  *)
(***************************************************************************)
EXTENDS ArqQueue

CONSTANTS
  Contents,    \* what a sha256 digest tells apart
  ContentOf,   \* of the file a document id was made for
  ClassOf,     \* the cost class of its MIME type's handler; "none" without one
  MaxRetries,  \* bound on the retry requests of one document
  Deletable,   \* documents some client asks to delete
  MaxDepth,    \* settings.MAX_QUEUE_DEPTH
  MaxGpuDepth, \* settings.MAX_GPU_QUEUE_DEPTH
  Relays,      \* runs of the relay that may overlap
  RelayLimit   \* LIMIT of the relay's SELECT

ASSUME IngestAssumption ==
  /\ ContentOf \in [Docs -> Contents]
  /\ ClassOf \in [Docs -> {"cpu", "gpu", "none"}]
  /\ MaxRetries \in Nat
  /\ Deletable \subseteq Docs
  /\ MaxDepth \in Nat /\ MaxGpuDepth \in Nat
  /\ RelayLimit \in Nat \ {0}

Rows == Docs \X (0..MaxRetries)

VARIABLES
  doc,         \* documents.status; "absent" without a row
  ingested,    \* times the chunks of the document were stored: 0, 1, 2 or more
  blob,        \* the stored object: "none" before, "removed" after
  outbox,      \* outbox rows; "none" for an absent one
  api,         \* where the handler that inserts an outbox row is
  del,         \* where the delete handler of a document is
  delLock,     \* outbox rows its open transaction has deleted
  relayBatch,  \* rows a run of the relay has locked,
  relayTodo,   \* those it has still to send
  relayDone,   \* and those it has sent
  sent,        \* history: rows that put a job in the queue
  lost,        \* history: documents a worker was lost on, or a job dropped of
  overwritten  \* history: documents whose status a writer took for another one

docVars == <<doc, ingested, blob>>
apiVars == <<api>>
delVars == <<del, delLock>>
relayVars == <<relayBatch, relayTodo, relayDone>>
history == <<sent, lost, overwritten>>
vars == <<docVars, outbox, apiVars, delVars, relayVars, history, queueVars>>

Statuses == {"queued", "routing", "extracting", "enriching", "indexed", "failed"}
InProgress == {"extracting", "enriching", "routing"}
Settled == {"indexed", "failed", "absent"}

BeforeCommit == {"none", "checked", "stored", "read", "aborted"}
AfterCommit == {"committed", "sent", "done"}

TypeOK ==
  /\ QueueTypeOK
  /\ doc \in [Docs -> Statuses \cup {"absent"}]
  /\ ingested \in [Docs -> 0..2]
  /\ blob \in [Docs -> {"none", "stored", "removed"}]
  /\ outbox \in [Rows -> {"none", "unpublished", "published"}]
  /\ api \in [Rows -> BeforeCommit \cup AfterCommit]
  /\ del \in [Docs -> {"idle", "read", "unstored", "cleaned"}]
  /\ delLock \in [Docs -> SUBSET Rows]
  /\ relayBatch \in [Relays -> SUBSET Rows]
  /\ relayTodo \in [Relays -> SUBSET Rows]
  /\ relayDone \in [Relays -> SUBSET Rows]
  /\ sent \in SUBSET Rows
  /\ lost \in SUBSET Docs
  /\ overwritten \in SUBSET Docs

Init ==
  /\ QueueInit
  /\ doc = [d \in Docs |-> "absent"]
  /\ ingested = [d \in Docs |-> 0]
  /\ blob = [d \in Docs |-> "none"]
  /\ outbox = [r \in Rows |-> "none"]
  /\ api = [r \in Rows |-> "none"]
  /\ del = [d \in Docs |-> "idle"]
  /\ delLock = [d \in Docs |-> {}]
  /\ relayBatch = [rl \in Relays |-> {}]
  /\ relayTodo = [rl \in Relays |-> {}]
  /\ relayDone = [rl \in Relays |-> {}]
  /\ sent = {}
  /\ lost = {}
  /\ overwritten = {}

-----------------------------------------------------------------------------
(* The upload and retry handlers. *)

\* An outbox row another transaction holds: the writer waits, the relay skips.
Locked(r) == r \in delLock[r[1]] \/ \E rl \in Relays : r \in relayBatch[rl]

ApiGoes(r, p) == api' = [api EXCEPT ![r] = p]

\* The status of d is written by primary key, whatever it is by now; read is
\* what the writer saw in it, or left in it, last.  (By value: a status that
\* has changed and changed back is the one it saw.)
Overwrites(d, read) ==
  overwritten' = IF doc[d] = read THEN overwritten ELSE overwritten \cup {d}

\* No document of the same content, and room in the queues.  (No check of the
\* queues is made when the pool is missing: a MaxDepth no run reaches.)
UploadCheck(d) ==
  /\ api[<<d, 0>>] = "none"
  /\ \A e \in Docs : ContentOf[e] = ContentOf[d] => doc[e] = "absent"
  /\ Depth(CpuJobs) < MaxDepth
  /\ ClassOf[d] = "gpu" => Depth(GpuJobs) < MaxGpuDepth
  /\ ApiGoes(<<d, 0>>, "checked")
  /\ UNCHANGED <<docVars, outbox, delVars, relayVars, history, queueVars>>

UploadStore(d) ==
  /\ api[<<d, 0>>] = "checked"
  /\ ApiGoes(<<d, 0>>, "stored")
  /\ blob' = [blob EXCEPT ![d] = "stored"]
  /\ UNCHANGED <<doc, ingested, outbox, delVars, relayVars, history, queueVars>>

\* Mutant: the row is committed while the object is still being stored.
UploadCommitEarly(d) ==
  /\ api[<<d, 0>>] = "checked"
  /\ \A e \in Docs : ContentOf[e] = ContentOf[d] => doc[e] = "absent"
  /\ doc' = [doc EXCEPT ![d] = "queued"]
  /\ outbox' = [outbox EXCEPT ![<<d, 0>>] = "unpublished"]
  /\ ApiGoes(<<d, 0>>, "committed")
  /\ UNCHANGED <<ingested, blob, delVars, relayVars, history, queueVars>>

\* Mutant: no unique constraint on tenant and digest.
UploadCommitUnconstrained(d) ==
  /\ api[<<d, 0>>] = "stored"
  /\ doc' = [doc EXCEPT ![d] = "queued"]
  /\ outbox' = [outbox EXCEPT ![<<d, 0>>] = "unpublished"]
  /\ ApiGoes(<<d, 0>>, "committed")
  /\ UNCHANGED <<ingested, blob, delVars, relayVars, history, queueVars>>

UploadCommit(d) ==
  /\ api[<<d, 0>>] = "stored"
  /\ \A e \in Docs : ContentOf[e] = ContentOf[d] => doc[e] = "absent"
  /\ doc' = [doc EXCEPT ![d] = "queued"]
  /\ outbox' = [outbox EXCEPT ![<<d, 0>>] = "unpublished"]
  /\ ApiGoes(<<d, 0>>, "committed")
  /\ UNCHANGED <<ingested, blob, delVars, relayVars, history, queueVars>>

\* Mutant: a retry of a document in any state.
RetryReadAny(d, k) ==
  /\ api[<<d, k>>] = "none"
  /\ \A i \in 1..(k - 1) : api[<<d, i>>] # "none"
  /\ doc[d] # "absent"
  /\ ApiGoes(<<d, k>>, "read")
  /\ UNCHANGED <<docVars, outbox, delVars, relayVars, history, queueVars>>

RetryRead(d, k) ==
  /\ api[<<d, k>>] = "none"
  /\ \A i \in 1..(k - 1) : api[<<d, i>>] # "none"
  /\ doc[d] = "failed"
  /\ ApiGoes(<<d, k>>, "read")
  /\ UNCHANGED <<docVars, outbox, delVars, relayVars, history, queueVars>>

\* The UPDATE of a row that is gone raises instead (ApiEnds).
RetryCommit(d, k) ==
  /\ api[<<d, k>>] = "read"
  /\ doc[d] # "absent"
  /\ Overwrites(d, "failed")
  /\ doc' = [doc EXCEPT ![d] = "queued"]
  /\ outbox' = [outbox EXCEPT ![<<d, k>>] = "unpublished"]
  /\ ApiGoes(<<d, k>>, "committed")
  /\ UNCHANGED <<ingested, blob, delVars, relayVars, sent, lost, queueVars>>

ApiEnqueue(r) ==
  /\ api[r] = "committed"
  /\ EnqueueJob(r[1], CpuJobs)
  /\ sent' = sent \cup {r}
  /\ ApiGoes(r, "sent")
  /\ UNCHANGED <<docVars, outbox, delVars, relayVars, lost, overwritten>>

\* A row that is gone raises, which the handler swallows.
ApiPublish(r) ==
  /\ api[r] = "sent"
  /\ ~ Locked(r)
  /\ outbox' = [outbox EXCEPT ![r] = IF @ = "none" THEN @ ELSE "published"]
  /\ ApiGoes(r, "done")
  /\ UNCHANGED <<docVars, delVars, relayVars, history, queueVars>>

\* The handler refuses, fails or swallows an error of the queue, its process
\* dies, or there is no pool: what it committed stays.
ApiEnds(r) ==
  /\ api[r] \notin {"none", "done", "aborted"}
  /\ ApiGoes(r, IF api[r] \in BeforeCommit THEN "aborted" ELSE "done")
  /\ UNCHANGED <<docVars, outbox, delVars, relayVars, history, queueVars>>

-----------------------------------------------------------------------------
(* The delete handler. *)

DeleteRead(d) ==
  /\ d \in Deletable
  /\ del[d] = "idle"
  /\ doc[d] \notin InProgress \cup {"absent"}
  /\ del' = [del EXCEPT ![d] = "read"]
  /\ UNCHANGED <<docVars, outbox, apiVars, delLock, relayVars, history, queueVars>>

\* Best effort: an error of the object store leaves the object and goes on.
DeleteObject(d) ==
  /\ del[d] = "read"
  /\ del' = [del EXCEPT ![d] = "unstored"]
  /\ blob' \in {blob, [blob EXCEPT ![d] = "removed"]}
  /\ UNCHANGED <<doc, ingested, outbox, apiVars, delLock, relayVars, history, queueVars>>

Unpublished(d) == {r \in Rows : r[1] = d /\ outbox[r] = "unpublished"}

\* The DELETE of the outbox rows, in the transaction DeleteCommit ends.
DeleteRows(d) ==
  /\ del[d] = "unstored"
  /\ \A r \in Unpublished(d) : ~ Locked(r)
  /\ del' = [del EXCEPT ![d] = "cleaned"]
  /\ delLock' = [delLock EXCEPT ![d] = Unpublished(d)]
  /\ UNCHANGED <<docVars, outbox, apiVars, relayVars, history, queueVars>>

DeleteCommit(d) ==
  /\ del[d] = "cleaned"
  /\ doc' = [doc EXCEPT ![d] = "absent"]
  /\ ingested' = [ingested EXCEPT ![d] = 0]
  /\ outbox' = [r \in Rows |-> IF r \in delLock[d] THEN "none" ELSE outbox[r]]
  /\ del' = [del EXCEPT ![d] = "idle"]
  /\ delLock' = [delLock EXCEPT ![d] = {}]
  /\ UNCHANGED <<blob, apiVars, relayVars, history, queueVars>>

\* Mutant: the outbox rows are deleted in a transaction of their own.
DeleteEndsHalfway(d) ==
  /\ del[d] # "idle"
  /\ outbox' = [r \in Rows |-> IF r \in delLock[d] THEN "none" ELSE outbox[r]]
  /\ del' = [del EXCEPT ![d] = "idle"]
  /\ delLock' = [delLock EXCEPT ![d] = {}]
  /\ UNCHANGED <<docVars, apiVars, relayVars, history, queueVars>>

\* The handler fails or its process dies: the transaction is rolled back.
DeleteEnds(d) ==
  /\ del[d] # "idle"
  /\ del' = [del EXCEPT ![d] = "idle"]
  /\ delLock' = [delLock EXCEPT ![d] = {}]
  /\ UNCHANGED <<docVars, outbox, apiVars, relayVars, history, queueVars>>

-----------------------------------------------------------------------------
(* The outbox relay. *)

\* FOR UPDATE SKIP LOCKED.  Which rows the LIMIT leaves out is left open.
RelayStart(rl) ==
  LET eligible == {r \in Rows : outbox[r] = "unpublished" /\ ~ Locked(r)}
  IN  /\ relayBatch[rl] = {}
      /\ eligible # {}
      /\ \E batch \in SUBSET eligible :
           /\ batch = eligible \/ Cardinality(batch) = RelayLimit
           /\ Cardinality(batch) <= RelayLimit
           /\ relayBatch' = [relayBatch EXCEPT ![rl] = batch]
           /\ relayTodo' = [relayTodo EXCEPT ![rl] = batch]
      /\ UNCHANGED <<relayDone, docVars, outbox, apiVars, delVars, history, queueVars>>

RelaySend(rl, r) ==
  /\ r \in relayTodo[rl]
  /\ EnqueueJob(r[1], CpuJobs)
  /\ sent' = sent \cup {r}
  /\ relayTodo' = [relayTodo EXCEPT ![rl] = @ \ {r}]
  /\ relayDone' = [relayDone EXCEPT ![rl] = @ \cup {r}]
  /\ UNCHANGED <<relayBatch, docVars, outbox, apiVars, delVars, lost, overwritten>>

\* Mutant: a row whose enqueue failed is published with the others.
RelaySendFailsMarked(rl, r) ==
  /\ r \in relayTodo[rl]
  /\ relayTodo' = [relayTodo EXCEPT ![rl] = @ \ {r}]
  /\ relayDone' = [relayDone EXCEPT ![rl] = @ \cup {r}]
  /\ UNCHANGED <<relayBatch, docVars, outbox, apiVars, delVars, history, queueVars>>

\* enqueue_job raises: the row stays unpublished.
RelaySendFails(rl, r) ==
  /\ r \in relayTodo[rl]
  /\ relayTodo' = [relayTodo EXCEPT ![rl] = @ \ {r}]
  /\ UNCHANGED <<relayBatch, relayDone, docVars, outbox, apiVars, delVars, history, queueVars>>

RelayReset(rl) ==
  /\ relayBatch' = [relayBatch EXCEPT ![rl] = {}]
  /\ relayTodo' = [relayTodo EXCEPT ![rl] = {}]
  /\ relayDone' = [relayDone EXCEPT ![rl] = {}]

RelayCommit(rl) ==
  /\ relayBatch[rl] # {} /\ relayTodo[rl] = {}
  /\ outbox' = [r \in Rows |-> IF r \in relayDone[rl] THEN "published" ELSE outbox[r]]
  /\ RelayReset(rl)
  /\ UNCHANGED <<docVars, apiVars, delVars, history, queueVars>>

RelayDies(rl) ==
  /\ relayBatch[rl] # {}
  /\ RelayReset(rl)
  /\ UNCHANGED <<docVars, outbox, apiVars, delVars, history, queueVars>>

-----------------------------------------------------------------------------
(* The worker tasks. *)

StatusGoes(d, s) == doc' = [doc EXCEPT ![d] = s]

\* ingest_dispatch on a type of the GPU workers.
Routes(j) == j \in CpuJobs /\ ClassOf[jdoc[j]] = "gpu"

\* No handler takes the type: the document is read, then failed.  (A status
\* read as failed is set to what the session holds already: no UPDATE.)
RejectRead(j) ==
  /\ pc[j] = "start" /\ ClassOf[jdoc[j]] = "none"
  /\ Goes(j, IF doc[jdoc[j]] \in {"absent", "failed"} THEN "done" ELSE "reject")
  /\ UNCHANGED <<docVars, outbox, apiVars, delVars, relayVars, history>>

\* _fail_document, over the queued status RejectRead read or the one the claim
\* left; its UPDATE of a document that is gone raises.
FailDocument(j) ==
  /\ pc[j] \in {"reject", "unreadable"}
  /\ IF doc[jdoc[j]] = "absent"
     THEN UNCHANGED <<doc, overwritten>>
     ELSE /\ StatusGoes(jdoc[j], "failed")
          /\ Overwrites(jdoc[j], IF pc[j] = "reject" THEN "queued" ELSE "extracting")
  /\ Goes(j, "done")
  /\ UNCHANGED <<ingested, blob, outbox, apiVars, delVars, relayVars, sent, lost>>

\* The job of a document that is gone is routed all the same.
RouteRead(j) ==
  /\ pc[j] = "start" /\ Routes(j)
  /\ Goes(j, CASE doc[jdoc[j]] = "absent" -> "handoff"
               [] doc[jdoc[j]] = "queued" -> "route"
               [] OTHER -> "done")
  /\ UNCHANGED <<docVars, outbox, apiVars, delVars, relayVars, history>>

RouteCommit(j) ==
  /\ pc[j] = "route"
  /\ IF doc[jdoc[j]] = "absent"
     THEN Goes(j, "done") /\ UNCHANGED <<doc, overwritten>>
     ELSE /\ Goes(j, "handoff")
          /\ StatusGoes(jdoc[j], "routing")
          /\ Overwrites(jdoc[j], "queued")
  /\ UNCHANGED <<ingested, blob, outbox, apiVars, delVars, relayVars, sent, lost>>

Handoff(j) ==
  /\ pc[j] = "handoff"
  /\ EnqueueAndReturn(j, jdoc[j], GpuJobs)
  /\ UNCHANGED <<docVars, outbox, apiVars, delVars, relayVars, history>>

\* Mutant: a routing document counts as already processed.
RunIngestReadQueuedOnly(j) ==
  /\ pc[j] = "start" /\ ~ Routes(j) /\ ClassOf[jdoc[j]] # "none"
  /\ Goes(j, IF doc[jdoc[j]] = "queued" THEN "claim" ELSE "done")
  /\ UNCHANGED <<docVars, outbox, apiVars, delVars, relayVars, history>>

RunIngestRead(j) ==
  /\ pc[j] = "start" /\ ~ Routes(j) /\ ClassOf[jdoc[j]] # "none"
  /\ Goes(j, IF doc[jdoc[j]] \in {"queued", "routing"} THEN "claim" ELSE "done")
  /\ UNCHANGED <<docVars, outbox, apiVars, delVars, relayVars, history>>

\* Mutant: the claim does not look at the status again.
ClaimUnguarded(j) ==
  /\ pc[j] = "claim"
  /\ IF doc[jdoc[j]] # "absent"
     THEN StatusGoes(jdoc[j], "extracting") /\ Goes(j, "extract")
     ELSE UNCHANGED doc /\ Goes(j, "done")
  /\ UNCHANGED <<ingested, blob, outbox, apiVars, delVars, relayVars, history>>

\* Mutant: a status that is not one of the table's.
ClaimUnknownStatus(j) ==
  /\ pc[j] = "claim"
  /\ IF doc[jdoc[j]] \in {"queued", "routing"}
     THEN StatusGoes(jdoc[j], "processing") /\ Goes(j, "extract")
     ELSE UNCHANGED doc /\ Goes(j, "done")
  /\ UNCHANGED <<ingested, blob, outbox, apiVars, delVars, relayVars, history>>

\* UPDATE ... WHERE status IN ('queued', 'routing') RETURNING id, and its commit.
Claim(j) ==
  /\ pc[j] = "claim"
  /\ IF doc[jdoc[j]] \in {"queued", "routing"}
     THEN StatusGoes(jdoc[j], "extracting") /\ Goes(j, "extract")
     ELSE UNCHANGED doc /\ Goes(j, "done")
  /\ UNCHANGED <<ingested, blob, outbox, apiVars, delVars, relayVars, history>>

\* handler.extract: any content may defeat its handler, a missing object does.
Extract(j) ==
  /\ pc[j] = "extract"
  /\ \/ blob[jdoc[j]] = "stored" /\ Goes(j, "extracted")
     \/ Goes(j, "unreadable")
  /\ UNCHANGED <<docVars, outbox, apiVars, delVars, relayVars, history>>

\* Mutant: the status is flipped before the chunks are stored.
EnrichFlipsStatus(j) ==
  /\ pc[j] = "extracted"
  /\ IF doc[jdoc[j]] = "absent"
     THEN Goes(j, "done") /\ UNCHANGED <<doc, overwritten>>
     ELSE /\ Goes(j, "enrich")
          /\ StatusGoes(jdoc[j], "indexed")
          /\ Overwrites(jdoc[j], "extracting")
  /\ UNCHANGED <<ingested, blob, outbox, apiVars, delVars, relayVars, sent, lost>>

\* The UPDATE of a document that is gone raises, here and in Index.
Enrich(j) ==
  /\ pc[j] = "extracted"
  /\ IF doc[jdoc[j]] = "absent"
     THEN Goes(j, "done") /\ UNCHANGED <<doc, overwritten>>
     ELSE /\ Goes(j, "enrich")
          /\ StatusGoes(jdoc[j], "enriching")
          /\ Overwrites(jdoc[j], "extracting")
  /\ UNCHANGED <<ingested, blob, outbox, apiVars, delVars, relayVars, sent, lost>>

\* The single commit: chunks, tables, entities, embeddings and the status.
Index(j) ==
  /\ pc[j] = "enrich"
  /\ IF doc[jdoc[j]] = "absent"
     THEN UNCHANGED <<doc, ingested, overwritten>>
     ELSE /\ StatusGoes(jdoc[j], "indexed")
          /\ Overwrites(jdoc[j], "enriching")
          /\ ingested' = [ingested EXCEPT ![jdoc[j]] = IF @ = 0 THEN 1 ELSE 2]
  /\ Goes(j, "done")
  /\ UNCHANGED <<blob, outbox, apiVars, delVars, relayVars, sent, lost>>

-----------------------------------------------------------------------------
(* What ARQ and its workers do to a job. *)

Start(j) ==
  /\ Started(j)
  /\ UNCHANGED <<docVars, outbox, apiVars, delVars, relayVars, history>>

Finish(j) ==
  /\ pc[j] = "done"
  /\ Removed(j)
  /\ UNCHANGED <<docVars, outbox, apiVars, delVars, relayVars, history>>

Loses(d) == lost' = lost \cup {d}

GiveUp(j) ==
  /\ GivenUp(j)
  /\ Loses(jdoc[j])
  /\ UNCHANGED <<docVars, outbox, apiVars, delVars, relayVars, sent, overwritten>>

\* The worker process dies or is shut down: the job is delivered again, but a
\* document past its claim, or not yet handed off, is not taken up again.
WorkerDies(j) ==
  /\ pc[j] \in Running
  /\ Goes(j, "pending")
  /\ IF pc[j] \in Claimed \cup {"handoff"} THEN Loses(jdoc[j]) ELSE UNCHANGED lost
  /\ UNCHANGED <<docVars, outbox, apiVars, delVars, relayVars, sent, overwritten>>

\* An exception no task catches, or the job timeout: ARQ does not try again.
JobRaises(j) ==
  /\ pc[j] \in Running \ {"done"}
  /\ Removed(j)
  /\ Loses(jdoc[j])
  /\ UNCHANGED <<docVars, outbox, apiVars, delVars, relayVars, sent, overwritten>>

-----------------------------------------------------------------------------

ApiStep ==
  \/ \E d \in Docs :
       \/ UploadCheck(d) \/ UploadStore(d) \/ UploadCommit(d)
       \/ \E k \in 1..MaxRetries : RetryRead(d, k) \/ RetryCommit(d, k)
  \/ \E r \in Rows : ApiEnqueue(r) \/ ApiPublish(r) \/ ApiEnds(r)

DeleteStep ==
  \E d \in Docs :
    \/ DeleteRead(d) \/ DeleteObject(d) \/ DeleteRows(d)
    \/ DeleteCommit(d) \/ DeleteEnds(d)

RelayStep ==
  \E rl \in Relays :
    \/ RelayStart(rl) \/ RelayCommit(rl) \/ RelayDies(rl)
    \/ \E r \in Rows : RelaySend(rl, r) \/ RelaySendFails(rl, r)

Task(j) ==
  \/ RejectRead(j) \/ FailDocument(j)
  \/ RouteRead(j) \/ RouteCommit(j) \/ Handoff(j)
  \/ RunIngestRead(j) \/ Claim(j) \/ Extract(j) \/ Enrich(j) \/ Index(j)

WorkerStep ==
  \E j \in Jobs :
    Task(j) \/ Start(j) \/ Finish(j) \/ GiveUp(j) \/ WorkerDies(j) \/ JobRaises(j)

Next == ApiStep \/ DeleteStep \/ RelayStep \/ WorkerStep

Spec == Init /\ [][Next]_vars

(***************************************************************************)
(* Fairness.  A worker goes on with a job it has, and ARQ takes waiting    *)
(* jobs in order, so that none waits for ever while others are taken.  The *)
(* relay is a cron job of every worker, so that runs of it keep starting   *)
(* and one of them in the end gets an answer from Redis, however many fail *)
(* or die before.  PostgreSQL ends the transaction of a delete handler     *)
(* whose process is gone.  Nothing is assumed of the API handlers.  The    *)
(* conditions are strong because the bound on the slots, other jobs, row   *)
(* locks and failing runs can disable such a step again and again.         *)
(***************************************************************************)
Fairness ==
  /\ \A j \in Jobs : SF_vars(Task(j) \/ Start(j) \/ Finish(j) \/ GiveUp(j))
  /\ \A rl \in Relays : SF_vars(RelayStart(rl) \/ RelayCommit(rl))
  /\ \A rl \in Relays, r \in Rows : SF_vars(RelaySend(rl, r))
  /\ \A d \in Deletable : SF_vars(DeleteCommit(d) \/ DeleteEnds(d))

FairSpec == Spec /\ Fairness

-----------------------------------------------------------------------------
(* Properties. *)

\* A job that will still look at the status of d, or is about to change it.
WillTake(d) ==
  \E j \in Jobs : jdoc[j] = d /\ pc[j] \in {"pending"} \cup Unclaimed

\* A GPU job of d before its claim, or the CPU job that is to enqueue one.
WillRoute(d) ==
  \E j \in Jobs :
    /\ jdoc[j] = d
    /\ \/ pc[j] = "handoff"
       \/ j \in GpuJobs /\ pc[j] \in {"pending", "start", "claim"}

Working(d) == {j \in Jobs : jdoc[j] = d /\ pc[j] \in Claimed}

\* No document is left behind while its workers live.  Whatever the
\* interleaving of handlers, relay and workers and whatever fails between a
\* commit and an enqueue, a queued document has an unpublished outbox row or
\* a job that will take it, a routing one has its GPU job or the job that is
\* to enqueue it, and a document in progress has a worker, unless ARQ lost a
\* worker or dropped a job of it.
OwnedUnlessLost ==
  \A d \in Docs \ lost :
    /\ doc[d] = "queued" => Unpublished(d) # {} \/ WillTake(d)
    /\ doc[d] = "routing" => WillRoute(d)
    /\ doc[d] \in {"extracting", "enriching"} => Working(d) # {}

\* An outbox row is marked published only after a job was enqueued for it, by
\* its handler or by a run of the relay, so that a crash or an error of Redis
\* anywhere in between costs a duplicate and never the job.
PublishedWasSent == \A r \in Rows : outbox[r] = "published" => r \in sent

\* The atomic claim gives a document to one worker at a time and its chunks
\* are stored once, exactly when it is indexed, however often its jobs are
\* duplicated or redelivered, as long as no handler or job replaced a status
\* that is not the one it had read or left.
OneIngestUnlessOverwritten ==
  \A d \in Docs \ overwritten :
    /\ \A i, j \in Working(d) : i = j
    /\ ingested[d] <= 1
    /\ ingested[d] = 1 <=> doc[d] = "indexed"

Committed(r) == api[r] \in AfterCommit

\* The status of a document the CPU workers handle is only ever replaced by a
\* writer that takes it for another one after two of its retry requests have
\* committed: with one retry it is safe against every interleaving of workers,
\* relay and deletes.  (Of a document without a handler two dispatch jobs that
\* both read it queued are enough, of a GPU one a dispatch job and a claim.)
CpuOverwriteNeedsTwoRetries ==
  \A d \in overwritten :
    ClassOf[d] = "cpu"
      => \E i, k \in 1..MaxRetries : i # k /\ Committed(<<d, i>>) /\ Committed(<<d, k>>)

\* A document's row appears after its object was stored: no worker is ever
\* given a document whose object is still to come, and a document without its
\* object is one a delete handler took it from.
StoredBeforeRow == \A d \in Docs : doc[d] # "absent" => blob[d] # "none"

\* Two uploads of one content that both pass the check before either commits
\* leave one document: the second one's commit fails.
OneDocumentPerContent ==
  \A d, e \in Docs :
    doc[d] # "absent" /\ doc[e] # "absent" /\ ContentOf[d] = ContentOf[e] => d = e

\* Every document is in the end indexed, failed or deleted, through any number
\* of duplicated jobs, failing or dying relay runs and API handlers that stop
\* after their commit, unless ARQ lost a worker or dropped a job of it.
SettledOrLost ==
  \A d \in Docs : doc[d] \notin Settled ~> doc[d] \in Settled \/ d \in lost

\* The life of each document as its users see it.
Stage(d) ==
  IF doc[d] = "absent"
  THEN IF Committed(<<d, 0>>) THEN "gone" ELSE "new"
  ELSE CASE d \in overwritten -> "overwritten"
         [] d \notin overwritten /\ doc[d] \in {"queued", "routing"} -> "waiting"
         [] d \notin overwritten /\ doc[d] \in {"extracting", "enriching"} -> "working"
         [] OTHER -> doc[d]

Life ==
  INSTANCE Lifecycle WITH
    stage <- [d \in Docs |-> Stage(d)],
    results <- [d \in Docs |-> IF d \in overwritten THEN 0 ELSE ingested[d]]

\* The pipeline implements the lifecycle promise: up to the first lost update
\* of its status, a document takes only the steps of Lifecycle, its one set of
\* chunks appearing in the step that makes it indexed.
LifeSpec == Life!LifeSpec

-----------------------------------------------------------------------------
(* What the documents and the comments of the repository say, and the code *)
(* does not keep.                                                          *)

\* "the document is currently being processed - wait for it to complete or
\* fail before deleting": processing ends.
ProcessingEnds == \A d \in Docs : doc[d] \in InProgress ~> doc[d] \notin InProgress
=============================================================================
