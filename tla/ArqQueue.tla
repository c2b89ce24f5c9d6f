------------------------------ MODULE ArqQueue ------------------------------
(***************************************************************************)
(* The two ARQ queues (external library) as the code under src/ uses them: *)
(* the default queue, drained by the CPU workers, and arq:gpu, drained by  *)
(* the GPU workers.  ARQ delivers at least once: a job stays in its queue  *)
(* while a worker runs it, a job whose worker died is picked up again with *)
(* its try counter increased, a job past max_tries is dropped, and a job   *)
(* that raises or times out is finished for good.  Delivery order is not   *)
(* relied on.  One slot per job; a slot is reused once its job is removed. *)
(***************************************************************************)
EXTENDS Naturals, FiniteSets

CONSTANTS
  Docs,      \* document ids
  NoDoc,     \* the document of a free slot
  CpuJobs,   \* slots of the default queue and of arq:gpu: a bound on the
  GpuJobs,   \* jobs that are in each of them at the same time
  CpuSlots,  \* jobs all CPU workers together run at once (max_jobs each)
  GpuSlots,  \* jobs all GPU workers together run at once
  CpuTries,  \* WorkerSettings.max_tries
  GpuTries   \* GpuWorkerSettings.max_tries

ASSUME QueueAssumption ==
  /\ NoDoc \notin Docs
  /\ CpuJobs \cap GpuJobs = {}
  /\ CpuSlots \in Nat /\ GpuSlots \in Nat
  /\ CpuTries \in Nat /\ GpuTries \in Nat

VARIABLES
  pc,     \* where the job in a slot is; "none" for a free slot
  jdoc,   \* the document_id argument of the job
  tries   \* how often the job was started

queueVars == <<pc, jdoc, tries>>

Jobs == CpuJobs \cup GpuJobs

\* CpuJobs hold ingest_dispatch jobs, GpuJobs gpu_ingest_dispatch jobs.
QueueOf(j) == IF j \in GpuJobs THEN GpuJobs ELSE CpuJobs

\* Before the claim: what the job read may be stale, but it changed nothing.
Unclaimed == {"start", "claim", "route", "reject"}
\* Between the claim's commit and the commit of the outcome.
Claimed == {"extract", "extracted", "unreadable", "enrich"}
Running == Unclaimed \cup Claimed \cup {"handoff", "done"}

QueueTypeOK ==
  /\ pc \in [Jobs -> Running \cup {"none", "pending"}]
  /\ jdoc \in [Jobs -> Docs \cup {NoDoc}]
  /\ tries \in [Jobs -> Nat]
  /\ \A j \in Jobs : pc[j] # "none" => jdoc[j] \in Docs

QueueInit ==
  /\ pc = [j \in Jobs |-> "none"]
  /\ jdoc = [j \in Jobs |-> NoDoc]
  /\ tries = [j \in Jobs |-> 0]

MaxTries(j) == IF j \in GpuJobs THEN GpuTries ELSE CpuTries

Slots(j) == IF j \in GpuJobs THEN GpuSlots ELSE CpuSlots

\* zcard of the queue: jobs stay members while they run.
Depth(queue) == Cardinality({j \in queue : pc[j] # "none"})

RunningJobs(queue) == {j \in queue : pc[j] \in Running}

\* redis.enqueue_job(task, document_id = d, ...): a new job in a free slot.
EnqueueJob(d, queue) ==
  \E j \in queue :
    /\ pc[j] = "none"
    /\ pc' = [pc EXCEPT ![j] = "pending"]
    /\ jdoc' = [jdoc EXCEPT ![j] = d]
    /\ tries' = [tries EXCEPT ![j] = 0]

\* The same from inside job i, whose task then returns.
EnqueueAndReturn(i, d, queue) ==
  \E j \in queue :
    /\ pc[j] = "none"
    /\ pc' = [pc EXCEPT ![j] = "pending", ![i] = "done"]
    /\ jdoc' = [jdoc EXCEPT ![j] = d]
    /\ tries' = [tries EXCEPT ![j] = 0]

\* The task of job j goes on to step p; "done" is its return.
Goes(j, p) ==
  /\ pc' = [pc EXCEPT ![j] = p]
  /\ UNCHANGED <<jdoc, tries>>

Removed(j) ==
  /\ pc' = [pc EXCEPT ![j] = "none"]
  /\ jdoc' = [jdoc EXCEPT ![j] = NoDoc]
  /\ tries' = [tries EXCEPT ![j] = 0]

\* A worker with a free slot picks the job up.
Started(j) ==
  /\ pc[j] = "pending"
  /\ tries[j] < MaxTries(j)
  /\ Cardinality(RunningJobs(QueueOf(j))) < Slots(j)
  /\ pc' = [pc EXCEPT ![j] = "start"]
  /\ tries' = [tries EXCEPT ![j] = @ + 1]
  /\ UNCHANGED jdoc

\* The worker finds the job past max_tries and drops it without running it.
GivenUp(j) ==
  /\ pc[j] = "pending"
  /\ tries[j] >= MaxTries(j)
  /\ Removed(j)
=============================================================================
