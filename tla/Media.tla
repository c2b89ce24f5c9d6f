------------------------------- MODULE Media -------------------------------
(***************************************************************************)
(* The handlers of images, audio and video in a GPU worker.  A job is a    *)
(* coroutine of the worker's event loop and, while it waits for one, a     *)
(* thread of the executor; a job that is cancelled ends at once, its       *)
(* thread does not.  The threads of one handler class share the models it  *)
(* keeps, under a lock and a check before and after taking it; the image   *)
(* handler keeps a bounded number, one per set of languages.  Temporary    *)
(* files are removed when the coroutine ends, whatever its thread still    *)
(* writes.  What the models make of the media is left out.                 *)
(***************************************************************************)
EXTENDS Integers, FiniteSets, Sequences, SequencesExt, Llm

CONSTANTS
  Jobs,
  Mixes,       \* what the jobs are
  Models,      \* sets of languages, and the model of whisper
  MaxReaders,  \* _MAX_CACHED_READERS
  Slots,       \* max_jobs of the worker
  Frames,      \* sampled frames of a video
  NoJob

Classes == {"image", "audio", "video"}

ASSUME MediaAssumption ==
  /\ Mixes \subseteq [Jobs -> [class : Classes, model : Models, vision : BOOLEAN]]
  /\ MaxReaders \in Nat \ {0} /\ Slots \in Nat \ {0} /\ Frames \in Nat \ {0} /\ NoJob \notin Jobs
  /\ IsFiniteSet(Jobs)
  /\ \A m \in Mixes, i, j \in Jobs :   \* whisper is loaded in one size per class
       m[i].class = m[j].class /\ m[i].class # "image" => m[i].model = m[j].model

VARIABLES
  job,
  co,        \* where the coroutine of a job is
  outcome,
  th,        \* where its thread is
  cached,    \* models a class keeps, the oldest first
  lock,      \* who has the lock of a class
  files,     \* temporary files there are
  captions   \* what the language model said of an image or the frames of a video

modelVars == <<cached, lock>>
vars == <<job, co, outcome, th, modelVars, files, captions>>

Class(j) == job[j].class
Model(j) == job[j].model
Cached(j) == \E i \in DOMAIN cached[Class(j)] : cached[Class(j)][i] = Model(j)

Working == {"fetch", "convert", "infer", "frames", "caption"}
Running == {j \in Jobs : co[j] \in Working}
Begun == {j \in Jobs : co[j] # "start"}
Places == Working \cup {"start", "end"}
ThreadPlaces == {"none", "ffmpeg", "check", "wait", "recheck", "load", "get", "run", "cut"}
Outcomes == {"none", "ok", "failed", "nofile", "keyerror", "cancelled"}

Captions == {"pending", "described", "nothing"}

MediaTypeOK ==
  /\ job \in Mixes
  /\ co \in [Jobs -> Places] /\ th \in [Jobs -> ThreadPlaces] /\ outcome \in [Jobs -> Outcomes]
  /\ cached \in [Classes -> Seq(Models)] /\ lock \in [Classes -> Jobs \cup {NoJob}]
  /\ \A c \in Classes : lock[c] # NoJob => th[lock[c]] \in {"recheck", "load"}
  /\ files \subseteq Jobs \X {"source", "wav", "frames"}
  /\ captions \in [Jobs -> [1 .. Frames -> Captions]]
  /\ Cardinality(Running) <= Slots

Init ==
  /\ job \in Mixes
  /\ co = [j \in Jobs |-> "start"] /\ outcome = [j \in Jobs |-> "none"]
  /\ th = [j \in Jobs |-> "none"]
  /\ cached = [c \in Classes |-> << >>] /\ lock = [c \in Classes |-> NoJob]
  /\ files = {}
  /\ captions = [j \in Jobs |-> [f \in 1 .. Frames |-> "pending"]]
-----------------------------------------------------------------------------
(* The coroutine. *)

Goes(j, place) == co' = [co EXCEPT ![j] = place] /\ UNCHANGED <<job, outcome>>
Thread(j, place) == th' = [th EXCEPT ![j] = place]

FilesOf(j) == {f \in files : f[1] = j}

\* Mutant: the files are removed at the end of the body, not in a finally.
EndsKeeping(j, result) ==
  /\ co' = [co EXCEPT ![j] = "end"]
  /\ outcome' = [outcome EXCEPT ![j] = result]
  /\ files' = IF result = "ok" THEN files \ FilesOf(j) ELSE files
  /\ UNCHANGED job

EndsLeaving(j, result, left) ==
  /\ co' = [co EXCEPT ![j] = "end"]
  /\ outcome' = [outcome EXCEPT ![j] = result]
  /\ files' = (files \ FilesOf(j)) \cup left
  /\ UNCHANGED job

\* The end of extract, by return or exception: its files that exist are removed.
Ends(j, result) == EndsLeaving(j, result, {})

TempFiles(j) ==
  CASE Class(j) = "image" -> {}
    [] Class(j) = "audio" -> {<<j, "source">>}
    [] Class(j) = "video" -> {<<j, "source">>, <<j, "wav">>}

Begin(j) ==
  /\ co[j] = "start" /\ Cardinality(Running) < Slots
  /\ files' = files \cup TempFiles(j)
  /\ Goes(j, "fetch")
  /\ UNCHANGED <<th, modelVars, captions>>

\* A temporary file cannot be made: for want of the second one of a video the first
\* is left, as the try begins after both.
BeginFails(j) ==
  /\ co[j] = "start" /\ Cardinality(Running) < Slots /\ Class(j) # "image"
  /\ \E left \in SUBSET {<<j, "source">>} :
       (left # {} => Class(j) = "video") /\ EndsLeaving(j, "nofile", left)
  /\ UNCHANGED <<th, modelVars, captions>>

\* The object is read; a thread of the executor goes on.
Fetch(j) ==
  /\ co[j] = "fetch"
  /\ IF Class(j) = "video" THEN Goes(j, "convert") /\ Thread(j, "ffmpeg")
     ELSE Goes(j, "infer") /\ Thread(j, "check")
  /\ UNCHANGED <<modelVars, files, captions>>

\* It cannot be read, or not as an image, or its languages are not supported.
FetchFails(j) ==
  /\ co[j] = "fetch"
  /\ Ends(j, "failed")
  /\ UNCHANGED <<th, modelVars, captions>>

\* The job's time is over: the coroutine is cancelled where it waits.  The directory
\* of the frames stays if ffmpeg puts one in while the others are being removed.
Cancel(j) ==
  /\ j \in Running
  /\ \E left \in SUBSET {<<j, "frames">>} :
       (left # {} => th[j] = "cut") /\ EndsLeaving(j, "cancelled", left)
  /\ UNCHANGED <<th, modelVars, captions>>

\* _extract_audio, which creates the file anew if it was removed before ffmpeg
\* opened it.
Convert(j) ==
  /\ th[j] = "ffmpeg"
  /\ IF co[j] = "convert"
     THEN Goes(j, "infer") /\ Thread(j, "check") /\ UNCHANGED files
     ELSE /\ UNCHANGED <<job, co, outcome>> /\ Thread(j, "none")
          /\ files' \in {files, files \cup {<<j, "wav">>}}
  /\ UNCHANGED <<modelVars, captions>>

\* What an error of the thread is to its coroutine, if that still waits.
ThreadFails(j, error) ==
  /\ Thread(j, "none")
  /\ IF co[j] \in {"convert", "infer"} THEN Ends(j, error)
     ELSE UNCHANGED <<job, co, outcome, files>>
  /\ UNCHANGED captions

ConvertFails(j) == th[j] = "ffmpeg" /\ ThreadFails(j, "failed") /\ UNCHANGED modelVars
-----------------------------------------------------------------------------
(* The models, in the threads. *)

Stays == UNCHANGED <<job, co, outcome, files, captions>>

Check(j) ==
  /\ th[j] = "check"
  /\ Thread(j, IF Cached(j) THEN "get" ELSE "wait")
  /\ Stays /\ UNCHANGED modelVars

Lock(j) ==
  /\ th[j] = "wait" /\ lock[Class(j)] = NoJob
  /\ lock' = [lock EXCEPT ![Class(j)] = j]
  /\ Thread(j, "recheck")
  /\ Stays /\ UNCHANGED cached

Unlock(j) == lock' = [lock EXCEPT ![Class(j)] = NoJob]

\* Mutant: no second check under the lock.
LoadsAnyway(j) ==
  /\ th[j] = "recheck"
  /\ cached' = [cached EXCEPT ![Class(j)] = IF Len(@) >= MaxReaders THEN Tail(@) ELSE @]
  /\ Thread(j, "load")
  /\ Stays /\ UNCHANGED lock

\* Mutant: a reader is evicted one too early.
EvictsEarly(j) ==
  /\ th[j] = "recheck"
  /\ IF Cached(j)
     THEN Unlock(j) /\ Thread(j, "get") /\ UNCHANGED cached
     ELSE /\ cached' = [cached EXCEPT ![Class(j)] = IF Len(@) + 1 >= MaxReaders /\ @ # << >> THEN Tail(@) ELSE @]
          /\ Thread(j, "load")
          /\ UNCHANGED lock
  /\ Stays

\* The second check; a full cache loses its oldest entry before the model loads.
Recheck(j) ==
  /\ th[j] = "recheck"
  /\ IF Cached(j)
     THEN Unlock(j) /\ Thread(j, "get") /\ UNCHANGED cached
     ELSE /\ cached' = [cached EXCEPT ![Class(j)] = IF Len(@) >= MaxReaders THEN Tail(@) ELSE @]
          /\ Thread(j, "load")
          /\ UNCHANGED lock
  /\ Stays

\* On the GPU if it can be used, else on the CPU.
Load(j) ==
  /\ th[j] = "load"
  /\ cached' = [cached EXCEPT ![Class(j)] = Append(@, Model(j))]
  /\ Unlock(j)
  /\ Thread(j, "get")
  /\ Stays

\* Mutant: an error while a model loads leaves the lock taken.
LoadFailsLocked(j) ==
  /\ th[j] = "load"
  /\ ThreadFails(j, "failed")
  /\ UNCHANGED modelVars

LoadFails(j) ==
  /\ th[j] = "load"
  /\ Unlock(j)
  /\ ThreadFails(j, "failed")
  /\ UNCHANGED cached

\* The model is looked up again, without the lock: it may have been evicted.
Get(j) ==
  /\ th[j] = "get"
  /\ IF Cached(j) THEN Thread(j, "run") /\ Stays ELSE ThreadFails(j, "keyerror")
  /\ UNCHANGED modelVars
-----------------------------------------------------------------------------
(* Results. *)

\* What describe_image gives, of an error nothing.
Descriptions == {IF answer = "text" THEN "described" ELSE "nothing" : answer \in Completion}

\* Descriptions are asked for if the tenant wants them and a provider is there: one
\* of an image, and one of each frame that ffmpeg makes of a video.
Vision(j) == Class(j) # "audio" /\ Configured /\ job[j].vision
Shots(j) == IF Class(j) = "image" THEN {1} ELSE 1 .. Frames

\* Mutant: the frames are not waited for.
InferHastens(j) ==
  /\ th[j] = "run"
  /\ IF co[j] = "infer" /\ Vision(j) /\ Class(j) = "video"
     THEN Goes(j, "caption") /\ Thread(j, "cut") /\ files' = files \cup {<<j, "frames">>}
     ELSE /\ Thread(j, "none")
          /\ IF co[j] = "infer" THEN Ends(j, "ok") ELSE UNCHANGED <<job, co, outcome, files>>
  /\ UNCHANGED <<modelVars, captions>>

\* The model's answer; of a video that is to be described the frames are cut next,
\* if a directory can be made for them.
Infer(j) ==
  /\ th[j] = "run"
  /\ \/ /\ co[j] # "infer"
        /\ Thread(j, "none") /\ UNCHANGED <<job, co, outcome, files>>
     \/ /\ co[j] = "infer" /\ ~Vision(j)
        /\ Thread(j, "none") /\ Ends(j, "ok")
     \/ /\ co[j] = "infer" /\ Vision(j) /\ Class(j) = "image"
        /\ Thread(j, "none") /\ Goes(j, "caption") /\ UNCHANGED files
     \/ /\ co[j] = "infer" /\ Vision(j) /\ Class(j) = "video"
        /\ \/ Goes(j, "frames") /\ Thread(j, "cut") /\ files' = files \cup {<<j, "frames">>}
           \/ Ends(j, "failed") /\ Thread(j, "none")
  /\ UNCHANGED <<modelVars, captions>>

InferFails(j) == th[j] = "run" /\ ThreadFails(j, "failed") /\ UNCHANGED modelVars

\* ffmpeg has cut the frames out of the video, or there are none, after an error.
ExtractFrames(j) ==
  /\ th[j] = "cut" /\ Thread(j, "none")
  /\ IF co[j] = "frames"
     THEN (Goes(j, "caption") /\ UNCHANGED files) \/ Ends(j, "ok")
     ELSE UNCHANGED <<job, co, outcome, files>>
  /\ UNCHANGED <<modelVars, captions>>

\* The captions are asked for at once and come in any order; an error is none.
Caption(j, f) ==
  /\ co[j] = "caption" /\ f \in Shots(j) /\ captions[j][f] = "pending"
  /\ \E c \in Descriptions : captions' = [captions EXCEPT ![j][f] = c]
  /\ Goes(j, "caption")
  /\ UNCHANGED <<th, modelVars, files>>

Finish(j) ==
  /\ co[j] = "caption" /\ \A f \in Shots(j) : captions[j][f] # "pending"
  /\ Ends(j, "ok")
  /\ UNCHANGED <<th, modelVars, captions>>

Coroutine(j) ==
  \/ Fetch(j) \/ FetchFails(j) \/ Finish(j)
  \/ \E f \in 1 .. Frames : Caption(j, f)

Threaded(j) ==
  \/ Convert(j) \/ ConvertFails(j) \/ Check(j) \/ Lock(j) \/ Recheck(j)
  \/ Load(j) \/ LoadFails(j) \/ Get(j) \/ Infer(j) \/ InferFails(j)
  \/ ExtractFrames(j)

Next == \E j \in Jobs : Begin(j) \/ BeginFails(j) \/ Cancel(j) \/ Coroutine(j) \/ Threaded(j)

Spec == Init /\ [][Next]_vars

\* Calls of the executor, the object store and the language model return, errors
\* included; the worker takes a waiting job when it has a free slot.
FairSpec ==
  Spec /\ \A j \in Jobs : WF_vars(Begin(j) \/ BeginFails(j)) /\ WF_vars(Coroutine(j)) /\ WF_vars(Threaded(j))
-----------------------------------------------------------------------------
\* Safety of the caches of models: each stays within its bound, counting the model
\* that is being loaded, holds no model twice and loads none it holds; no two
\* threads load models of one class at once.
ReadersBounded ==
  /\ \A c \in Classes : Len(cached[c]) <= MaxReaders /\ IsInjective(cached[c])
  /\ \A i, j \in Jobs : th[i] = "load" /\ th[j] = "load" /\ Class(i) = Class(j) => i = j
  /\ \A j \in Jobs : th[j] = "load" => ~Cached(j) /\ Len(cached[Class(j)]) < MaxReaders

\* Safety of _get_reader: a job fails for a reader evicted before it was looked up
\* only if the images the worker has begun, those that have ended included, came
\* with more sets of languages than the cache has room for.
KeyErrorNeedsMore ==
  (\E j \in Jobs : outcome[j] = "keyerror")
    => Cardinality({Model(j) : j \in {i \in Begun : Class(i) = "image"}}) > MaxReaders

\* Safety of the finally clauses: of a job that has ended, however, no temporary
\* file is left, but of a video one of three: the first file, if the second could
\* not be made; and after a cancellation, as ffmpeg outlives it, the sound file
\* created again or frames put into the directory while it was being removed.
FilesGone ==
  \A j \in Jobs : co[j] = "end" /\ FilesOf(j) # {} =>
    /\ Class(j) = "video"
    /\ \/ outcome[j] = "nofile" /\ FilesOf(j) = {<<j, "source">>}
       \/ outcome[j] = "cancelled" /\ FilesOf(j) \in {{<<j, "wav">>}, {<<j, "frames">>}}

\* Safety of the slots: a job that was not cancelled has a thread just while its
\* coroutine waits for one, so that at most as many threads as there are slots
\* work for anybody; those in excess all belong to cancelled jobs.  ("1 per GPU",
\* docs/architecture.md:281, is more than the code keeps: max_jobs is 2, and of
\* threads of cancelled jobs there may be more.)
SlotsHold ==
  /\ \A j \in Jobs : outcome[j] # "cancelled" =>
       (th[j] # "none" <=> co[j] \in {"convert", "infer", "frames"})
  /\ Cardinality({j \in Jobs : th[j] # "none" /\ outcome[j] # "cancelled"}) <= Slots

\* Liveness: whatever fails or is cancelled, each job ends and no lock is kept.
JobsEnd == <>[](\A j \in Jobs : co[j] = "end" /\ th[j] = "none")
=============================================================================
