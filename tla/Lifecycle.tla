----------------------------- MODULE Lifecycle -----------------------------
(***************************************************************************)
(* What the service promises about one document: it is accepted once, then *)
(* waits, is worked on, and ends indexed with exactly one set of results   *)
(* or failed without any; a failed document may be queued again, and a     *)
(* removed document never comes back.  The promise ends at the first lost  *)
(* update of the status column (Overwrite): nothing is said of such a      *)
(* document except that it was accepted and may still be removed.          *)
(***************************************************************************)
EXTENDS Naturals

CONSTANT Docs

VARIABLES
  stage,   \* of each document
  results  \* how many sets of chunks are stored for it

lifeVars == <<stage, results>>

Stages == {"new", "waiting", "working", "indexed", "failed", "overwritten", "gone"}

LifeTypeOK ==
  /\ stage \in [Docs -> Stages]
  /\ results \in [Docs -> 0..1]

LifeInit ==
  /\ stage = [d \in Docs |-> "new"]
  /\ results = [d \in Docs |-> 0]

Move(d, from, to) ==
  /\ stage[d] \in from
  /\ stage' = [stage EXCEPT ![d] = to]

Accept(d) == Move(d, {"new"}, "waiting") /\ UNCHANGED results

Work(d) == Move(d, {"waiting"}, "working") /\ UNCHANGED results

Finish(d) ==
  /\ Move(d, {"working"}, "indexed")
  /\ results' = [results EXCEPT ![d] = 1]

\* "waiting": a document no handler takes fails without being worked on.
Fail(d) == Move(d, {"waiting", "working"}, "failed") /\ UNCHANGED results

Requeue(d) == Move(d, {"failed"}, "waiting") /\ UNCHANGED results

Remove(d) ==
  /\ Move(d, Stages \ {"new", "gone"}, "gone")
  /\ results' = [results EXCEPT ![d] = 0]

Overwrite(d) ==
  /\ Move(d, Stages \ {"new", "gone"}, "overwritten")
  /\ results' = [results EXCEPT ![d] = 0]

LifeNext ==
  \E d \in Docs :
    \/ Accept(d) \/ Work(d) \/ Finish(d) \/ Fail(d)
    \/ Requeue(d) \/ Remove(d) \/ Overwrite(d)

LifeSpec == LifeInit /\ [][LifeNext]_lifeVars
=============================================================================
