------------------------------ MODULE MCIngest ------------------------------
(***************************************************************************)
(* Instances of Ingest for TLC: which contents and handler classes the     *)
(* documents of a configuration have.                                      *)
(***************************************************************************)
EXTENDS Ingest, TLC

\* One document of a class each; the tests of one class use one of them.
AllCpu == [d \in Docs |-> "cpu"]
AllGpu == [d \in Docs |-> "gpu"]

CONSTANTS d1, d2

\* Two files, the second of a type without a handler.
SomeUnknown == [d \in Docs |-> IF d = d1 THEN "cpu" ELSE "none"]

OneContent == [d \in Docs |-> 1]

JobSymmetry == Permutations(CpuJobs) \cup Permutations(GpuJobs)
=============================================================================
