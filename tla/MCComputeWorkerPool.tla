------------------------ MODULE MCComputeWorkerPool ------------------------
(* Instance of ComputeWorkerPool for TLC: one impatient job among patient   *)
(* ones, which are interchangeable.                                         *)
EXTENDS ComputeWorkerPool, TLC

CONSTANTS a, b, c

ShortAndLong == [j \in {a, b, c} |-> IF j = a THEN 1 ELSE 2]
=============================================================================
