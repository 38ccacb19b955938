---------------------- MODULE MCOperationCoordination ----------------------
(* Instances of OperationCoordination for TLC: invocations compete for one    *)
(* resource; invocations and resources are interchangeable.                  *)
EXTENDS OperationCoordination, TLC

Symmetry == Permutations(Invocations) \cup Permutations(Resources)
=============================================================================
