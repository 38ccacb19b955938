----------------------- MODULE MCKnowledgePublication -----------------------
(* Instances of KnowledgePublication for TLC: the maps from attempts to      *)
(* deployments and from deployments to content.                             *)
EXTENDS KnowledgePublication, TLC

CONSTANTS a1, a2, d1, d2, r1, r2

\* A new deployment tried once, or tried and retried under the same key.
Single == a1 :> d2
Retried == (a1 :> d2) @@ (a2 :> d2)
Distinct == (d1 :> r1) @@ (d2 :> r2)
=============================================================================
