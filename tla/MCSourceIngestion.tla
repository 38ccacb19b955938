------------------------- MODULE MCSourceIngestion -------------------------
(* One binding, two workers: one commits a page a run, the other two.     *)
EXTENDS SourceIngestion

CONSTANTS w1, w2

MCMaxPages == [w \in {w1, w2} |-> IF w = w1 THEN 1 ELSE 2]
=============================================================================
