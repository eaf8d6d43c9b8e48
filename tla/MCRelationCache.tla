--------------------------- MODULE MCRelationCache ---------------------------
(* RelationCache on a small instance: one head, one delta, and indexes of    *)
(* which the budget holds two small ones or a large one.  A join with the    *)
(* head adds nothing to it, a filter of the delta may.                       *)
EXTENDS RelationCache, TLC

CONSTANTS head, delta, narrow, wide

MCExprs == {{head, delta}, {delta}}
MCIndexBytes ==
  narrow :> [n \in 0..Cardinality(Rows) |-> 1] @@ wide :> [n \in 0..Cardinality(Rows) |-> 1 + n]
=============================================================================
