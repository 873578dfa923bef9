------------------------------ MODULE MCQueue -------------------------------
(***************************************************************************)
(* Instances of PersistentQueue: short and long lines take turns.          *)
(***************************************************************************)
EXTENDS PersistentQueueRefinement

Widths == [id \in Ids |-> IF id % 2 = 0 THEN LongestLine ELSE 1]
=============================================================================
