--------------------- MODULE PersistentQueueRefinement ----------------------
(***************************************************************************)
(* In fsync mode the files of PersistentQueue implement DurableQueue: the  *)
(* queue is the committed lines at or above the checkpoint's ack_seq, with *)
(* their sequence numbers, and what is delivered is what the consumer got. *)
(***************************************************************************)
EXTENDS PersistentQueue

Unsettled ==
  {l \in OnDisk \cup buf : checkpoint.a <= l.seq /\ l.seq < writeSeq}

Durable == INSTANCE DurableQueue WITH
  queue     <- Unsettled,
  delivered <- Unsettled \cap popped,
  acked     <- {l \in Unsettled : l.seq < ackSeq}

\* enqueue, dequeue, ack, rotation, compression, gc, crash and reopen, step by
\* step, do to that queue only what DurableQueue allows.
ImplementsDurableQueue == Durable!QueueSpec
=============================================================================
