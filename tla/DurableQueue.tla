---------------------------- MODULE DurableQueue ----------------------------
(***************************************************************************)
(* What a persistent queue promises its users, without files: a FIFO whose *)
(* head is handed out again after a restart until the consumer has         *)
(* acknowledged it and that is recorded.  Nothing else ever leaves it and  *)
(* nothing is handed out out of turn.  An entry is an event with its       *)
(* number in the queue, a record [seq, id].                                *)
(***************************************************************************)
EXTENDS Naturals

VARIABLES
  queue,      \* the entries accepted and not settled
  delivered,  \* those handed out in this run
  acked       \* those of them the consumer has acknowledged

queueVars == <<queue, delivered, acked>>

QueueInit == queue = {} /\ delivered = {} /\ acked = {}

\* One entry joins the queue: a new event, behind all others.
Join ==
  \E l \in queue' :
    /\ \A m \in queue : m.seq < l.seq /\ m.id # l.id
    /\ queue' = queue \cup {l}

Accept == Join /\ UNCHANGED <<delivered, acked>>

\* The oldest entry not handed out yet is.
Deliver ==
  \E l \in queue \ delivered :
    /\ \A m \in queue \ delivered : l.seq <= m.seq
    /\ delivered' = delivered \cup {l}
    /\ UNCHANGED <<queue, acked>>

\* The consumer is through with S, the oldest of what it was handed.
Acknowledge(S) ==
  /\ acked \subseteq S /\ S \subseteq delivered
  /\ \A l \in S, m \in queue : m.seq < l.seq => m \in S
  /\ acked' = S
  /\ UNCHANGED <<queue, delivered>>

\* Some of those leave the queue for good.
Settle(S) ==
  /\ S \subseteq acked
  /\ queue' = queue \ S /\ delivered' = delivered \ S /\ acked' = acked \ S

\* A restart hands everything out again; an enqueue it interrupted may have been
\* accepted.
Recover ==
  /\ delivered' = {} /\ acked' = {}
  /\ UNCHANGED queue \/ Join

QueueNext ==
  \/ Accept
  \/ Deliver
  \/ \E S \in SUBSET delivered : Acknowledge(S)
  \/ \E S \in SUBSET acked : Settle(S)
  \/ Recover

QueueSpec == QueueInit /\ [][QueueNext]_queueVars
=============================================================================
