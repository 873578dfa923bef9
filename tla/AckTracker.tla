----------------------------- MODULE AckTracker -----------------------------
(***************************************************************************)
(* The in-flight accounting of a pipeline that reads from a persistent     *)
(* queue (crates/ferro-stash-core/src/pipeline.rs, AckState/AckTracker).   *)
(* The tracker decides how far the durable cursor of the queue may move:   *)
(* up to, and not including, the smallest queue sequence that still has a  *)
(* derived event in flight or that lost one for good.                      *)
(*                                                                         *)
(* Every method of AckTracker holds the tracker's mutex for its whole      *)
(* body, so each is one operator from a tracker value to a tracker value.  *)
(* The BTreeMap `outstanding' is a total function with 0 for "no key": the *)
(* code removes a key when its count reaches 0.                            *)
(***************************************************************************)
EXTENDS Naturals

CONSTANTS MaxSeq,   \* number of queue entries the model distinguishes
          None      \* Option::None

ASSUME MaxSeqAssumption == MaxSeq \in Nat
ASSUME NoneAssumption   == None \notin Nat

Seqs == 0 .. MaxSeq - 1

AckState ==
  [outstanding : [Seqs -> Nat],
   minBlocked  : Seqs \cup {None},
   highest     : Seqs \cup {None}]

new ==
  [outstanding |-> [s \in Seqs |-> 0], minBlocked |-> None, highest |-> None]

register(t, s) ==
  [t EXCEPT !.outstanding[s] = 1,
            !.highest = IF @ = None \/ @ < s THEN s ELSE @]

\* Faulty variant: keeps the count of 1 that register gave the entry.
set_fanout_one(t, s, derived) == t

\* A fan-out of 0 removes the key: the entry is complete.
set_fanout(t, s, derived) == [t EXCEPT !.outstanding[s] = derived]

\* No-op for a sequence that is not outstanding.
complete(t, s) ==
  [t EXCEPT !.outstanding[s] = IF @ > 0 THEN @ - 1 ELSE 0]

block(t, s) ==
  [t EXCEPT !.minBlocked = IF @ = None \/ s < @ THEN s ELSE @]

\* The sequences the ack point may not pass.
Pins(t) ==
  {s \in Seqs : t.outstanding[s] > 0} \cup ({t.minBlocked} \ {None})

\* None until the first entry is registered.
ack_point(t) ==
  IF Pins(t) # {}
    THEN CHOOSE p \in Pins(t) : \A q \in Pins(t) : p <= q
    ELSE IF t.highest = None THEN None ELSE t.highest + 1
=============================================================================
