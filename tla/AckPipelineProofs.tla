-------------------------- MODULE AckPipelineProofs -------------------------
(***************************************************************************)
(* Proofs about AckPipeline, for any number of entries, outputs, derived   *)
(* events, failures and crashes: type correctness, that the durable cursor *)
(* only passes entries in a terminal state (AckOnlyTerminal), and that a   *)
(* clean stop leaves nothing to deliver again (CleanStopAcksAll).          *)
(***************************************************************************)
EXTENDS AckPipeline, TLAPS, FiniteSetTheorems, WellFoundedInduction

-----------------------------------------------------------------------------
(* The operations of the tracker.                                          *)

\* Every non-empty set of naturals has a least element.
LEMMA LeastNat ==
  ASSUME NEW S, S \subseteq Nat, S # {}
  PROVE  \E m \in S : \A n \in S : m <= n
<1>1. \E x \in S : \A y \in S : ~ (<<y, x>> \in OpToRel(<, Nat))
  BY NatLessThanWellFounded, WFMin
<1>2. PICK x \in S : \A y \in S : ~ (<<y, x>> \in OpToRel(<, Nat))
  BY <1>1
<1>3. \A y \in S : x <= y
  <2>1. SUFFICES ASSUME NEW y \in S PROVE x <= y
    OBVIOUS
  <2>2. ~ (y < x)
    BY <1>2 DEF OpToRel
  <2> QED
    BY <2>2
<1> QED
  BY <1>3

\* register makes s outstanding once and raises the highest registered sequence.
LEMMA RegisterFacts ==
  ASSUME NEW t \in AckState, NEW s \in Seqs
  PROVE  /\ register(t, s) \in AckState
         /\ register(t, s).outstanding = [t.outstanding EXCEPT ![s] = 1]
         /\ register(t, s).minBlocked = t.minBlocked
         /\ register(t, s).highest =
              IF t.highest = None \/ t.highest < s THEN s ELSE t.highest
BY DEF AckState, register

\* set_fanout replaces the count of s.
LEMMA FanoutFacts ==
  ASSUME NEW t \in AckState, NEW s \in Seqs, NEW k \in Nat
  PROVE  /\ set_fanout(t, s, k) \in AckState
         /\ set_fanout(t, s, k).outstanding = [t.outstanding EXCEPT ![s] = k]
         /\ set_fanout(t, s, k).minBlocked = t.minBlocked
         /\ set_fanout(t, s, k).highest = t.highest
BY DEF AckState, set_fanout

\* set_fanout leaves the two watermarks of the tracker alone.
LEMMA FanoutKeeps ==
  ASSUME NEW t \in AckState, NEW s \in Seqs, NEW k \in Nat
  PROVE  /\ set_fanout(t, s, k).minBlocked = t.minBlocked
         /\ set_fanout(t, s, k).highest = t.highest
BY FanoutFacts

\* complete takes one from the count of s, and never goes below 0.
LEMMA CompleteFacts ==
  ASSUME NEW t \in AckState, NEW s \in Seqs
  PROVE  /\ complete(t, s) \in AckState
         /\ complete(t, s).outstanding =
              [t.outstanding EXCEPT ![s] =
                 IF t.outstanding[s] > 0 THEN t.outstanding[s] - 1 ELSE 0]
         /\ complete(t, s).minBlocked = t.minBlocked
         /\ complete(t, s).highest = t.highest
BY DEF AckState, complete

\* block lowers the blocked minimum to s.
LEMMA BlockFacts ==
  ASSUME NEW t \in AckState, NEW s \in Seqs
  PROVE  /\ block(t, s) \in AckState
         /\ block(t, s).outstanding = t.outstanding
         /\ block(t, s).minBlocked =
              IF t.minBlocked = None \/ s < t.minBlocked THEN s ELSE t.minBlocked
         /\ block(t, s).highest = t.highest
BY DEF AckState, block

\* A fresh tracker is typed and knows nothing.
LEMMA NewFacts ==
  /\ new \in AckState
  /\ \A s \in Seqs : new.outstanding[s] = 0
  /\ new.minBlocked = None /\ new.highest = None
BY DEF AckState, new

\* The ack point is at most one past the highest sequence, and no sequence below
\* it is outstanding or at or above the blocked minimum.
LEMMA AckPointFacts ==
  ASSUME NEW t \in AckState, ack_point(t) # None
  PROVE  /\ ack_point(t) \in 0 .. MaxSeq
         /\ \A s \in Seqs : s < ack_point(t) =>
              /\ t.outstanding[s] = 0
              /\ t.minBlocked # None => s < t.minBlocked
         /\ \/ ack_point(t) \in Seqs /\ t.outstanding[ack_point(t)] > 0
            \/ ack_point(t) = t.minBlocked
            \/ t.highest # None /\ ack_point(t) = t.highest + 1
<1> USE MaxSeqAssumption, NoneAssumption
<1>1. Pins(t) \subseteq Seqs /\ Seqs \subseteq Nat
  BY DEF Pins, AckState, Seqs
<1>2. \A s \in Seqs : t.outstanding[s] \in Nat
  BY DEF AckState
<1>3. CASE Pins(t) # {}
  <2> DEFINE p == CHOOSE q \in Pins(t) : \A r \in Pins(t) : q <= r
  <2>1. \E q \in Pins(t) : \A r \in Pins(t) : q <= r
    BY <1>1, <1>3, LeastNat
  <2>2. p \in Pins(t) /\ \A r \in Pins(t) : p <= r
    BY <2>1
  <2>3. ack_point(t) = p
    BY <1>3 DEF ack_point
  <2>4. p \in Seqs
    BY <2>2, <1>1
  <2>5. p \in 0 .. MaxSeq
    BY <2>4 DEF Seqs
  <2>6. ASSUME NEW s \in Seqs, s < p
        PROVE  /\ t.outstanding[s] = 0
               /\ t.minBlocked # None => s < t.minBlocked
    <3>1. s \notin Pins(t)
      BY <2>2, <2>4, <2>6 DEF Seqs
    <3>2. ~(t.outstanding[s] > 0)
      BY <3>1 DEF Pins
    <3>3. t.outstanding[s] = 0
      BY <3>2, <1>2
    <3>4. ASSUME t.minBlocked # None PROVE s < t.minBlocked
      <4>1. t.minBlocked \in Pins(t)
        BY <3>4 DEF Pins
      <4>2. p <= t.minBlocked
        BY <4>1, <2>2
      <4>3. t.minBlocked \in Seqs
        BY <4>1, <1>1
      <4> QED
        BY <4>2, <4>3, <2>4, <2>6 DEF Seqs
    <3> QED
      BY <3>3, <3>4
  <2>7. (p \in Seqs /\ t.outstanding[p] > 0) \/ p = t.minBlocked
    BY <2>2 DEF Pins
  <2> HIDE DEF p
  <2> QED
    BY <2>3, <2>5, <2>6, <2>7
<1>4. CASE Pins(t) = {}
  <2>1. t.highest # None /\ ack_point(t) = t.highest + 1
    BY <1>4 DEF ack_point
  <2>2. t.highest \in Seqs
    BY <2>1 DEF AckState
  <2>3. ack_point(t) \in 0 .. MaxSeq
    BY <2>1, <2>2 DEF Seqs
  <2>4. \A s \in Seqs : t.outstanding[s] = 0
    BY <1>4, <1>2 DEF Pins
  <2>5. t.minBlocked = None
    BY <1>4 DEF Pins
  <2> QED
    BY <2>1, <2>3, <2>4, <2>5
<1> QED
  BY <1>3, <1>4

-----------------------------------------------------------------------------
(* Type correctness.                                                       *)

\* Every step of the pipeline preserves the types of its variables.
LEMMA TypeStep == TypeOK /\ [Next]_vars => TypeOK'
<1> SUFFICES ASSUME TypeOK, [Next]_vars PROVE TypeOK'
  OBVIOUS
<1> USE MaxSeqAssumption, NoneAssumption, PipelineAssumption
<1> USE DEF TypeOK, queueVars, stageVars, eventVars, outputVars, envVars
<1>1. ASSUME NEW c \in BOOLEAN, Push(c) PROVE TypeOK'
  BY <1>1 DEF Push
<1>2. ASSUME NEW c \in BOOLEAN, DrainerStop(c) PROVE TypeOK'
  BY <1>2 DEF DrainerStop, Fault
<1>3. CASE DrainerPop
  BY <1>3 DEF DrainerPop, Seqs, EntryStages
<1>4. ASSUME NEW s \in Seqs, DrainerRegister(s) PROVE TypeOK'
  BY <1>4, RegisterFacts DEF DrainerRegister, EntryStages
<1>5. ASSUME NEW s \in Seqs, DrainerSend(s) PROVE TypeOK'
  BY <1>5 DEF DrainerSend, EntryStages
<1>6. ASSUME NEW s \in Seqs, WorkerBlock(s) PROVE TypeOK'
  BY <1>6, BlockFacts DEF WorkerBlock, EntryStages
<1>7. ASSUME NEW s \in Seqs, NEW k \in 0 .. MaxFanout, NEW f \in BOOLEAN,
             NEW c \in BOOLEAN, FilterChain(s, k, f, c)
      PROVE  TypeOK'
  <2>1. filterLost' \in [Seqs -> BOOLEAN]
    BY <1>7, Zenon DEF FilterChain
  <2>2. faults' \in Nat
    BY <1>7 DEF FilterChain, Fault
  <2> QED
    BY <1>7, <2>1, <2>2 DEF FilterChain, EntryStages
<1>8. ASSUME NEW s \in Seqs, NEW m \in [1 .. fan[s] -> SUBSET Outputs],
             WorkerFanout(s, m)
      PROVE  TypeOK'
  <2>0. fan[s] \in Nat
    OBVIOUS
  <2>1. tracker' \in AckState
    BY <1>8, <2>0, FanoutFacts DEF WorkerFanout
  <2>2. owed' \in [Derived -> SUBSET Outputs]
    BY <1>8 DEF WorkerFanout, Derived, Seqs
  <2>3. event' \in [Derived -> EventStages]
    BY <1>8 DEF WorkerFanout, EventStages
  <2> QED
    BY <1>8, <2>1, <2>2, <2>3 DEF WorkerFanout, EntryStages
<1>9. ASSUME NEW d \in Derived, WorkerSend(d) PROVE TypeOK'
  BY <1>9 DEF WorkerSend, EventStages
<1>10. ASSUME NEW d \in Derived, OutputRecv(d) PROVE TypeOK'
  BY <1>10 DEF OutputRecv, EventStages, OutputStages
<1>11. ASSUME NEW d \in Derived, Complete(d) PROVE TypeOK'
  <2>1. d[1] \in Seqs
    BY DEF Derived
  <2>2. complete(tracker, d[1]) \in AckState
    BY <2>1, CompleteFacts
  <2>3. tracker' \in AckState /\ event' \in [Derived -> EventStages]
    BY <1>11, <2>2 DEF Complete, EventStages
  <2> QED
    BY <1>11, <2>3 DEF Complete
<1>12. CASE FlushTick
  BY <1>12 DEF FlushTick, OutputStages
<1>13. CASE OutputClosed
  BY <1>13 DEF OutputClosed, OutputStages
<1>14. ASSUME NEW u \in BOOLEAN, OutputOk(u) PROVE TypeOK'
  <2>1. turn \in Outputs /\ turn' \in 1 .. NumOutputs + 1
    BY <1>14 DEF OutputOk, Outputs
  <2>2. Matching(turn) \subseteq Derived
    BY DEF Matching, Batch
  <2>3. owed' \in [Derived -> SUBSET Outputs]
    BY <1>14, <2>1 DEF OutputOk, Settle
  <2>4. inBuf' \in [Outputs -> SUBSET Derived]
    BY <1>14, <2>1, <2>2 DEF OutputOk
  <2> QED
    BY <1>14, <2>1, <2>3, <2>4 DEF OutputOk
<1>15. ASSUME NEW C \in SUBSET Batch, OutputErr(C) PROVE TypeOK'
  BY <1>15 DEF OutputErr, Settle, Matching, Batch, Outputs, Fault
<1>16. CASE SendDone
  BY <1>16 DEF SendDone, OutputStages
<1>17. CASE AckStart
  BY <1>17, AckPointFacts DEF AckStart, OutputStages
<1>18. CASE FlushOk
  BY <1>18 DEF FlushOk, Settle, Outputs
<1>19. CASE FlushErr
  BY <1>19 DEF FlushErr, OutputStages, Fault
<1>20. ASSUME NEW r \in Results, FlushDone(r) PROVE TypeOK'
  BY <1>20 DEF FlushDone, PqAck, Larger, OutputStages, Fault
<1>21. ASSUME NEW r \in Results, FinalAck(r) PROVE TypeOK'
  BY <1>21, AckPointFacts DEF FinalAck, PqAck, Larger, OutputStages, Fault
<1>22. ASSUME NEW ok \in BOOLEAN, NEW dr \in BOOLEAN, CloseOutput(ok, dr)
       PROVE  TypeOK'
  <2>1. turn \in Outputs /\ turn' \in 1 .. NumOutputs + 1
    BY <1>22 DEF CloseOutput, Outputs
  <2>2. owed' \in [Derived -> SUBSET Outputs]
    BY <1>22, <2>1 DEF CloseOutput, Settle
  <2>3. inBuf' \in [Outputs -> SUBSET Derived]
    BY <1>22, <2>1 DEF CloseOutput
  <2>4. faults' \in Nat
    BY <1>22 DEF CloseOutput, Fault
  <2>5. allDurable' \in BOOLEAN
    BY <1>22, Zenon DEF CloseOutput
  <2>6. UNCHANGED <<queueVars, tracker, stageVars, event, lost, opc, after, point,
                    lastAcked, shutdown, drainer, crashes>>
    BY <1>22 DEF CloseOutput
  <2> QED
    BY <2>1, <2>2, <2>3, <2>4, <2>5, <2>6
<1>23. CASE Shutdown
  BY <1>23 DEF Shutdown
<1>24. CASE Restart
  <2>1. filterLost' \in [Seqs -> BOOLEAN]
    BY <1>24, Zenon DEF Restart
  <2>2. owed' \in [Derived -> SUBSET Outputs] /\ inBuf' \in [Outputs -> SUBSET Derived]
    BY <1>24 DEF Restart
  <2>3. entry' \in [Seqs -> EntryStages] /\ event' \in [Derived -> EventStages]
    BY <1>24 DEF Restart, EntryStages, EventStages
  <2>4. fan' \in [Seqs -> 0 .. MaxFanout] /\ turn' \in 1 .. NumOutputs + 1
    BY <1>24 DEF Restart
  <2>5. tracker' \in AckState
    BY <1>24, NewFacts DEF Restart
  <2>6. /\ writeSeq' \in 0 .. MaxSeq /\ readSeq' \in 0 .. MaxSeq
        /\ ackSeq' \in 0 .. MaxSeq /\ cpAck' \in 0 .. MaxSeq
        /\ point' \in 0 .. MaxSeq /\ lastAcked' \in 0 .. MaxSeq
        /\ faults' \in Nat /\ crashes' \in Nat /\ lost' \subseteq Derived
    BY <1>24 DEF Restart
  <2>7. /\ opc' \in OutputStages /\ after' \in {"select", "ack", "close"}
        /\ drainer' \in {"running", "stopped"}
        /\ allDurable' \in BOOLEAN /\ shutdown' \in BOOLEAN
    BY <1>24, Zenon DEF Restart, OutputStages
  <2> QED
    BY <2>1, <2>2, <2>3, <2>4, <2>5, <2>6, <2>7
<1>25. CASE UNCHANGED vars
  BY <1>25 DEF vars
<1> HIDE DEF TypeOK
<1> QED
  BY <1>1, <1>2, <1>3, <1>4, <1>5, <1>6, <1>7, <1>8, <1>9, <1>10, <1>11, <1>12,
     <1>13, <1>14, <1>15, <1>16, <1>17, <1>18, <1>19, <1>20, <1>21, <1>22,
     <1>23, <1>24, <1>25
  DEF Next

\* The initial values are typed.
LEMMA InitType == Init => TypeOK
<1> SUFFICES ASSUME Init PROVE TypeOK
  OBVIOUS
<1> USE MaxSeqAssumption, PipelineAssumption
<1>1. filterLost \in [Seqs -> BOOLEAN]
  BY Zenon DEF Init
<1>2. owed \in [Derived -> SUBSET Outputs] /\ inBuf \in [Outputs -> SUBSET Derived]
  BY DEF Init
<1>3. entry \in [Seqs -> EntryStages] /\ event \in [Derived -> EventStages]
  BY DEF Init, EntryStages, EventStages
<1>4. fan \in [Seqs -> 0 .. MaxFanout] /\ turn \in 1 .. NumOutputs + 1
  BY DEF Init
<1>5. tracker \in AckState
  BY NewFacts DEF Init
<1>6. /\ writeSeq \in 0 .. MaxSeq /\ readSeq \in 0 .. MaxSeq
      /\ ackSeq \in 0 .. MaxSeq /\ cpAck \in 0 .. MaxSeq
      /\ point \in 0 .. MaxSeq /\ lastAcked \in 0 .. MaxSeq
      /\ faults \in Nat /\ crashes \in Nat /\ lost \subseteq Derived
  BY DEF Init
<1>7. /\ opc \in OutputStages /\ after \in {"select", "ack", "close"}
      /\ drainer \in {"running", "stopped"}
      /\ allDurable \in BOOLEAN /\ shutdown \in BOOLEAN
  BY Zenon DEF Init, OutputStages
<1> QED
  BY <1>1, <1>2, <1>3, <1>4, <1>5, <1>6, <1>7 DEF TypeOK

\* Type correctness of the pipeline's accounting (AckState, the queue cursors and
\* the stages of run_pq_drainer, run_filter_worker and run_outputs).
THEOREM TypeCorrect == Spec => []TypeOK
BY InitType, TypeStep, PTL DEF Spec

-----------------------------------------------------------------------------
(* The inductive invariant.                                                *)

Single == {"registered", "filter", "filtered", "blocked"}
InHand == Single \cup {"fanned"}

\* The derived events of s that are not yet complete.
Open(s) == {i \in 1 .. fan[s] : event[<<s, i>>] # "done"}

\* Nothing of s is in flight or lost.
Done(s) ==
  /\ entry[s] = "fanned" /\ ~filterLost[s]
  /\ \A i \in 1 .. fan[s] : event[<<s, i>>] = "done"

\* The cursors: at or above the checkpoint, exactly the entries below the pop
\* cursor have been popped, and the one just popped is the last.
CursorInv ==
  /\ cpAck <= ackSeq /\ ackSeq <= readSeq /\ readSeq <= writeSeq
  /\ \A s \in Seqs : readSeq <= s => entry[s] = "queued"
  /\ \A s \in Seqs : cpAck <= s /\ s < readSeq => entry[s] # "queued"
  /\ \A s \in Seqs : entry[s] = "popped" => s = readSeq - 1

\* The tracker counts the events of every entry in the pipeline's hands.
Counted(s) ==
  /\ entry[s] \in {"queued", "popped"} => tracker.outstanding[s] = 0
  /\ entry[s] \in Single => tracker.outstanding[s] = 1
  /\ entry[s] = "fanned" => tracker.outstanding[s] = Cardinality(Open(s))

CountInv == \A s \in Seqs : Counted(s)

\* The highest registered sequence is the highest in the pipeline's hands.
HighInv == tracker.highest # None => entry[tracker.highest] \in InHand

\* An entry that lost an event while filtering pins the ack point.
BlockInv ==
  /\ tracker.minBlocked # None => entry[tracker.minBlocked] \in {"blocked", "fanned"}
  /\ \A s \in Seqs :
       filterLost[s] /\ entry[s] \in {"blocked", "fanned"} =>
         tracker.minBlocked # None /\ tracker.minBlocked <= s

\* Only a fanned-out entry has derived events.
EventInv ==
  \A d \in Derived :
    event[d] # "none" => entry[d[1]] = "fanned" /\ d[2] <= fan[d[1]]

\* A completed event is durable at every output it matches, or sits in the
\* output's buffer; an event of the batch is so for the outputs already tried.
BufferInv ==
  /\ \A d \in Derived :
       event[d] = "done" => \A o \in owed[d] : d \in inBuf[o]
  /\ opc = "send" =>
       \A d \in Batch, o \in Outputs :
         o < turn /\ o \in owed[d] => d \in lost \/ d \in inBuf[o]

\* What was acknowledged in memory is terminal.
AckedInv == \A s \in Seqs : cpAck <= s /\ s < ackSeq => Terminal(s)

\* During flush_and_ack the entries below its ack point are done, and the outputs
\* already flushed owe nothing of them.
FlushInv ==
  opc = "flush" =>
    /\ point <= readSeq
    /\ \A s \in Seqs : cpAck <= s /\ s < point =>
         /\ Done(s)
         /\ \A i \in 1 .. fan[s], o \in Outputs : o \in owed[<<s, i>>] => turn <= o

\* While the outputs are closed without an error, the ones already closed owe
\* nothing of a completed event.
CloseInv ==
  opc = "close" /\ allDurable =>
    \A d \in Derived, o \in Outputs :
      event[d] = "done" /\ o \in owed[d] => turn <= o

IInv ==
  /\ TypeOK /\ CursorInv /\ CountInv /\ HighInv /\ BlockInv /\ EventInv
  /\ BufferInv /\ AckedInv /\ FlushInv /\ CloseInv

-----------------------------------------------------------------------------
(* Consequences of the invariant.                                          *)

\* The open events of an entry are finite in number, and none is open when the
\* count is 0.
LEMMA OpenFinite ==
  ASSUME TypeOK, NEW s \in Seqs
  PROVE  /\ IsFiniteSet(Open(s)) /\ Cardinality(Open(s)) \in Nat
         /\ Cardinality(Open(s)) = 0 => \A i \in 1 .. fan[s] : event[<<s, i>>] = "done"
<1>1. fan[s] \in Nat
  BY PipelineAssumption DEF TypeOK
<1>2. IsFiniteSet(1 .. fan[s])
  BY <1>1, FS_Interval
<1>3. IsFiniteSet(Open(s))
  BY <1>2, FS_Subset DEF Open
<1>4. Cardinality(Open(s)) \in Nat
  BY <1>3, FS_CardinalityType
<1>5. Cardinality(Open(s)) = 0 => Open(s) = {}
  BY <1>3, FS_EmptySet
<1> QED
  BY <1>3, <1>4, <1>5 DEF Open

\* The ack point never passes the pop cursor, and every entry between the durable
\* cursor and the ack point is done.
LEMMA AckPointDone ==
  ASSUME IInv, ack_point(tracker) # None
  PROVE  /\ ack_point(tracker) \in 0 .. MaxSeq /\ ack_point(tracker) <= readSeq
         /\ \A s \in Seqs : cpAck <= s /\ s < ack_point(tracker) => Done(s)
<1> USE MaxSeqAssumption, NoneAssumption
<1> DEFINE p == ack_point(tracker)
<1>1. tracker \in AckState /\ readSeq \in Nat /\ cpAck \in Nat
  BY DEF IInv, TypeOK
<1>2. /\ p \in 0 .. MaxSeq
      /\ \A s \in Seqs : s < p =>
           /\ tracker.outstanding[s] = 0
           /\ tracker.minBlocked # None => s < tracker.minBlocked
      /\ \/ p \in Seqs /\ tracker.outstanding[p] > 0
         \/ p = tracker.minBlocked
         \/ tracker.highest # None /\ p = tracker.highest + 1
  BY <1>1, AckPointFacts
<1>3. /\ \A s \in Seqs : tracker.outstanding[s] \in Nat
      /\ tracker.minBlocked \in Seqs \cup {None}
      /\ tracker.highest \in Seqs \cup {None}
  BY <1>1 DEF AckState
<1>4. Seqs \subseteq Nat /\ p # None
  BY DEF Seqs
<1>5. entry \in [Seqs -> EntryStages]
  BY DEF IInv, TypeOK
<1> HIDE DEF p
<1>6. ASSUME NEW s \in Seqs, entry[s] \notin {"queued", "popped"} PROVE s < readSeq
  BY <1>1, <1>4, <1>6 DEF IInv, CursorInv
<1>7. \/ p \in Seqs /\ p < readSeq
      \/ tracker.highest \in Seqs /\ p = tracker.highest + 1 /\ p <= readSeq
           /\ entry[tracker.highest] \in InHand
  <2>1. CASE p \in Seqs /\ tracker.outstanding[p] > 0
    <3>1. entry[p] \notin {"queued", "popped"}
      BY <2>1 DEF IInv, CountInv, Counted
    <3> QED
      BY <3>1, <2>1, <1>6
  <2>2. CASE p = tracker.minBlocked
    <3>1. p \in Seqs /\ entry[p] \in {"blocked", "fanned"}
      BY <2>2, <1>3, <1>4 DEF IInv, BlockInv
    <3> QED
      BY <3>1, <1>6
  <2>3. CASE tracker.highest # None /\ p = tracker.highest + 1
    <3>1. tracker.highest \in Seqs /\ entry[tracker.highest] \in InHand
      BY <2>3, <1>3 DEF IInv, HighInv
    <3>2. tracker.highest < readSeq
      BY <3>1, <1>6 DEF InHand, Single
    <3>3. tracker.highest \in Nat
      BY <3>1, <1>4
    <3>4. p <= readSeq
      BY <2>3, <3>2, <3>3, <1>1
    <3> QED
      BY <2>3, <3>1, <3>4
  <2> QED
    BY <1>2, <2>1, <2>2, <2>3
<1>8. p \in Nat /\ p <= readSeq
  BY <1>2, <1>7, <1>1
<1>9. ASSUME NEW s \in Seqs, cpAck <= s, s < p PROVE Done(s)
  <2>1. s < readSeq
    BY <1>9, <1>8, <1>1, <1>4
  <2>2. entry[s] # "queued"
    BY <1>9, <2>1 DEF IInv, CursorInv
  <2>3. tracker.outstanding[s] = 0
    BY <1>9, <1>2
  <2>4. entry[s] \notin Single
    BY <2>3 DEF IInv, CountInv, Counted
  <2>5. entry[s] # "popped"
    <3>1. SUFFICES ASSUME entry[s] = "popped" PROVE FALSE
      OBVIOUS
    <3>2. s = readSeq - 1
      BY <3>1 DEF IInv, CursorInv
    <3>3. p = s + 1 /\ ~ (p < readSeq)
      BY <3>2, <1>9, <1>8, <1>1, <1>4
    <3>4. tracker.highest \in Nat /\ p = tracker.highest + 1 /\ s \in Nat
      BY <3>3, <1>7, <1>4
    <3>5. tracker.highest = s
      BY <3>3, <3>4
    <3> QED
      BY <3>1, <3>3, <3>5, <1>7 DEF InHand, Single
  <2>6. entry[s] = "fanned"
    BY <2>2, <2>4, <2>5, <1>5 DEF EntryStages, Single
  <2>7. Cardinality(Open(s)) = 0
    BY <2>6, <2>3 DEF IInv, CountInv, Counted
  <2>8. \A i \in 1 .. fan[s] : event[<<s, i>>] = "done"
    BY <2>7, OpenFinite DEF IInv
  <2>9. ~ filterLost[s]
    <3>1. SUFFICES ASSUME filterLost[s] PROVE FALSE
      OBVIOUS
    <3>2. tracker.minBlocked # None /\ tracker.minBlocked <= s
      BY <3>1, <2>6 DEF IInv, BlockInv
    <3>3. s < tracker.minBlocked /\ tracker.minBlocked \in Seqs
      BY <3>2, <1>9, <1>2, <1>3
    <3>4. s \in Nat /\ tracker.minBlocked \in Nat
      BY <3>3, <1>4
    <3> QED
      BY <3>2, <3>3, <3>4
  <2> QED
    BY <2>6, <2>8, <2>9 DEF Done
<1> QED
  BY <1>2, <1>8, <1>9 DEF p

\* When flush_and_ack has flushed the last output, every entry below its ack point
\* is terminal.
LEMMA FlushedTerminal ==
  ASSUME IInv, opc = "flush", turn > NumOutputs
  PROVE  /\ point \in 0 .. MaxSeq /\ point <= readSeq
         /\ \A s \in Seqs : cpAck <= s /\ s < point => Terminal(s)
<1>1. turn \in Nat /\ NumOutputs \in Nat /\ point \in 0 .. MaxSeq /\ MaxFanout \in Nat
  BY PipelineAssumption DEF IInv, TypeOK
<1>2. ASSUME NEW s \in Seqs, cpAck <= s, s < point PROVE Terminal(s)
  <2>1. Done(s) /\ \A i \in 1 .. fan[s], o \in Outputs : o \in owed[<<s, i>>] => turn <= o
    BY <1>2 DEF IInv, FlushInv
  <2>2. ASSUME NEW i \in 1 .. fan[s] PROVE owed[<<s, i>>] = {}
    <3>1. <<s, i>> \in Derived
      BY <1>1 DEF IInv, TypeOK, Derived
    <3>2. owed[<<s, i>>] \subseteq Outputs
      BY <3>1 DEF IInv, TypeOK
    <3>3. \A o \in Outputs : ~ (turn <= o)
      BY <1>1 DEF Outputs
    <3> QED
      BY <2>1, <3>2, <3>3
  <2> QED
    BY <2>1, <2>2 DEF Done, Terminal
<1> QED
  BY <1>1, <1>2 DEF IInv, FlushInv

\* When every output was flushed and closed without an error, every entry below
\* the final ack point is terminal.
LEMMA ClosedTerminal ==
  ASSUME IInv, opc = "close", turn > NumOutputs, allDurable,
         ack_point(tracker) # None
  PROVE  /\ ack_point(tracker) \in 0 .. MaxSeq /\ ack_point(tracker) <= readSeq
         /\ \A s \in Seqs : cpAck <= s /\ s < ack_point(tracker) => Terminal(s)
<1>1. turn \in Nat /\ NumOutputs \in Nat /\ MaxFanout \in Nat
  BY PipelineAssumption DEF IInv, TypeOK
<1>2. ASSUME NEW s \in Seqs, cpAck <= s, s < ack_point(tracker) PROVE Terminal(s)
  <2>1. Done(s)
    BY <1>2, AckPointDone
  <2>2. ASSUME NEW i \in 1 .. fan[s] PROVE owed[<<s, i>>] = {}
    <3>1. <<s, i>> \in Derived
      BY <1>1 DEF IInv, TypeOK, Derived
    <3>2. owed[<<s, i>>] \subseteq Outputs
      BY <3>1 DEF IInv, TypeOK
    <3>3. \A o \in Outputs : ~ (turn <= o)
      BY <1>1 DEF Outputs
    <3>4. event[<<s, i>>] = "done"
      BY <2>1 DEF Done
    <3> QED
      BY <3>1, <3>2, <3>3, <3>4 DEF IInv, CloseInv
  <2> QED
    BY <2>1, <2>2 DEF Done, Terminal
<1> QED
  BY <1>2, AckPointDone

-----------------------------------------------------------------------------
(* Preservation, one conjunct of the invariant at a time.                  *)

\* PersistentQueue::ack with a point that does not pass the pop cursor leaves that
\* cursor where it is.
LEMMA PqAckFacts ==
  ASSUME TypeOK, CursorInv, NEW p \in 0 .. MaxSeq, p <= readSeq, NEW r, PqAck(p, r)
  PROVE  /\ UNCHANGED <<writeSeq, readSeq>>
         /\ ackSeq' = Larger(ackSeq, p) /\ cpAck' \in {cpAck, ackSeq'}
         /\ cpAck <= cpAck' /\ cpAck' <= ackSeq' /\ ackSeq' <= readSeq
BY MaxSeqAssumption DEF TypeOK, CursorInv, PqAck, Larger

\* The entries keep their cursors' order.
LEMMA CursorStep == ASSUME IInv, [Next]_vars PROVE CursorInv'
<1> USE MaxSeqAssumption, NoneAssumption
<1> USE DEF CursorInv, queueVars, stageVars, eventVars, outputVars, envVars
<1>0. /\ TypeOK /\ CursorInv
      /\ writeSeq \in Nat /\ readSeq \in Nat /\ ackSeq \in Nat /\ cpAck \in Nat
      /\ Seqs \subseteq Nat /\ entry \in [Seqs -> EntryStages]
  BY DEF IInv, TypeOK, Seqs
<1>1. ASSUME NEW c \in BOOLEAN, Push(c) \/ DrainerStop(c) PROVE CursorInv'
  BY <1>0, <1>1 DEF Push, DrainerStop
<1>2. CASE DrainerPop
  <2>1. readSeq \in Seqs
    BY <1>0, <1>2 DEF DrainerPop, TypeOK, Seqs
  <2>2. \A s \in Seqs : entry[s] # "popped"
    BY <1>2 DEF DrainerPop, DrainerBusy
  <2> QED
    BY <1>0, <1>2, <2>1, <2>2 DEF DrainerPop
<1>3. ASSUME NEW s \in Seqs, NEW stage \in {"registered", "filter", "filtered", "blocked", "fanned"},
             entry[s] # "queued", entry' = [entry EXCEPT ![s] = stage],
             UNCHANGED queueVars
      PROVE  CursorInv'
  BY <1>0, <1>3
<1>4. ASSUME NEW s \in Seqs, DrainerRegister(s) \/ DrainerSend(s) \/ WorkerBlock(s)
      PROVE CursorInv'
  BY <1>3, <1>4 DEF DrainerRegister, DrainerSend, WorkerBlock
<1>5. ASSUME NEW s \in Seqs, NEW k \in 0 .. MaxFanout, NEW f \in BOOLEAN,
             NEW c \in BOOLEAN, FilterChain(s, k, f, c)
      PROVE  CursorInv'
  BY <1>3, <1>5 DEF FilterChain
<1>6. ASSUME NEW s \in Seqs, NEW m \in [1 .. fan[s] -> SUBSET Outputs],
             WorkerFanout(s, m)
      PROVE  CursorInv'
  BY <1>3, <1>6 DEF WorkerFanout
<1>7. ASSUME NEW p \in 0 .. MaxSeq, p <= readSeq, NEW r, PqAck(p, r), entry' = entry
      PROVE  CursorInv'
  <2>1. /\ UNCHANGED <<writeSeq, readSeq, entry>>
        /\ cpAck <= cpAck' /\ cpAck' <= ackSeq' /\ ackSeq' <= readSeq
        /\ cpAck' \in {cpAck, ackSeq'}
    BY <1>0, <1>7, PqAckFacts
  <2>2. ackSeq' \in Nat
    BY <1>0, <1>7 DEF PqAck, Larger
  <2> QED
    BY <1>0, <2>1, <2>2
<1>8. ASSUME NEW r \in Results, FlushDone(r) PROVE CursorInv'
  <2>1. opc = "flush" /\ turn > NumOutputs /\ PqAck(point, r) /\ entry' = entry
    BY <1>8 DEF FlushDone
  <2> QED
    BY <2>1, <1>7, FlushedTerminal
<1>9. ASSUME NEW r \in Results, FinalAck(r) PROVE CursorInv'
  <2>1. CASE allDurable /\ ack_point(tracker) # None /\ PqAck(ack_point(tracker), r)
    <3>1. entry' = entry
      BY <1>9 DEF FinalAck
    <3> QED
      BY <2>1, <3>1, <1>7, AckPointDone
  <2>2. CASE UNCHANGED queueVars
    <3>1. UNCHANGED <<queueVars, entry>>
      BY <1>9, <2>2 DEF FinalAck
    <3> QED
      BY <1>0, <3>1
  <2> QED
    BY <1>9, <2>1, <2>2 DEF FinalAck
<1>10. CASE Restart
  BY <1>0, <1>10 DEF Restart
<1>11. ASSUME UNCHANGED <<queueVars, entry>> PROVE CursorInv'
  BY <1>0, <1>11
<1>12. ASSUME NEW d \in Derived, WorkerSend(d) \/ OutputRecv(d) \/ Complete(d)
       PROVE  CursorInv'
  BY <1>11, <1>12 DEF WorkerSend, OutputRecv, Complete
<1>13. ASSUME \/ FlushTick \/ OutputClosed \/ SendDone \/ AckStart \/ FlushOk \/ FlushErr
              \/ Shutdown \/ UNCHANGED vars
       PROVE  CursorInv'
  BY <1>11, <1>13 DEF FlushTick, OutputClosed, SendDone, AckStart, FlushOk, FlushErr,
     Shutdown, vars
<1>14. ASSUME NEW u \in BOOLEAN, OutputOk(u) PROVE CursorInv'
  BY <1>11, <1>14 DEF OutputOk
<1>15. ASSUME NEW C \in SUBSET Batch, OutputErr(C) PROVE CursorInv'
  BY <1>11, <1>15 DEF OutputErr
<1>16. ASSUME NEW ok \in BOOLEAN, NEW dr \in BOOLEAN, CloseOutput(ok, dr)
       PROVE  CursorInv'
  BY <1>11, <1>16 DEF CloseOutput
<1> QED
  BY <1>1, <1>2, <1>4, <1>5, <1>6, <1>8, <1>9, <1>10, <1>12, <1>13, <1>14, <1>15,
     <1>16
  DEF Next

\* Only fanned-out entries keep having events.
LEMMA EventStep == ASSUME IInv, [Next]_vars PROVE EventInv'
<1> USE MaxSeqAssumption, PipelineAssumption
<1> USE DEF EventInv, queueVars, stageVars, eventVars, outputVars, envVars
<1>0. /\ EventInv
      /\ entry \in [Seqs -> EntryStages] /\ fan \in [Seqs -> 0 .. MaxFanout]
      /\ event \in [Derived -> EventStages]
      /\ \A d \in Derived : d[1] \in Seqs /\ d[2] \in Nat
  BY DEF IInv, TypeOK, Derived
<1>1. ASSUME NEW s \in Seqs, entry[s] # "fanned", event' = event,
             \A r \in Seqs : r # s => entry'[r] = entry[r] /\ fan'[r] = fan[r]
      PROVE  EventInv'
  BY <1>0, <1>1
<1>2. CASE DrainerPop
  <2>1. readSeq \in Seqs /\ entry[readSeq] # "fanned"
    BY <1>2 DEF DrainerPop, IInv, TypeOK, CursorInv, Seqs
  <2> QED
    BY <1>0, <1>1, <1>2, <2>1 DEF DrainerPop
<1>3. ASSUME NEW s \in Seqs, DrainerRegister(s) \/ DrainerSend(s) \/ WorkerBlock(s)
      PROVE  EventInv'
  BY <1>0, <1>1, <1>3 DEF DrainerRegister, DrainerSend, WorkerBlock
<1>4. ASSUME NEW s \in Seqs, NEW k \in 0 .. MaxFanout, NEW f \in BOOLEAN,
             NEW c \in BOOLEAN, FilterChain(s, k, f, c)
      PROVE  EventInv'
  BY <1>0, <1>1, <1>4 DEF FilterChain
<1>5. ASSUME NEW s \in Seqs, NEW m \in [1 .. fan[s] -> SUBSET Outputs],
             WorkerFanout(s, m)
      PROVE  EventInv'
  BY <1>0, <1>5 DEF WorkerFanout
<1>6. ASSUME NEW d \in Derived, NEW stage, event[d] # "none",
             event' = [event EXCEPT ![d] = stage], UNCHANGED <<entry, fan>>
      PROVE  EventInv'
  BY <1>0, <1>6
<1>7. ASSUME NEW d \in Derived, WorkerSend(d) \/ OutputRecv(d) \/ Complete(d)
      PROVE  EventInv'
  BY <1>6, <1>7 DEF WorkerSend, OutputRecv, Complete
<1>8. CASE Restart
  BY <1>8 DEF Restart
<1>9. ASSUME UNCHANGED <<entry, fan, event>> PROVE EventInv'
  BY <1>0, <1>9
<1>10. ASSUME NEW c \in BOOLEAN, Push(c) \/ DrainerStop(c) PROVE EventInv'
  BY <1>9, <1>10 DEF Push, DrainerStop
<1>11. ASSUME \/ FlushTick \/ OutputClosed \/ SendDone \/ AckStart \/ FlushOk \/ FlushErr
              \/ Shutdown \/ UNCHANGED vars
       PROVE  EventInv'
  BY <1>9, <1>11 DEF FlushTick, OutputClosed, SendDone, AckStart, FlushOk, FlushErr,
     Shutdown, vars
<1>12. ASSUME NEW u \in BOOLEAN, OutputOk(u) PROVE EventInv'
  BY <1>9, <1>12 DEF OutputOk
<1>13. ASSUME NEW C \in SUBSET Batch, OutputErr(C) PROVE EventInv'
  BY <1>9, <1>13 DEF OutputErr
<1>14. ASSUME NEW ok \in BOOLEAN, NEW dr \in BOOLEAN, CloseOutput(ok, dr)
       PROVE  EventInv'
  BY <1>9, <1>14 DEF CloseOutput
<1>15. ASSUME NEW r \in Results, FlushDone(r) \/ FinalAck(r) PROVE EventInv'
  BY <1>9, <1>15 DEF FlushDone, FinalAck
<1> QED
  BY <1>2, <1>3, <1>4, <1>5, <1>7, <1>8, <1>10, <1>11, <1>12, <1>13, <1>14, <1>15
  DEF Next

\* An entry that lost an event stays under the blocked minimum.
LEMMA BlockStep == ASSUME IInv, [Next]_vars PROVE BlockInv'
<1> USE MaxSeqAssumption, NoneAssumption
<1> USE DEF BlockInv, queueVars, stageVars, eventVars, outputVars, envVars
<1>0. /\ BlockInv /\ tracker \in AckState
      /\ entry \in [Seqs -> EntryStages] /\ filterLost \in [Seqs -> BOOLEAN]
      /\ tracker.minBlocked \in Seqs \cup {None} /\ Seqs \subseteq Nat
  BY DEF IInv, TypeOK, AckState, Seqs
<1>1. ASSUME NEW s \in Seqs, entry[s] \notin {"blocked", "fanned"},
             entry'[s] \notin {"blocked", "fanned"},
             tracker'.minBlocked = tracker.minBlocked,
             \A r \in Seqs : r # s => entry'[r] = entry[r] /\ filterLost'[r] = filterLost[r]
      PROVE  BlockInv'
  <2>1. tracker.minBlocked # None => tracker.minBlocked \in Seqs /\ tracker.minBlocked # s
    BY <1>0, <1>1
  <2>2. tracker'.minBlocked # None => entry'[tracker'.minBlocked] \in {"blocked", "fanned"}
    BY <1>0, <1>1, <2>1
  <2>3. ASSUME NEW r \in Seqs, filterLost'[r], entry'[r] \in {"blocked", "fanned"}
        PROVE  tracker'.minBlocked # None /\ tracker'.minBlocked <= r
    <3>1. r # s
      BY <1>1, <2>3
    <3>2. filterLost[r] /\ entry[r] \in {"blocked", "fanned"}
      BY <1>1, <2>3, <3>1
    <3> QED
      BY <1>0, <1>1, <3>2
  <2> QED
    BY <2>2, <2>3
<1>2. CASE DrainerPop
  <2>1. readSeq \in Seqs /\ entry[readSeq] = "queued"
    BY <1>2 DEF DrainerPop, IInv, TypeOK, CursorInv, Seqs
  <2> QED
    BY <1>0, <1>1, <1>2, <2>1 DEF DrainerPop
<1>3. ASSUME NEW s \in Seqs, DrainerRegister(s) \/ DrainerSend(s)
      PROVE  BlockInv'
  <2>0. register(tracker, s).minBlocked = tracker.minBlocked
    BY <1>0, RegisterFacts
  <2>1. tracker'.minBlocked = tracker.minBlocked
    BY <1>3, <2>0 DEF DrainerRegister, DrainerSend
  <2> QED
    BY <1>0, <1>1, <1>3, <2>1 DEF DrainerRegister, DrainerSend
<1>4. ASSUME NEW s \in Seqs, NEW k \in 0 .. MaxFanout, NEW f \in BOOLEAN,
             NEW c \in BOOLEAN, FilterChain(s, k, f, c)
      PROVE  BlockInv'
  <2>1. /\ entry[s] = "filter" /\ entry'[s] = "filtered" /\ tracker' = tracker
        /\ \A r \in Seqs : r # s => entry'[r] = entry[r]
    BY <1>0, <1>4 DEF FilterChain
  <2>2. \A r \in Seqs : r # s => filterLost'[r] = filterLost[r]
    BY <1>0, <1>4, Zenon DEF FilterChain
  <2> QED
    BY <1>1, <2>1, <2>2
<1>5. ASSUME NEW s \in Seqs, WorkerBlock(s) PROVE BlockInv'
  <2>1. /\ entry' = [entry EXCEPT ![s] = "blocked"] /\ filterLost' = filterLost
        /\ entry[s] = "filtered"
    BY <1>5 DEF WorkerBlock
  <2>2. CASE ~ filterLost[s]
    <3>1. tracker' = tracker
      BY <1>5, <2>2 DEF WorkerBlock
    <3>2. tracker.minBlocked # None => tracker.minBlocked \in Seqs /\ tracker.minBlocked # s
      BY <1>0, <2>1
    <3> QED
      BY <1>0, <2>1, <2>2, <3>1, <3>2
  <2>3. CASE filterLost[s]
    <3>1. tracker'.minBlocked =
            IF tracker.minBlocked = None \/ s < tracker.minBlocked
              THEN s ELSE tracker.minBlocked
      BY <1>0, <1>5, <2>3, BlockFacts DEF WorkerBlock
    <3>a. s \in Nat /\ (tracker.minBlocked # None =>
                         tracker.minBlocked \in Seqs /\ tracker.minBlocked \in Nat)
      BY <1>0
    <3>2. /\ tracker'.minBlocked \in Seqs /\ tracker'.minBlocked <= s
          /\ tracker'.minBlocked # None
          /\ tracker.minBlocked # None => tracker'.minBlocked <= tracker.minBlocked
      <4>1. CASE tracker.minBlocked = None
        BY <3>1, <3>a, <4>1
      <4>2. CASE tracker.minBlocked # None /\ s < tracker.minBlocked
        BY <3>1, <3>a, <4>2
      <4>3. CASE tracker.minBlocked # None /\ ~ (s < tracker.minBlocked)
        BY <3>1, <3>a, <4>3
      <4> QED
        BY <4>1, <4>2, <4>3
    <3>3. tracker'.minBlocked = s \/ tracker'.minBlocked = tracker.minBlocked
      BY <3>1
    <3>4. entry'[tracker'.minBlocked] \in {"blocked", "fanned"}
      BY <1>0, <2>1, <3>2, <3>3
    <3>5. ASSUME NEW r \in Seqs, filterLost'[r], entry'[r] \in {"blocked", "fanned"}
          PROVE  tracker'.minBlocked <= r
      <4>1. CASE r = s
        BY <3>2, <4>1
      <4>2. CASE r # s
        <5>1. filterLost[r] /\ entry[r] \in {"blocked", "fanned"}
          BY <1>0, <2>1, <3>5, <4>2
        <5>2. tracker.minBlocked \in Nat /\ tracker.minBlocked # None /\ tracker.minBlocked <= r
          BY <1>0, <5>1
        <5>3. r \in Nat /\ tracker'.minBlocked \in Nat
          BY <1>0, <3>2
        <5> QED
          BY <3>2, <5>2, <5>3
      <4> QED
        BY <4>1, <4>2
    <3> QED
      BY <3>2, <3>4, <3>5
  <2> QED
    BY <2>2, <2>3
<1>6. ASSUME NEW s \in Seqs, NEW m \in [1 .. fan[s] -> SUBSET Outputs],
             WorkerFanout(s, m)
      PROVE  BlockInv'
  <2>1. fan[s] \in Nat
    BY PipelineAssumption DEF IInv, TypeOK
  <2>5. set_fanout(tracker, s, fan[s]).minBlocked = tracker.minBlocked
    BY <1>0, <2>1, FanoutKeeps
  <2>2. tracker'.minBlocked = tracker.minBlocked
    BY <1>6, <2>5 DEF WorkerFanout
  <2>3. /\ entry' = [entry EXCEPT ![s] = "fanned"] /\ filterLost' = filterLost
        /\ entry[s] = "blocked"
    BY <1>6 DEF WorkerFanout
  <2> QED
    BY <1>0, <2>2, <2>3
<1>7. CASE Restart
  BY <1>7, NewFacts DEF Restart
<1>8. ASSUME tracker'.minBlocked = tracker.minBlocked, UNCHANGED <<entry, filterLost>>
      PROVE  BlockInv'
  BY <1>0, <1>8
<1>9. ASSUME NEW c \in BOOLEAN, Push(c) \/ DrainerStop(c) PROVE BlockInv'
  BY <1>8, <1>9 DEF Push, DrainerStop
<1>10. ASSUME NEW d \in Derived, WorkerSend(d) \/ OutputRecv(d) PROVE BlockInv'
  BY <1>8, <1>10 DEF WorkerSend, OutputRecv
<1>11. ASSUME NEW d \in Derived, Complete(d) PROVE BlockInv'
  <2>1. d[1] \in Seqs
    BY DEF Derived
  <2>2. tracker'.minBlocked = tracker.minBlocked
    <3>1. complete(tracker, d[1]).minBlocked = tracker.minBlocked
      BY <1>0, <2>1, CompleteFacts
    <3> QED
      BY <1>11, <3>1 DEF Complete
  <2> QED
    BY <1>8, <1>11, <2>2 DEF Complete
<1>12. ASSUME \/ FlushTick \/ OutputClosed \/ SendDone \/ AckStart \/ FlushOk \/ FlushErr
              \/ Shutdown \/ UNCHANGED vars
       PROVE  BlockInv'
  BY <1>8, <1>12 DEF FlushTick, OutputClosed, SendDone, AckStart, FlushOk, FlushErr,
     Shutdown, vars
<1>13. ASSUME NEW u \in BOOLEAN, OutputOk(u) PROVE BlockInv'
  BY <1>8, <1>13 DEF OutputOk
<1>14. ASSUME NEW C \in SUBSET Batch, OutputErr(C) PROVE BlockInv'
  BY <1>8, <1>14 DEF OutputErr
<1>15. ASSUME NEW ok \in BOOLEAN, NEW dr \in BOOLEAN, CloseOutput(ok, dr)
       PROVE  BlockInv'
  BY <1>8, <1>15 DEF CloseOutput
<1>16. ASSUME NEW r \in Results, FlushDone(r) \/ FinalAck(r) PROVE BlockInv'
  BY <1>8, <1>16 DEF FlushDone, FinalAck
<1> QED
  BY <1>2, <1>3, <1>4, <1>5, <1>6, <1>7, <1>9, <1>10, <1>11, <1>12, <1>13, <1>14,
     <1>15, <1>16
  DEF Next

\* The highest registered sequence stays in the pipeline's hands.
LEMMA HighStep == ASSUME IInv, [Next]_vars PROVE HighInv'
<1> USE MaxSeqAssumption, NoneAssumption
<1> USE DEF HighInv, queueVars, stageVars, eventVars, outputVars, envVars
<1>0. /\ HighInv /\ tracker \in AckState /\ tracker.highest \in Seqs \cup {None}
      /\ entry \in [Seqs -> EntryStages]
  BY DEF IInv, TypeOK, AckState
<1>1. ASSUME tracker'.highest = tracker.highest,
             \A r \in Seqs : entry[r] \in InHand => entry'[r] \in InHand
      PROVE  HighInv'
  BY <1>0, <1>1
<1>2. CASE DrainerPop
  <2>1. readSeq \in Seqs /\ entry[readSeq] = "queued"
    BY <1>2 DEF DrainerPop, IInv, TypeOK, CursorInv, Seqs
  <2> QED
    BY <1>0, <1>1, <1>2, <2>1 DEF DrainerPop, InHand, Single
<1>3. ASSUME NEW s \in Seqs, DrainerRegister(s) PROVE HighInv'
  <2>1. register(tracker, s).highest \in {s, tracker.highest}
    BY <1>0, RegisterFacts
  <2>2. tracker'.highest \in {s, tracker.highest}
    BY <1>3, <2>1 DEF DrainerRegister
  <2>3. entry' = [entry EXCEPT ![s] = "registered"]
    BY <1>3 DEF DrainerRegister
  <2> QED
    BY <1>0, <2>2, <2>3 DEF InHand, Single
<1>4. ASSUME NEW s \in Seqs, DrainerSend(s) PROVE HighInv'
  BY <1>0, <1>1, <1>4 DEF DrainerSend, InHand, Single
<1>5. ASSUME NEW s \in Seqs, WorkerBlock(s) PROVE HighInv'
  <2>1. block(tracker, s).highest = tracker.highest
    BY <1>0, BlockFacts
  <2>2. tracker'.highest = tracker.highest
    BY <1>5, <2>1 DEF WorkerBlock
  <2> QED
    BY <1>0, <1>1, <1>5, <2>2 DEF WorkerBlock, InHand, Single
<1>6. ASSUME NEW s \in Seqs, NEW k \in 0 .. MaxFanout, NEW f \in BOOLEAN,
             NEW c \in BOOLEAN, FilterChain(s, k, f, c)
      PROVE  HighInv'
  BY <1>0, <1>1, <1>6 DEF FilterChain, InHand, Single
<1>7. ASSUME NEW s \in Seqs, NEW m \in [1 .. fan[s] -> SUBSET Outputs],
             WorkerFanout(s, m)
      PROVE  HighInv'
  <2>1. fan[s] \in Nat
    BY PipelineAssumption DEF IInv, TypeOK
  <2>2. set_fanout(tracker, s, fan[s]).highest = tracker.highest
    BY <1>0, <2>1, FanoutKeeps
  <2>3. tracker'.highest = tracker.highest
    BY <1>7, <2>2 DEF WorkerFanout
  <2> QED
    BY <1>0, <1>1, <1>7, <2>3 DEF WorkerFanout, InHand
<1>8. CASE Restart
  BY <1>8, NewFacts DEF Restart
<1>9. ASSUME NEW c \in BOOLEAN, Push(c) \/ DrainerStop(c) PROVE HighInv'
  BY <1>1, <1>9 DEF Push, DrainerStop
<1>10. ASSUME NEW d \in Derived, WorkerSend(d) \/ OutputRecv(d) PROVE HighInv'
  BY <1>1, <1>10 DEF WorkerSend, OutputRecv
<1>11. ASSUME NEW d \in Derived, Complete(d) PROVE HighInv'
  <2>1. d[1] \in Seqs
    BY DEF Derived
  <2>2. complete(tracker, d[1]).highest = tracker.highest
    BY <1>0, <2>1, CompleteFacts
  <2> QED
    BY <1>1, <1>11, <2>2 DEF Complete
<1>12. ASSUME \/ FlushTick \/ OutputClosed \/ SendDone \/ AckStart \/ FlushOk \/ FlushErr
              \/ Shutdown \/ UNCHANGED vars
       PROVE  HighInv'
  BY <1>1, <1>12 DEF FlushTick, OutputClosed, SendDone, AckStart, FlushOk, FlushErr,
     Shutdown, vars
<1>13. ASSUME NEW u \in BOOLEAN, OutputOk(u) PROVE HighInv'
  BY <1>1, <1>13 DEF OutputOk
<1>14. ASSUME NEW C \in SUBSET Batch, OutputErr(C) PROVE HighInv'
  BY <1>1, <1>14 DEF OutputErr
<1>15. ASSUME NEW ok \in BOOLEAN, NEW dr \in BOOLEAN, CloseOutput(ok, dr)
       PROVE  HighInv'
  BY <1>1, <1>15 DEF CloseOutput
<1>16. ASSUME NEW r \in Results, FlushDone(r) \/ FinalAck(r) PROVE HighInv'
  BY <1>1, <1>16 DEF FlushDone, FinalAck
<1> QED
  BY <1>2, <1>3, <1>4, <1>5, <1>6, <1>7, <1>8, <1>9, <1>10, <1>11, <1>12, <1>13,
     <1>14, <1>15, <1>16
  DEF Next

\* The tracker keeps counting the open events of every entry.
LEMMA CountStep == ASSUME IInv, [Next]_vars PROVE CountInv'
<1> USE MaxSeqAssumption, NoneAssumption
<1> USE DEF CountInv, queueVars, stageVars, eventVars, outputVars, envVars
<1>0. /\ CountInv /\ tracker \in AckState /\ tracker.outstanding \in [Seqs -> Nat]
      /\ entry \in [Seqs -> EntryStages] /\ fan \in [Seqs -> 0 .. MaxFanout]
      /\ event \in [Derived -> EventStages]
      /\ \A s \in Seqs : fan[s] \in Nat
      /\ \A s \in Seqs : \A i \in 1 .. fan[s] : <<s, i>> \in Derived
  BY PipelineAssumption DEF IInv, TypeOK, AckState, Derived
<1>1. ASSUME NEW r \in Seqs, entry'[r] = entry[r],
             tracker'.outstanding[r] = tracker.outstanding[r],
             entry[r] = "fanned" =>
               /\ fan'[r] = fan[r]
               /\ \A i \in 1 .. fan[r] :
                    event'[<<r, i>>] = "done" <=> event[<<r, i>>] = "done"
      PROVE  Counted(r)'
  <2>1. entry[r] = "fanned" => Open(r)' = Open(r)
    BY <1>1 DEF Open
  <2>2. Counted(r)
    BY <1>0
  <2> QED
    BY <1>1, <2>1, <2>2 DEF Counted
<1>2. ASSUME UNCHANGED <<entry, tracker, fan, event>> PROVE CountInv'
  BY <1>1, <1>2
<1>3. ASSUME NEW s \in Seqs, Counted(s)', UNCHANGED event,
             \A r \in Seqs : r # s =>
               /\ entry'[r] = entry[r] /\ fan'[r] = fan[r]
               /\ tracker'.outstanding[r] = tracker.outstanding[r]
      PROVE  CountInv'
  BY <1>1, <1>3
<1>4. CASE DrainerPop
  <2>1. PICK s \in Seqs : s = readSeq /\ entry[s] = "queued"
    BY <1>4 DEF DrainerPop, IInv, TypeOK, CursorInv, Seqs
  <2>2. /\ entry' = [entry EXCEPT ![s] = "popped"]
        /\ UNCHANGED <<tracker, fan, event>>
    BY <1>4, <2>1 DEF DrainerPop
  <2>3. Counted(s)'
    BY <1>0, <2>1, <2>2 DEF Counted, Single
  <2> QED
    BY <1>0, <1>3, <2>2, <2>3
<1>5. ASSUME NEW s \in Seqs, DrainerRegister(s) PROVE CountInv'
  <2>1. /\ entry' = [entry EXCEPT ![s] = "registered"]
        /\ tracker' = register(tracker, s) /\ UNCHANGED <<fan, event>>
    BY <1>5 DEF DrainerRegister
  <2>2. register(tracker, s).outstanding = [tracker.outstanding EXCEPT ![s] = 1]
    BY <1>0, RegisterFacts
  <2>3. tracker'.outstanding = [tracker.outstanding EXCEPT ![s] = 1]
    BY <2>1, <2>2
  <2>4. Counted(s)'
    BY <1>0, <2>1, <2>3 DEF Counted
  <2> QED
    BY <1>0, <1>3, <2>1, <2>3, <2>4
<1>6. ASSUME NEW s \in Seqs, DrainerSend(s) \/ WorkerBlock(s) PROVE CountInv'
  <2>1. /\ entry[s] \in Single /\ UNCHANGED <<fan, event>>
        /\ \E stage \in Single : entry' = [entry EXCEPT ![s] = stage]
    BY <1>6 DEF DrainerSend, WorkerBlock, Single
  <2>2. block(tracker, s).outstanding = tracker.outstanding
    BY <1>0, BlockFacts
  <2>3. tracker'.outstanding = tracker.outstanding
    BY <1>6, <2>2 DEF DrainerSend, WorkerBlock
  <2>4. Counted(s)'
    BY <1>0, <2>1, <2>3 DEF Counted, Single
  <2> QED
    BY <1>0, <1>3, <2>1, <2>3, <2>4
<1>7. ASSUME NEW s \in Seqs, NEW k \in 0 .. MaxFanout, NEW f \in BOOLEAN,
             NEW c \in BOOLEAN, FilterChain(s, k, f, c)
      PROVE  CountInv'
  <2>1. /\ entry[s] = "filter" /\ entry' = [entry EXCEPT ![s] = "filtered"]
        /\ fan' = [fan EXCEPT ![s] = k] /\ UNCHANGED <<tracker, event>>
    BY <1>7 DEF FilterChain
  <2>2. Counted(s)'
    BY <1>0, <2>1 DEF Counted, Single
  <2> QED
    BY <1>0, <1>3, <2>1, <2>2
<1>8. ASSUME NEW s \in Seqs, NEW m \in [1 .. fan[s] -> SUBSET Outputs],
             WorkerFanout(s, m)
      PROVE  CountInv'
  <2>1. /\ tracker' = set_fanout(tracker, s, fan[s]) /\ UNCHANGED fan
        /\ entry' = [entry EXCEPT ![s] = "fanned"]
        /\ event' = [d \in Derived |->
                       IF d[1] = s /\ d[2] <= fan[s] THEN "worker" ELSE event[d]]
    BY <1>8 DEF WorkerFanout
  <2>2. set_fanout(tracker, s, fan[s]).outstanding =
          [tracker.outstanding EXCEPT ![s] = fan[s]]
    BY <1>0, FanoutFacts
  <2>3. tracker'.outstanding = [tracker.outstanding EXCEPT ![s] = fan[s]]
    BY <2>1, <2>2
  <2>4. Counted(s)'
    <3>1. \A i \in 1 .. fan[s] : event'[<<s, i>>] = "worker"
      BY <1>0, <2>1
    <3>2. Open(s)' = 1 .. fan[s]
      BY <2>1, <3>1 DEF Open
    <3>3. Cardinality(1 .. fan[s]) = fan[s]
      BY <1>0, FS_Interval
    <3>4. tracker'.outstanding[s] = fan[s] /\ entry'[s] = "fanned"
      BY <1>0, <2>1, <2>3
    <3> QED
      BY <3>2, <3>3, <3>4 DEF Counted, Single
  <2>5. ASSUME NEW r \in Seqs, r # s PROVE Counted(r)'
    <3>1. \A i \in 1 .. fan[r] : event'[<<r, i>>] = event[<<r, i>>]
      BY <1>0, <2>1, <2>5
    <3>2. entry'[r] = entry[r] /\ tracker'.outstanding[r] = tracker.outstanding[r]
      BY <1>0, <2>1, <2>3, <2>5
    <3> QED
      BY <1>1, <2>1, <3>1, <3>2
  <2> QED
    BY <2>4, <2>5
<1>9. ASSUME NEW d \in Derived, WorkerSend(d) \/ OutputRecv(d) PROVE CountInv'
  <2>1. /\ event[d] # "done" /\ UNCHANGED <<entry, tracker, fan>>
        /\ \E stage : stage # "done" /\ event' = [event EXCEPT ![d] = stage]
    BY <1>9 DEF WorkerSend, OutputRecv
  <2>2. \A s \in Seqs : \A i \in 1 .. fan[s] :
          event'[<<s, i>>] = "done" <=> event[<<s, i>>] = "done"
    BY <1>0, <2>1
  <2> QED
    BY <1>1, <2>1, <2>2
<1>10. ASSUME NEW d \in Derived, Complete(d) PROVE CountInv'
  <2>1. PICK s \in Seqs, i \in 1 .. MaxFanout : d = <<s, i>>
    BY DEF Derived
  <2>2. /\ event[<<s, i>>] = "batch" /\ UNCHANGED <<entry, fan>>
        /\ <<s, i>> \in Derived
    BY <1>10, <2>1 DEF Complete
  <2>3. CASE d \in lost
    <3>1. tracker' = tracker /\ event' = [event EXCEPT ![<<s, i>>] = "lost"]
      BY <1>10, <2>1, <2>3 DEF Complete
    <3>2. \A r \in Seqs : \A j \in 1 .. fan[r] :
            event'[<<r, j>>] = "done" <=> event[<<r, j>>] = "done"
      BY <1>0, <2>2, <3>1
    <3> QED
      BY <1>1, <2>2, <3>1, <3>2
  <2>4. CASE d \notin lost
    <3>1. /\ tracker' = complete(tracker, s)
          /\ event' = [event EXCEPT ![<<s, i>>] = "done"]
      BY <1>10, <2>1, <2>4 DEF Complete
    <3>2. complete(tracker, s).outstanding =
            [tracker.outstanding EXCEPT ![s] =
               IF tracker.outstanding[s] > 0 THEN tracker.outstanding[s] - 1 ELSE 0]
      BY <1>0, CompleteFacts
    <3>3. ASSUME NEW r \in Seqs, r # s PROVE Counted(r)'
      <4>1. \A j \in 1 .. fan[r] : event'[<<r, j>>] = event[<<r, j>>]
        BY <1>0, <3>1, <3>3
      <4>2. tracker'.outstanding[r] = tracker.outstanding[r]
        BY <1>0, <3>1, <3>2, <3>3
      <4> QED
        BY <1>1, <2>2, <4>1, <4>2
    <3>4. Counted(s)'
      <4>1. entry[s] = "fanned" /\ i \in 1 .. fan[s]
        <5>1. entry[d[1]] = "fanned" /\ d[2] <= fan[d[1]]
          BY <2>1, <2>2 DEF IInv, EventInv
        <5> QED
          BY <1>0, <2>1, <5>1
      <4>2. i \in Open(s)
        BY <2>2, <4>1 DEF Open
      <4>3. Open(s)' = Open(s) \ {i}
        BY <1>0, <2>2, <3>1 DEF Open
      <4>4. IsFiniteSet(Open(s)) /\ Cardinality(Open(s)) \in Nat
        BY OpenFinite DEF IInv
      <4>5. Cardinality(Open(s) \ {i}) = Cardinality(Open(s)) - 1
        BY <4>2, <4>4, FS_RemoveElement
      <4>6. Cardinality(Open(s)) # 0
        BY <4>2, <4>4, FS_EmptySet
      <4>7. tracker.outstanding[s] = Cardinality(Open(s))
        BY <1>0, <4>1 DEF Counted
      <4>8. tracker'.outstanding[s] = Cardinality(Open(s)) - 1
        BY <1>0, <3>1, <3>2, <4>4, <4>6, <4>7
      <4> QED
        BY <2>2, <4>1, <4>3, <4>5, <4>8 DEF Counted, Single
    <3> QED
      BY <3>3, <3>4
  <2> QED
    BY <2>3, <2>4
<1>11. CASE Restart
  BY <1>11, NewFacts DEF Restart, Counted, Single
<1>12. ASSUME NEW c \in BOOLEAN, Push(c) \/ DrainerStop(c) PROVE CountInv'
  BY <1>2, <1>12 DEF Push, DrainerStop
<1>13. ASSUME \/ FlushTick \/ OutputClosed \/ SendDone \/ AckStart \/ FlushOk \/ FlushErr
              \/ Shutdown \/ UNCHANGED vars
       PROVE  CountInv'
  BY <1>2, <1>13 DEF FlushTick, OutputClosed, SendDone, AckStart, FlushOk, FlushErr,
     Shutdown, vars
<1>14. ASSUME NEW u \in BOOLEAN, OutputOk(u) PROVE CountInv'
  BY <1>2, <1>14 DEF OutputOk
<1>15. ASSUME NEW C \in SUBSET Batch, OutputErr(C) PROVE CountInv'
  BY <1>2, <1>15 DEF OutputErr
<1>16. ASSUME NEW ok \in BOOLEAN, NEW dr \in BOOLEAN, CloseOutput(ok, dr)
       PROVE  CountInv'
  BY <1>2, <1>16 DEF CloseOutput
<1>17. ASSUME NEW r \in Results, FlushDone(r) \/ FinalAck(r) PROVE CountInv'
  BY <1>2, <1>17 DEF FlushDone, FinalAck
<1> QED
  BY <1>4, <1>5, <1>6, <1>7, <1>8, <1>9, <1>10, <1>11, <1>12, <1>13, <1>14, <1>15,
     <1>16, <1>17
  DEF Next

\* Completed and batched events stay covered by a buffer.
LEMMA BufferStep == ASSUME IInv, [Next]_vars PROVE BufferInv'
<1> USE PipelineAssumption
<1> USE DEF queueVars, stageVars, eventVars, outputVars, envVars
<1>0. /\ BufferInv /\ EventInv
      /\ event \in [Derived -> EventStages] /\ lost \subseteq Derived
      /\ owed \in [Derived -> SUBSET Outputs] /\ inBuf \in [Outputs -> SUBSET Derived]
      /\ turn \in 1 .. NumOutputs + 1 /\ after \in {"select", "ack", "close"}
      /\ \A d \in Derived : d[1] \in Seqs
  BY DEF IInv, TypeOK, Derived
<1>1. ASSUME NEW D \in SUBSET Derived, NEW o \in Outputs,
             \A d \in Derived : owed'[d] = IF d \in D THEN owed[d] \ {o} ELSE owed[d],
             inBuf[o] \subseteq D, inBuf' = [inBuf EXCEPT ![o] = {}]
      PROVE  /\ \A d \in Derived : owed'[d] \subseteq owed[d]
             /\ \A d \in Derived, q \in Outputs :
                  q \in owed'[d] /\ d \in inBuf[q] => d \in inBuf'[q]
  BY <1>0, <1>1
<1>2. ASSUME \A d \in Derived : event'[d] = "done" => event[d] = "done",
             \A d \in Derived : event'[d] = "done" => owed'[d] \subseteq owed[d],
             \A d \in Derived, q \in Outputs :
               q \in owed'[d] /\ d \in inBuf[q] => d \in inBuf'[q],
             opc' # "send"
      PROVE  BufferInv'
  BY <1>0, <1>2 DEF BufferInv
<1>3. ASSUME NEW s \in Seqs, NEW m \in [1 .. fan[s] -> SUBSET Outputs],
             WorkerFanout(s, m)
      PROVE  BufferInv'
  <2>1. /\ event' = [d \in Derived |->
                       IF d[1] = s /\ d[2] <= fan[s] THEN "worker" ELSE event[d]]
        /\ owed' = [d \in Derived |->
                      IF d[1] = s /\ d[2] <= fan[s] THEN m[d[2]] ELSE owed[d]]
        /\ UNCHANGED <<opc, turn, lost, inBuf>>
    BY <1>3 DEF WorkerFanout
  <2>2. \A d \in Derived : event'[d] \in {"done", "batch"} =>
          event'[d] = event[d] /\ owed'[d] = owed[d]
    BY <1>0, <2>1
  <2> QED
    BY <1>0, <2>1, <2>2 DEF BufferInv, Batch
<1>4. ASSUME NEW d \in Derived, WorkerSend(d) PROVE BufferInv'
  BY <1>0, <1>4 DEF WorkerSend, BufferInv, Batch
<1>5. ASSUME NEW d \in Derived, OutputRecv(d) PROVE BufferInv'
  <2>1. /\ event' = [event EXCEPT ![d] = "batch"] /\ opc = "select"
        /\ UNCHANGED <<owed, inBuf, lost>>
        /\ opc' = "select" \/ turn' = 1
    BY <1>5 DEF OutputRecv
  <2>2. \A q \in Outputs : ~ (q < 1)
    BY DEF Outputs
  <2> QED
    BY <1>0, <2>1, <2>2 DEF BufferInv, Batch
<1>6. ASSUME NEW d \in Derived, Complete(d) PROVE BufferInv'
  <2>1. /\ event[d] = "batch" /\ opc = "send" /\ turn > NumOutputs
        /\ UNCHANGED <<owed, inBuf, lost, opc, turn>>
        /\ \/ d \in lost /\ event' = [event EXCEPT ![d] = "lost"]
           \/ d \notin lost /\ event' = [event EXCEPT ![d] = "done"]
    BY <1>6 DEF Complete
  <2>2. \A q \in Outputs : q < turn
    BY <1>0, <2>1 DEF Outputs
  <2>3. d \notin lost => \A q \in owed[d] : d \in inBuf[q]
    BY <1>0, <2>1, <2>2 DEF BufferInv, Batch
  <2> QED
    BY <1>0, <2>1, <2>3 DEF BufferInv, Batch
<1>7. CASE FlushTick \/ OutputClosed
  <2>1. UNCHANGED <<event, owed, inBuf, lost>> /\ turn' = 1
    BY <1>7 DEF FlushTick, OutputClosed
  <2>2. \A q \in Outputs : ~ (q < 1)
    BY DEF Outputs
  <2> QED
    BY <1>0, <2>1, <2>2 DEF BufferInv, Batch
<1>8. ASSUME NEW u \in BOOLEAN, OutputOk(u) PROVE BufferInv'
  <2>1. PICK o \in Outputs : o = turn
    BY <1>0, <1>8 DEF OutputOk, Outputs
  <2>2. opc = "send" /\ turn' = o + 1 /\ UNCHANGED <<event, lost, opc>>
    BY <1>8, <2>1 DEF OutputOk
  <2>3. \A q \in Outputs : q < o + 1 => q < o \/ q = o
    BY DEF Outputs
  <2>4. Matching(o) \subseteq Derived
    BY DEF Matching, Batch
  <2>5. CASE o \in Buffering /\ ~ u
    <3>1. inBuf' = [inBuf EXCEPT ![o] = @ \cup Matching(o)] /\ owed' = owed
      BY <1>8, <2>1, <2>5 DEF OutputOk
    <3> QED
      BY <1>0, <2>1, <2>2, <2>3, <3>1 DEF BufferInv, Batch, Matching
  <2>6. CASE ~ (o \in Buffering /\ ~ u)
    <3>1. /\ inBuf' = [inBuf EXCEPT ![o] = {}]
          /\ owed' = Settle(Matching(o) \cup inBuf[o], o)
      BY <1>8, <2>1, <2>6 DEF OutputOk
    <3>2. \A d \in Derived : owed'[d] =
            IF d \in Matching(o) \cup inBuf[o] THEN owed[d] \ {o} ELSE owed[d]
      BY <3>1 DEF Settle
    <3>3. /\ \A d \in Derived : owed'[d] \subseteq owed[d]
          /\ \A d \in Derived, q \in Outputs :
               q \in owed'[d] /\ d \in inBuf[q] => d \in inBuf'[q]
      BY <1>0, <1>1, <2>4, <3>1, <3>2
    <3>4. \A d \in Batch : o \notin owed'[d]
      BY <3>2 DEF Matching, Batch
    <3>5. \A d \in Derived : owed'[d] \subseteq Outputs
      BY <1>0, <3>3
    <3> QED
      BY <1>0, <2>1, <2>2, <2>3, <3>3, <3>4, <3>5 DEF BufferInv, Batch
  <2> QED
    BY <2>5, <2>6
<1>9. ASSUME NEW C \in SUBSET Batch, OutputErr(C) PROVE BufferInv'
  <2>1. PICK o \in Outputs : o = turn
    BY <1>0, <1>9 DEF OutputErr, Outputs
  <2>2. /\ opc = "send" /\ turn' = o + 1 /\ UNCHANGED <<event, inBuf, opc>>
        /\ lost' = lost \cup (Matching(o) \ C) /\ owed' = Settle(C, o)
    BY <1>9, <2>1 DEF OutputErr
  <2>3. \A q \in Outputs : q < o + 1 => q < o \/ q = o
    BY DEF Outputs
  <2>4. \A d \in Derived : owed'[d] = IF d \in C THEN owed[d] \ {o} ELSE owed[d]
    BY <2>2 DEF Settle
  <2>5. \A d \in Derived : event'[d] = "done" => \A q \in owed'[d] : d \in inBuf'[q]
    BY <1>0, <2>2, <2>4 DEF BufferInv
  <2>6. ASSUME NEW d \in Batch, NEW q \in Outputs, q < o + 1, q \in owed'[d]
        PROVE  d \in lost' \/ d \in inBuf'[q]
    <3>1. d \in Derived /\ q \in owed[d]
      BY <2>4, <2>6 DEF Batch
    <3>2. CASE q = o
      BY <2>2, <2>4, <2>6, <3>1, <3>2 DEF Matching
    <3>3. CASE q < o
      BY <1>0, <2>1, <2>2, <3>1, <3>3 DEF BufferInv
    <3> QED
      BY <2>3, <2>6, <3>2, <3>3
  <2>7. Batch' = Batch
    BY <2>2 DEF Batch
  <2> QED
    BY <2>2, <2>5, <2>6, <2>7 DEF BufferInv
<1>10. ASSUME FlushOk \/ \E ok, dr \in BOOLEAN : CloseOutput(ok, dr)
       PROVE  BufferInv'
  <2>1. PICK o \in Outputs : o = turn
    BY <1>0, <1>10 DEF FlushOk, CloseOutput, Outputs
  <2>2. opc' # "send" /\ UNCHANGED event
    BY <1>10 DEF FlushOk, CloseOutput
  <2>3. \/ UNCHANGED <<inBuf, owed>>
        \/ inBuf' = [inBuf EXCEPT ![o] = {}] /\ owed' = Settle(inBuf[o], o)
    BY <1>10, <2>1 DEF FlushOk, CloseOutput
  <2>4. CASE UNCHANGED <<inBuf, owed>>
    BY <1>2, <2>2, <2>4
  <2>5. CASE inBuf' = [inBuf EXCEPT ![o] = {}] /\ owed' = Settle(inBuf[o], o)
    <3>1. \A d \in Derived : owed'[d] = IF d \in inBuf[o] THEN owed[d] \ {o} ELSE owed[d]
      BY <2>5 DEF Settle
    <3>2. inBuf[o] \in SUBSET Derived
      BY <1>0
    <3>3. /\ \A d \in Derived : owed'[d] \subseteq owed[d]
          /\ \A d \in Derived, q \in Outputs :
               q \in owed'[d] /\ d \in inBuf[q] => d \in inBuf'[q]
      BY <1>1, <2>5, <3>1, <3>2
    <3> QED
      BY <1>2, <2>2, <3>3
  <2> QED
    BY <2>3, <2>4, <2>5
<1>11. CASE SendDone \/ AckStart \/ FlushErr
  <2>1. UNCHANGED <<event, owed, inBuf>> /\ opc' # "send"
    BY <1>0, <1>11 DEF SendDone, AckStart, FlushErr
  <2> QED
    BY <1>2, <2>1
<1>12. ASSUME NEW r \in Results, FlushDone(r) \/ FinalAck(r) PROVE BufferInv'
  <2>1. UNCHANGED <<event, owed, inBuf>> /\ opc' # "send"
    BY <1>12 DEF FlushDone, FinalAck
  <2> QED
    BY <1>2, <2>1
<1>13. CASE Restart
  BY <1>13 DEF Restart, BufferInv, Batch
<1>14. ASSUME UNCHANGED <<event, owed, inBuf, lost, opc, turn>> PROVE BufferInv'
  BY <1>0, <1>14 DEF BufferInv, Batch
<1>15. ASSUME NEW c \in BOOLEAN, Push(c) \/ DrainerStop(c) PROVE BufferInv'
  BY <1>14, <1>15 DEF Push, DrainerStop
<1>16. CASE DrainerPop \/ Shutdown \/ UNCHANGED vars
  BY <1>14, <1>16 DEF DrainerPop, Shutdown, vars
<1>17. ASSUME NEW s \in Seqs, DrainerRegister(s) \/ DrainerSend(s) \/ WorkerBlock(s)
       PROVE  BufferInv'
  BY <1>14, <1>17 DEF DrainerRegister, DrainerSend, WorkerBlock
<1>18. ASSUME NEW s \in Seqs, NEW k \in 0 .. MaxFanout, NEW f \in BOOLEAN,
             NEW c \in BOOLEAN, FilterChain(s, k, f, c)
       PROVE  BufferInv'
  BY <1>14, <1>18 DEF FilterChain
<1> QED
  BY <1>3, <1>4, <1>5, <1>6, <1>7, <1>8, <1>9, <1>10, <1>11, <1>12, <1>13, <1>15,
     <1>16, <1>17, <1>18
  DEF Next

\* Within a run nothing takes a fanned-out entry back: its fan-out and its losses
\* are fixed, its outputs only settle, and a completed event stays completed.
LEMMA Stable ==
  ASSUME TypeOK, CursorInv, [Next]_vars, ~ Restart, NEW s \in Seqs, entry[s] = "fanned"
  PROVE  /\ entry'[s] = "fanned" /\ fan'[s] = fan[s] /\ filterLost'[s] = filterLost[s]
         /\ \A i \in 1 .. fan[s] :
              /\ owed'[<<s, i>>] \subseteq owed[<<s, i>>]
              /\ event[<<s, i>>] = "done" => event'[<<s, i>>] = "done"
<1> USE MaxSeqAssumption, PipelineAssumption
<1> USE DEF queueVars, stageVars, eventVars, outputVars, envVars
<1> DEFINE Kept == /\ entry'[s] = "fanned" /\ fan'[s] = fan[s]
                   /\ filterLost'[s] = filterLost[s]
           Settling == \A i \in 1 .. fan[s] :
                         /\ owed'[<<s, i>>] \subseteq owed[<<s, i>>]
                         /\ event[<<s, i>>] = "done" => event'[<<s, i>>] = "done"
<1>0. /\ entry \in [Seqs -> EntryStages] /\ fan \in [Seqs -> 0 .. MaxFanout]
      /\ event \in [Derived -> EventStages] /\ owed \in [Derived -> SUBSET Outputs]
      /\ \A i \in 1 .. fan[s] : <<s, i>> \in Derived
  BY DEF TypeOK, Derived
<1>1. Kept
  <2>1. ASSUME NEW r, r # s, \E stage : entry' = [entry EXCEPT ![r] = stage],
               fan'[s] = fan[s], filterLost'[s] = filterLost[s]
        PROVE  Kept
    BY <1>0, <2>1
  <2>2. ASSUME NEW c \in BOOLEAN, Push(c) \/ DrainerStop(c) PROVE Kept
    BY <2>2 DEF Push, DrainerStop
  <2>3. CASE DrainerPop
    <3>1. readSeq # s
      BY DEF TypeOK, CursorInv, Seqs
    <3> QED
      BY <2>1, <2>3, <3>1 DEF DrainerPop
  <2>4. ASSUME NEW r \in Seqs, DrainerRegister(r) \/ DrainerSend(r) \/ WorkerBlock(r)
        PROVE  Kept
    BY <2>1, <2>4 DEF DrainerRegister, DrainerSend, WorkerBlock
  <2>5. ASSUME NEW r \in Seqs, NEW k \in 0 .. MaxFanout, NEW f \in BOOLEAN,
               NEW c \in BOOLEAN, FilterChain(r, k, f, c)
        PROVE  Kept
    <3>1. r # s /\ fan' = [fan EXCEPT ![r] = k] /\ entry' = [entry EXCEPT ![r] = "filtered"]
      BY <2>5 DEF FilterChain
    <3>2. filterLost'[s] = filterLost[s]
      BY <2>5, <3>1, Zenon DEF FilterChain, TypeOK
    <3> QED
      BY <1>0, <2>1, <3>1, <3>2
  <2>6. ASSUME NEW r \in Seqs, NEW m \in [1 .. fan[r] -> SUBSET Outputs],
               WorkerFanout(r, m)
        PROVE  Kept
    BY <2>1, <2>6 DEF WorkerFanout
  <2>7. ASSUME NEW d \in Derived, WorkerSend(d) \/ OutputRecv(d) \/ Complete(d)
        PROVE  Kept
    BY <2>7 DEF WorkerSend, OutputRecv, Complete
  <2>8. CASE \/ FlushTick \/ OutputClosed \/ SendDone \/ AckStart \/ FlushOk \/ FlushErr
             \/ Shutdown \/ UNCHANGED vars
    BY <2>8 DEF FlushTick, OutputClosed, SendDone, AckStart, FlushOk, FlushErr,
       Shutdown, vars
  <2>9. ASSUME NEW u \in BOOLEAN, OutputOk(u) PROVE Kept
    BY <2>9 DEF OutputOk
  <2>10. ASSUME NEW C \in SUBSET Batch, OutputErr(C) PROVE Kept
    BY <2>10 DEF OutputErr
  <2>11. ASSUME NEW ok \in BOOLEAN, NEW dr \in BOOLEAN, CloseOutput(ok, dr) PROVE Kept
    BY <2>11 DEF CloseOutput
  <2>12. ASSUME NEW r \in Results, FlushDone(r) \/ FinalAck(r) PROVE Kept
    BY <2>12 DEF FlushDone, FinalAck
  <2> HIDE DEF Kept
  <2> QED
    BY <2>2, <2>3, <2>4, <2>5, <2>6, <2>7, <2>8, <2>9, <2>10, <2>11, <2>12 DEF Next
<1>2. Settling
  <2>1. ASSUME UNCHANGED <<event, owed>> PROVE Settling
    BY <2>1
  <2>2. ASSUME UNCHANGED event,
               \/ UNCHANGED owed
               \/ \E D, o : owed' = Settle(D, o)
        PROVE  Settling
    BY <1>0, <2>2 DEF Settle
  <2>3. ASSUME NEW c \in BOOLEAN, Push(c) \/ DrainerStop(c) PROVE Settling
    BY <2>1, <2>3 DEF Push, DrainerStop
  <2>4. ASSUME NEW r \in Seqs, DrainerRegister(r) \/ DrainerSend(r) \/ WorkerBlock(r)
        PROVE  Settling
    BY <2>1, <2>4 DEF DrainerRegister, DrainerSend, WorkerBlock
  <2>5. ASSUME NEW r \in Seqs, NEW k \in 0 .. MaxFanout, NEW f \in BOOLEAN,
               NEW c \in BOOLEAN, FilterChain(r, k, f, c)
        PROVE  Settling
    BY <2>1, <2>5 DEF FilterChain
  <2>6. ASSUME NEW r \in Seqs, NEW m \in [1 .. fan[r] -> SUBSET Outputs],
               WorkerFanout(r, m)
        PROVE  Settling
    <3>1. r # s
      BY <2>6 DEF WorkerFanout
    <3>2. \A i \in 1 .. fan[s] :
            owed'[<<s, i>>] = owed[<<s, i>>] /\ event'[<<s, i>>] = event[<<s, i>>]
      BY <1>0, <2>6, <3>1 DEF WorkerFanout
    <3> QED
      BY <3>2
  <2>7. ASSUME NEW d \in Derived, WorkerSend(d) \/ OutputRecv(d) \/ Complete(d)
        PROVE  Settling
    <3>1. /\ event[d] # "done" /\ UNCHANGED owed
          /\ \E stage : event' = [event EXCEPT ![d] = stage]
      BY <2>7 DEF WorkerSend, OutputRecv, Complete
    <3> QED
      BY <1>0, <3>1
  <2>8. CASE \/ FlushTick \/ OutputClosed \/ SendDone \/ AckStart \/ FlushErr
             \/ Shutdown \/ DrainerPop \/ UNCHANGED vars
    BY <2>1, <2>8 DEF FlushTick, OutputClosed, SendDone, AckStart, FlushErr, DrainerPop,
       Shutdown, vars
  <2>9. ASSUME NEW u \in BOOLEAN, OutputOk(u) PROVE Settling
    BY <2>2, <2>9 DEF OutputOk
  <2>10. ASSUME NEW C \in SUBSET Batch, OutputErr(C) PROVE Settling
    BY <2>2, <2>10 DEF OutputErr
  <2>11. ASSUME NEW ok \in BOOLEAN, NEW dr \in BOOLEAN, CloseOutput(ok, dr) PROVE Settling
    BY <2>2, <2>11 DEF CloseOutput
  <2>12. ASSUME NEW r \in Results, FlushDone(r) \/ FinalAck(r) PROVE Settling
    BY <2>1, <2>12 DEF FlushDone, FinalAck
  <2>13. CASE FlushOk
    BY <2>2, <2>13 DEF FlushOk
  <2> HIDE DEF Settling
  <2> QED
    BY <2>3, <2>4, <2>5, <2>6, <2>7, <2>8, <2>9, <2>10, <2>11, <2>12, <2>13 DEF Next
<1> QED
  BY <1>1, <1>2

\* A terminal entry stays terminal, a done entry stays done, until a restart.
LEMMA StableEntries ==
  ASSUME TypeOK, CursorInv, [Next]_vars, ~ Restart, NEW s \in Seqs
  PROVE  (Terminal(s) => Terminal(s)') /\ (Done(s) => Done(s)')
<1>1. ASSUME Terminal(s) PROVE Terminal(s)'
  <2>1. entry[s] = "fanned" /\ ~ filterLost[s] /\ \A i \in 1 .. fan[s] : owed[<<s, i>>] = {}
    BY <1>1 DEF Terminal
  <2>2. /\ entry'[s] = "fanned" /\ fan'[s] = fan[s] /\ filterLost'[s] = filterLost[s]
        /\ \A i \in 1 .. fan[s] : owed'[<<s, i>>] \subseteq owed[<<s, i>>]
    BY <2>1, Stable
  <2> QED
    BY <2>1, <2>2 DEF Terminal
<1>2. ASSUME Done(s) PROVE Done(s)'
  <2>1. entry[s] = "fanned" /\ ~ filterLost[s] /\ \A i \in 1 .. fan[s] : event[<<s, i>>] = "done"
    BY <1>2 DEF Done
  <2>2. /\ entry'[s] = "fanned" /\ fan'[s] = fan[s] /\ filterLost'[s] = filterLost[s]
        /\ \A i \in 1 .. fan[s] : event[<<s, i>>] = "done" => event'[<<s, i>>] = "done"
    BY <2>1, Stable
  <2> QED
    BY <2>1, <2>2 DEF Done
<1> QED
  BY <1>1, <1>2

\* How a step moves the two ack cursors: the checkpoint only catches up with the
\* cursor in memory, and that one only passes terminal entries.
LEMMA CursorMoves ==
  ASSUME IInv, [Next]_vars
  PROVE  \/ Restart /\ ackSeq' = cpAck /\ cpAck' = cpAck
         \/ /\ cpAck <= cpAck' /\ readSeq <= readSeq'
            /\ \A s \in Seqs : cpAck <= s /\ (s < ackSeq' \/ s < cpAck') => Terminal(s)
<1> USE MaxSeqAssumption
<1> USE DEF queueVars, stageVars, eventVars, outputVars, envVars
<1> DEFINE Moves == /\ cpAck <= cpAck' /\ readSeq <= readSeq'
                    /\ \A s \in Seqs : cpAck <= s /\ (s < ackSeq' \/ s < cpAck') => Terminal(s)
<1>0. /\ TypeOK /\ CursorInv /\ Seqs \subseteq Nat
      /\ readSeq \in Nat /\ ackSeq \in Nat /\ cpAck \in Nat /\ cpAck <= ackSeq
      /\ \A s \in Seqs : cpAck <= s /\ s < ackSeq => Terminal(s)
  BY DEF IInv, AckedInv, CursorInv, TypeOK, Seqs
<1>1. ASSUME UNCHANGED ackSeq, readSeq' \in Nat, readSeq <= readSeq', cpAck' \in {cpAck, ackSeq}
      PROVE  Moves
  BY <1>0, <1>1
<1>2. ASSUME UNCHANGED queueVars PROVE Moves
  BY <1>0, <1>1, <1>2
<1>3. ASSUME NEW p \in 0 .. MaxSeq, p <= readSeq, NEW r, PqAck(p, r),
             \A s \in Seqs : cpAck <= s /\ s < p => Terminal(s)
      PROVE  Moves
  <2>1. /\ UNCHANGED readSeq /\ ackSeq' = Larger(ackSeq, p)
        /\ cpAck <= cpAck' /\ cpAck' <= ackSeq' /\ cpAck' \in {cpAck, ackSeq'}
    BY <1>0, <1>3, PqAckFacts
  <2>2. ackSeq' \in {ackSeq, p} /\ ackSeq' \in Nat /\ cpAck' \in Nat
    BY <1>0, <2>1 DEF Larger
  <2>3. ASSUME NEW s \in Seqs, cpAck <= s, s < ackSeq' \/ s < cpAck' PROVE Terminal(s)
    <3>1. s < ackSeq'
      BY <1>0, <2>1, <2>2, <2>3
    <3> QED
      BY <1>0, <1>3, <2>2, <2>3, <3>1
  <2> QED
    BY <1>0, <2>1, <2>3
<1>4. ASSUME NEW c \in BOOLEAN, Push(c) \/ DrainerStop(c) PROVE Moves
  BY <1>0, <1>1, <1>4 DEF Push, DrainerStop
<1>5. ASSUME DrainerPop PROVE Moves
  BY <1>0, <1>1, <1>5 DEF DrainerPop
<1>6. ASSUME NEW r \in Results, FlushDone(r) PROVE Moves
  <2>1. opc = "flush" /\ turn > NumOutputs /\ PqAck(point, r)
    BY <1>6 DEF FlushDone
  <2> QED
    BY <2>1, <1>3, FlushedTerminal
<1>7. ASSUME NEW r \in Results, FinalAck(r) PROVE Moves
  <2>1. CASE allDurable /\ ack_point(tracker) # None /\ PqAck(ack_point(tracker), r)
    <3>1. opc = "close" /\ turn > NumOutputs
      BY <1>7 DEF FinalAck
    <3> QED
      BY <2>1, <3>1, <1>3, ClosedTerminal
  <2>2. CASE UNCHANGED queueVars
    BY <1>2, <2>2
  <2> QED
    BY <1>7, <2>1, <2>2 DEF FinalAck
<1>8. ASSUME Restart PROVE ackSeq' = cpAck /\ cpAck' = cpAck
  BY <1>8 DEF Restart
<1>9. ASSUME NEW s \in Seqs, DrainerRegister(s) \/ DrainerSend(s) \/ WorkerBlock(s)
      PROVE  Moves
  BY <1>2, <1>9 DEF DrainerRegister, DrainerSend, WorkerBlock
<1>10. ASSUME NEW s \in Seqs, NEW k \in 0 .. MaxFanout, NEW f \in BOOLEAN,
              NEW c \in BOOLEAN, FilterChain(s, k, f, c)
       PROVE  Moves
  BY <1>2, <1>10 DEF FilterChain
<1>11. ASSUME NEW s \in Seqs, NEW m \in [1 .. fan[s] -> SUBSET Outputs],
              WorkerFanout(s, m)
       PROVE  Moves
  BY <1>2, <1>11 DEF WorkerFanout
<1>12. ASSUME NEW d \in Derived, WorkerSend(d) \/ OutputRecv(d) \/ Complete(d)
       PROVE  Moves
  BY <1>2, <1>12 DEF WorkerSend, OutputRecv, Complete
<1>13. ASSUME \/ FlushTick \/ OutputClosed \/ SendDone \/ AckStart \/ FlushOk \/ FlushErr
              \/ Shutdown \/ UNCHANGED vars
       PROVE  Moves
  BY <1>2, <1>13 DEF FlushTick, OutputClosed, SendDone, AckStart, FlushOk, FlushErr,
     Shutdown, vars
<1>14. ASSUME NEW u \in BOOLEAN, OutputOk(u) PROVE Moves
  BY <1>2, <1>14 DEF OutputOk
<1>15. ASSUME NEW C \in SUBSET Batch, OutputErr(C) PROVE Moves
  BY <1>2, <1>15 DEF OutputErr
<1>16. ASSUME NEW ok \in BOOLEAN, NEW dr \in BOOLEAN, CloseOutput(ok, dr) PROVE Moves
  BY <1>2, <1>16 DEF CloseOutput
<1>17. Moves \/ (Restart /\ ackSeq' = cpAck /\ cpAck' = cpAck)
  <2> HIDE DEF Moves
  <2> QED
    BY <1>4, <1>5, <1>6, <1>7, <1>8, <1>9, <1>10, <1>11, <1>12, <1>13, <1>14, <1>15,
       <1>16
    DEF Next
<1> QED
  BY <1>17

\* The cursor in memory stays behind the terminal entries.
LEMMA AckedStep == ASSUME IInv, [Next]_vars PROVE AckedInv'
<1>0. TypeOK /\ CursorInv /\ cpAck \in Nat /\ Seqs \subseteq Nat
  BY DEF IInv, TypeOK, Seqs
<1>1. TypeOK'
  BY TypeStep DEF IInv
<1>2. CASE Restart
  BY <1>2, <1>0 DEF Restart, AckedInv
<1>3. CASE ~ Restart
  <2>1. /\ cpAck <= cpAck'
        /\ \A s \in Seqs : cpAck <= s /\ s < ackSeq' => Terminal(s)
    BY <1>3, CursorMoves
  <2>2. cpAck' \in Nat
    BY <1>1 DEF TypeOK
  <2>3. \A s \in Seqs : Terminal(s) => Terminal(s)'
    BY <1>0, <1>3, StableEntries
  <2>4. \A s \in Seqs : cpAck' <= s => cpAck <= s
    BY <1>0, <2>1, <2>2
  <2> QED
    BY <2>1, <2>3, <2>4 DEF AckedInv
<1> QED
  BY <1>2, <1>3

\* A flush in progress keeps covering the entries below its ack point.
LEMMA FlushStep == ASSUME IInv, [Next]_vars PROVE FlushInv'
<1> USE PipelineAssumption
<1> USE DEF queueVars, stageVars, eventVars, outputVars, envVars
<1>0. /\ TypeOK /\ CursorInv /\ FlushInv /\ cpAck \in Nat /\ readSeq \in Nat
      /\ Seqs \subseteq Nat /\ point \in Nat
      /\ \A s \in Seqs : fan[s] \in 0 .. MaxFanout
      /\ \A s \in Seqs : \A i \in 1 .. fan[s] : <<s, i>> \in Derived
      /\ owed \in [Derived -> SUBSET Outputs] /\ inBuf \in [Outputs -> SUBSET Derived]
      /\ turn \in 1 .. NumOutputs + 1
  <2>1. /\ TypeOK /\ FlushInv /\ CursorInv
    BY DEF IInv
  <2>2. Seqs \subseteq Nat
    BY MaxSeqAssumption DEF Seqs
  <2> QED
    BY <2>1, <2>2 DEF TypeOK, Derived
<1>1. TypeOK' /\ cpAck' \in Nat /\ readSeq' \in Nat /\ turn' \in Nat
  <2>1. TypeOK'
    BY TypeStep DEF IInv
  <2> QED
    BY <2>1 DEF TypeOK
<1>2. CASE Restart
  BY <1>2 DEF Restart, FlushInv
<1>3. CASE ~ Restart
  <2>1. cpAck <= cpAck' /\ readSeq <= readSeq'
    BY <1>3, CursorMoves
  <2>2. \A s \in Seqs : Done(s) => Done(s)'
    BY <1>0, <1>3, StableEntries
  <2>3. \A s \in Seqs : Done(s) =>
          fan'[s] = fan[s] /\ \A i \in 1 .. fan[s] : owed'[<<s, i>>] \subseteq owed[<<s, i>>]
    BY <1>0, <1>3, Stable DEF Done
  <2>4. \A s \in Seqs : cpAck' <= s => cpAck <= s
    BY <1>0, <1>1, <2>1
  <2>5. ASSUME NEW p, p \in Nat, p <= readSeq, NEW n,
               \A s \in Seqs : cpAck <= s /\ s < p =>
                 /\ Done(s)
                 /\ \A i \in 1 .. fan[s], o \in Outputs : o \in owed'[<<s, i>>] => n <= o,
               point' = p, turn' = n
        PROVE  FlushInv'
    <3>1. point' <= readSeq'
      BY <1>0, <1>1, <2>1, <2>5
    <3>2. ASSUME NEW s \in Seqs, cpAck' <= s, s < point'
          PROVE  /\ Done(s)'
                 /\ \A i \in 1 .. fan'[s], o \in Outputs : o \in owed'[<<s, i>>] => turn' <= o
      BY <2>2, <2>3, <2>4, <2>5, <3>2
    <3> QED
      BY <3>1, <3>2 DEF FlushInv
  <2>6. ASSUME UNCHANGED <<opc, turn, point>> PROVE FlushInv'
    <3>1. CASE opc = "flush"
      BY <1>0, <2>3, <2>5, <2>6, <3>1 DEF FlushInv
    <3>2. CASE opc # "flush"
      BY <2>6, <3>2 DEF FlushInv
    <3> QED
      BY <3>1, <3>2
  <2>7. CASE AckStart
    <3>1. CASE opc' # "flush"
      BY <3>1 DEF FlushInv
    <3>2. CASE opc' = "flush"
      <4>1. /\ ack_point(tracker) # None /\ point' = ack_point(tracker)
            /\ turn' = 1
        BY <2>7, <3>2 DEF AckStart
      <4>2. /\ ack_point(tracker) \in Nat /\ ack_point(tracker) <= readSeq
            /\ \A s \in Seqs : cpAck <= s /\ s < ack_point(tracker) => Done(s)
        BY <4>1, AckPointDone
      <4>3. \A o \in Outputs : 1 <= o
        BY DEF Outputs
      <4> QED
        BY <2>5, <4>1, <4>2, <4>3
    <3> QED
      BY <3>1, <3>2
  <2>8. CASE FlushOk
    <3>1. PICK o \in Outputs : o = turn
      BY <1>0, <2>8 DEF FlushOk, Outputs
    <3>2. /\ opc = "flush" /\ turn' = o + 1 /\ UNCHANGED <<point, event, fan>>
          /\ owed' = Settle(inBuf[o], o)
      BY <2>8, <3>1 DEF FlushOk
    <3>3. ASSUME NEW s \in Seqs, cpAck <= s, s < point,
                 NEW i \in 1 .. fan[s], NEW q \in Outputs, q \in owed'[<<s, i>>]
          PROVE  o + 1 <= q
      <4>1. Done(s) /\ <<s, i>> \in Derived
        BY <1>0, <3>2, <3>3 DEF FlushInv
      <4>2. q \in owed[<<s, i>>]
        BY <2>3, <3>3, <4>1
      <4>3. o <= q
        BY <1>0, <3>1, <3>2, <3>3, <4>2 DEF FlushInv
      <4>4. <<s, i>> \in inBuf[q]
        BY <4>1, <4>2 DEF Done, IInv, BufferInv
      <4>5. q # o
        BY <3>2, <3>3, <4>1, <4>4 DEF Settle
      <4> QED
        BY <4>3, <4>5 DEF Outputs
    <3> QED
      BY <1>0, <2>5, <3>2, <3>3 DEF FlushInv
  <2>9. ASSUME opc' # "flush" PROVE FlushInv'
    BY <2>9 DEF FlushInv
  <2>10. ASSUME NEW c \in BOOLEAN, Push(c) \/ DrainerStop(c) PROVE FlushInv'
    BY <2>6, <2>10 DEF Push, DrainerStop
  <2>11. ASSUME NEW s \in Seqs, DrainerRegister(s) \/ DrainerSend(s) \/ WorkerBlock(s)
         PROVE  FlushInv'
    BY <2>6, <2>11 DEF DrainerRegister, DrainerSend, WorkerBlock
  <2>12. ASSUME NEW s \in Seqs, NEW k \in 0 .. MaxFanout, NEW f \in BOOLEAN,
                NEW c \in BOOLEAN, FilterChain(s, k, f, c)
         PROVE  FlushInv'
    BY <2>6, <2>12 DEF FilterChain
  <2>13. ASSUME NEW s \in Seqs, NEW m \in [1 .. fan[s] -> SUBSET Outputs],
                WorkerFanout(s, m)
         PROVE  FlushInv'
    BY <2>6, <2>13 DEF WorkerFanout
  <2>14. ASSUME NEW d \in Derived, WorkerSend(d) \/ Complete(d) PROVE FlushInv'
    BY <2>6, <2>14 DEF WorkerSend, Complete
  <2>15. ASSUME NEW d \in Derived, OutputRecv(d) PROVE FlushInv'
    BY <2>9, <2>15 DEF OutputRecv
  <2>16. CASE DrainerPop \/ Shutdown \/ UNCHANGED vars
    BY <2>6, <2>16 DEF DrainerPop, Shutdown, vars
  <2>17. CASE FlushTick \/ OutputClosed \/ SendDone \/ FlushErr
    <3>1. opc' # "flush"
      BY <2>17 DEF FlushTick, OutputClosed, SendDone, FlushErr, TypeOK, IInv
    <3> QED
      BY <2>9, <3>1
  <2>18. ASSUME NEW u \in BOOLEAN, OutputOk(u) PROVE FlushInv'
    BY <2>9, <2>18 DEF OutputOk
  <2>19. ASSUME NEW C \in SUBSET Batch, OutputErr(C) PROVE FlushInv'
    BY <2>9, <2>19 DEF OutputErr
  <2>20. ASSUME NEW ok \in BOOLEAN, NEW dr \in BOOLEAN, CloseOutput(ok, dr) PROVE FlushInv'
    BY <2>9, <2>20 DEF CloseOutput
  <2>21. ASSUME NEW r \in Results, FlushDone(r) \/ FinalAck(r) PROVE FlushInv'
    BY <2>9, <2>21 DEF FlushDone, FinalAck
  <2> QED
    BY <1>3, <2>7, <2>8, <2>10, <2>11, <2>12, <2>13, <2>14, <2>15, <2>16, <2>17, <2>18,
       <2>19, <2>20, <2>21
    DEF Next
<1> QED
  BY <1>2, <1>3

\* Outputs closed without an error keep owing nothing.
LEMMA CloseStep == ASSUME IInv, [Next]_vars PROVE CloseInv'
<1> USE PipelineAssumption
<1> USE DEF queueVars, stageVars, eventVars, outputVars, envVars
<1>0. /\ CloseInv /\ BufferInv
      /\ event \in [Derived -> EventStages] /\ after \in {"select", "ack", "close"}
      /\ owed \in [Derived -> SUBSET Outputs] /\ inBuf \in [Outputs -> SUBSET Derived]
      /\ turn \in 1 .. NumOutputs + 1
  BY DEF IInv, TypeOK
<1>1. ASSUME UNCHANGED <<opc, turn, allDurable>>,
             \A d \in Derived : event'[d] = "done" =>
               event[d] = "done" /\ owed'[d] \subseteq owed[d]
      PROVE  CloseInv'
  BY <1>0, <1>1 DEF CloseInv
<1>2. ASSUME opc' # "close" \/ turn' = 1 PROVE CloseInv'
  BY <1>2 DEF CloseInv, Outputs
<1>3. ASSUME NEW ok \in BOOLEAN, NEW dr \in BOOLEAN, CloseOutput(ok, dr) PROVE CloseInv'
  <2>1. PICK o \in Outputs : o = turn
    BY <1>0, <1>3 DEF CloseOutput, Outputs
  <2>2. CASE ~ ok
    <3>1. ~ allDurable'
      BY <1>3, <2>2 DEF CloseOutput
    <3> QED
      BY <3>1 DEF CloseInv
  <2>3. CASE ok
    <3>1. /\ opc = "close" /\ turn' = o + 1 /\ allDurable' = allDurable /\ event' = event
          /\ owed' = Settle(inBuf[o], o)
      BY <1>3, <2>1, <2>3 DEF CloseOutput
    <3>2. ASSUME NEW d \in Derived, NEW q \in Outputs, allDurable,
                 event[d] = "done", q \in owed'[d]
          PROVE  o + 1 <= q
      <4>1. q \in owed[d]
        BY <1>0, <3>1, <3>2 DEF Settle
      <4>2. o <= q
        BY <1>0, <2>1, <3>1, <3>2, <4>1 DEF CloseInv
      <4>3. d \in inBuf[q]
        BY <1>0, <3>2, <4>1 DEF BufferInv
      <4>4. q # o
        BY <3>1, <3>2, <4>3 DEF Settle
      <4> QED
        BY <4>2, <4>4 DEF Outputs
    <3> QED
      BY <3>1, <3>2 DEF CloseInv
  <2> QED
    BY <2>2, <2>3
<1>4. ASSUME NEW c \in BOOLEAN, Push(c) \/ DrainerStop(c) PROVE CloseInv'
  BY <1>1, <1>4 DEF Push, DrainerStop
<1>5. ASSUME NEW s \in Seqs, DrainerRegister(s) \/ DrainerSend(s) \/ WorkerBlock(s)
      PROVE  CloseInv'
  BY <1>1, <1>5 DEF DrainerRegister, DrainerSend, WorkerBlock
<1>6. ASSUME NEW s \in Seqs, NEW k \in 0 .. MaxFanout, NEW f \in BOOLEAN,
             NEW c \in BOOLEAN, FilterChain(s, k, f, c)
      PROVE  CloseInv'
  BY <1>1, <1>6 DEF FilterChain
<1>7. ASSUME NEW s \in Seqs, NEW m \in [1 .. fan[s] -> SUBSET Outputs],
             WorkerFanout(s, m)
      PROVE  CloseInv'
  <2>1. \A d \in Derived : event'[d] = "done" => event[d] = "done" /\ owed'[d] \subseteq owed[d]
    BY <1>7 DEF WorkerFanout
  <2> QED
    BY <1>1, <1>7, <2>1 DEF WorkerFanout
<1>8. ASSUME NEW d \in Derived, WorkerSend(d) PROVE CloseInv'
  BY <1>0, <1>1, <1>8 DEF WorkerSend
<1>9. ASSUME NEW d \in Derived, OutputRecv(d) \/ Complete(d) PROVE CloseInv'
  BY <1>2, <1>9 DEF OutputRecv, Complete
<1>10. CASE DrainerPop \/ Shutdown \/ UNCHANGED vars
  BY <1>1, <1>10 DEF DrainerPop, Shutdown, vars
<1>11. CASE FlushTick \/ OutputClosed \/ SendDone \/ AckStart \/ FlushErr \/ FlushOk \/ Restart
  BY <1>2, <1>11 DEF FlushTick, OutputClosed, SendDone, AckStart, FlushErr, FlushOk, Restart
<1>12. ASSUME NEW u \in BOOLEAN, OutputOk(u) PROVE CloseInv'
  BY <1>2, <1>12 DEF OutputOk
<1>13. ASSUME NEW C \in SUBSET Batch, OutputErr(C) PROVE CloseInv'
  BY <1>2, <1>13 DEF OutputErr
<1>14. ASSUME NEW r \in Results, FlushDone(r) \/ FinalAck(r) PROVE CloseInv'
  BY <1>2, <1>14 DEF FlushDone, FinalAck
<1> QED
  BY <1>3, <1>4, <1>5, <1>6, <1>7, <1>8, <1>9, <1>10, <1>11, <1>12, <1>13, <1>14
  DEF Next

\* The inductive invariant holds initially.
LEMMA InitInv == Init => IInv
<1> SUFFICES ASSUME Init PROVE IInv
  OBVIOUS
<1>1. TypeOK
  BY InitType
<1>2. CursorInv
  <2>1. /\ writeSeq = 0 /\ readSeq = 0 /\ ackSeq = 0 /\ cpAck = 0
        /\ entry = [s \in Seqs |-> "queued"] /\ Seqs \subseteq Nat
    BY MaxSeqAssumption DEF Init, Seqs
  <2> QED
    BY <2>1 DEF CursorInv
<1>3. CountInv /\ HighInv /\ BlockInv
  BY NewFacts DEF Init, CountInv, Counted, Single, HighInv, BlockInv
<1>4. EventInv /\ BufferInv
  BY DEF Init, EventInv, BufferInv, Batch
<1>5. AckedInv /\ FlushInv /\ CloseInv
  BY <1>1, MaxSeqAssumption DEF Init, AckedInv, FlushInv, CloseInv, TypeOK, Seqs
<1> QED
  BY <1>1, <1>2, <1>3, <1>4, <1>5 DEF IInv

\* IInv is an invariant of the pipeline: the cursors, the tracker's counts, the
\* output buffers and the progress of a flush stay in the relation run_pq_drainer,
\* run_filter_worker and run_outputs rely on.
THEOREM PipelineInvariant == Spec => []IInv
<1>1. IInv /\ [Next]_vars => IInv'
  <2> SUFFICES ASSUME IInv, [Next]_vars PROVE IInv'
    OBVIOUS
  <2>1. TypeOK'
    BY TypeStep DEF IInv
  <2> QED
    BY <2>1, CursorStep, CountStep, HighStep, BlockStep, EventStep, BufferStep,
       AckedStep, FlushStep, CloseStep
    DEF IInv
<1> QED
  BY <1>1, InitInv, PTL DEF Spec

\* At-least-once delivery, for any number of entries, outputs, derived events,
\* failures and crashes: no checkpoint ever passes an entry whose events are not
\* all delivered, uploaded or captured (flush_and_ack, advance_durable_ack, and the
\* checkpoints of enqueue and of the drainer's exit).
THEOREM AckSafe == Spec => AckOnlyTerminal
<1> DEFINE Safe == \A s \in Seqs : cpAck <= s /\ s < cpAck' => Terminal(s)
<1>1. IInv /\ [Next]_vars => [Safe]_vars
  <2> SUFFICES ASSUME IInv, [Next]_vars PROVE Safe
    OBVIOUS
  <2>1. CASE Restart
    <3>1. cpAck' = cpAck /\ cpAck \in Nat /\ Seqs \subseteq Nat
      BY <2>1, MaxSeqAssumption DEF Restart, IInv, TypeOK, Seqs
    <3> QED
      BY <3>1
  <2>2. CASE ~ Restart
    BY <2>2, CursorMoves
  <2> QED
    BY <2>1, <2>2
<1> QED
  BY <1>1, PipelineInvariant, PTL DEF Spec, AckOnlyTerminal

-----------------------------------------------------------------------------
(* A clean stop acknowledges everything.                                   *)

\* What run_outputs acknowledged successfully is on disk.
LastInv == lastAcked <= cpAck

\* The tracker's highest sequence covers every entry in the pipeline's hands.
TopInv ==
  \A s \in Seqs :
    entry[s] \in InHand => tracker.highest # None /\ s <= tracker.highest

\* Every event of a fanned-out entry exists.
FannedInv ==
  \A s \in Seqs : entry[s] = "fanned" => \A i \in 1 .. fan[s] : event[<<s, i>>] # "none"

\* Once the output task has seen its channel closed nothing enters it again, and
\* the outputs are closed with no batch pending.
ClosedInv ==
  /\ opc \in {"close", "stopped"} \/ (opc = "send" /\ after = "close") => ChannelClosed
  /\ opc \in {"close", "stopped"} => Batch = {}

\* Without a fault nothing is lost, blocked or left in an output's buffer.
CleanInv ==
  faults = 0 =>
    /\ lost = {} /\ tracker.minBlocked = None /\ allDurable
    /\ \A s \in Seqs : ~ filterLost[s]
    /\ \A d \in Derived : event[d] # "lost"

StopInv ==
  LastInv /\ TopInv /\ FannedInv /\ ClosedInv /\ CleanInv /\ CleanStopAcksAll

\* The durable cursor stays at or above what was acknowledged successfully.
LEMMA LastStep == ASSUME IInv, LastInv, [Next]_vars PROVE LastInv'
<1> USE MaxSeqAssumption, NoneAssumption
<1> USE DEF LastInv, queueVars, stageVars, eventVars, outputVars, envVars
<1>0. /\ TypeOK /\ CursorInv /\ cpAck \in Nat /\ ackSeq \in Nat /\ lastAcked \in Nat
      /\ cpAck <= ackSeq
  BY DEF IInv, TypeOK, CursorInv
<1>1. ASSUME UNCHANGED <<cpAck, lastAcked>> PROVE LastInv'
  BY <1>1
<1>2. ASSUME NEW c \in BOOLEAN, Push(c) \/ DrainerStop(c) PROVE LastInv'
  BY <1>0, <1>2 DEF Push, DrainerStop
<1>3. ASSUME NEW p \in 0 .. MaxSeq, p <= readSeq, NEW r, PqAck(p, r) PROVE LastInv'
  <2>1. cpAck <= cpAck' /\ cpAck' \in Nat
    BY <1>0, <1>3, PqAckFacts DEF PqAck, Larger
  <2>2. CASE r = "ok"
    BY <1>0, <1>3, <2>2 DEF PqAck, Larger
  <2>3. CASE r # "ok"
    BY <1>0, <1>3, <2>1, <2>3 DEF PqAck
  <2> QED
    BY <2>2, <2>3
<1>4. ASSUME NEW r \in Results, FlushDone(r) PROVE LastInv'
  <2>1. point \in 0 .. MaxSeq /\ point <= readSeq
    BY <1>4, FlushedTerminal DEF FlushDone
  <2> QED
    BY <1>3, <1>4, <2>1 DEF FlushDone
<1>5. ASSUME NEW r \in Results, FinalAck(r) PROVE LastInv'
  <2>1. CASE allDurable /\ ack_point(tracker) # None /\ ack_point(tracker) > lastAcked
    <3>1. ack_point(tracker) \in 0 .. MaxSeq /\ ack_point(tracker) <= readSeq
      BY <2>1, AckPointDone
    <3> QED
      BY <1>3, <1>5, <2>1, <3>1 DEF FinalAck
  <2>2. CASE ~ (allDurable /\ ack_point(tracker) # None /\ ack_point(tracker) > lastAcked)
    BY <1>1, <1>5, <2>2 DEF FinalAck
  <2> QED
    BY <2>1, <2>2
<1>6. CASE Restart
  BY <1>0, <1>6 DEF Restart
<1>7. ASSUME NEW s \in Seqs, DrainerRegister(s) \/ DrainerSend(s) \/ WorkerBlock(s)
      PROVE LastInv'
  BY <1>1, <1>7 DEF DrainerRegister, DrainerSend, WorkerBlock
<1>8. ASSUME NEW s \in Seqs, NEW k \in 0 .. MaxFanout, NEW f \in BOOLEAN,
             NEW c \in BOOLEAN, FilterChain(s, k, f, c)
      PROVE  LastInv'
  BY <1>1, <1>8 DEF FilterChain
<1>9. ASSUME NEW s \in Seqs, NEW m \in [1 .. fan[s] -> SUBSET Outputs],
             WorkerFanout(s, m)
      PROVE  LastInv'
  BY <1>1, <1>9 DEF WorkerFanout
<1>10. ASSUME NEW d \in Derived, WorkerSend(d) \/ OutputRecv(d) \/ Complete(d)
       PROVE  LastInv'
  BY <1>1, <1>10 DEF WorkerSend, OutputRecv, Complete
<1>11. ASSUME \/ DrainerPop \/ FlushTick \/ OutputClosed \/ SendDone \/ AckStart
              \/ FlushOk \/ FlushErr \/ Shutdown \/ UNCHANGED vars
       PROVE  LastInv'
  BY <1>1, <1>11 DEF DrainerPop, FlushTick, OutputClosed, SendDone, AckStart, FlushOk,
     FlushErr, Shutdown, vars
<1>12. ASSUME NEW u \in BOOLEAN, OutputOk(u) PROVE LastInv'
  BY <1>1, <1>12 DEF OutputOk
<1>13. ASSUME NEW C \in SUBSET Batch, OutputErr(C) PROVE LastInv'
  BY <1>1, <1>13 DEF OutputErr
<1>14. ASSUME NEW ok \in BOOLEAN, NEW dr \in BOOLEAN, CloseOutput(ok, dr)
       PROVE  LastInv'
  BY <1>1, <1>14 DEF CloseOutput
<1> QED
  BY <1>2, <1>4, <1>5, <1>6, <1>7, <1>8, <1>9, <1>10, <1>11, <1>12, <1>13, <1>14
  DEF Next

\* The highest registered sequence stays above every entry in hand.
LEMMA TopStep == ASSUME IInv, TopInv, [Next]_vars PROVE TopInv'
<1> USE MaxSeqAssumption, NoneAssumption
<1> USE DEF TopInv, queueVars, stageVars, eventVars, outputVars, envVars
<1>0. /\ tracker \in AckState /\ tracker.highest \in Seqs \cup {None}
      /\ entry \in [Seqs -> EntryStages] /\ Seqs \subseteq Nat
  BY DEF IInv, TypeOK, AckState, Seqs
<1>1. ASSUME tracker'.highest = tracker.highest,
             \A r \in Seqs : entry'[r] \in InHand => entry[r] \in InHand
      PROVE  TopInv'
  BY <1>0, <1>1
<1>2. CASE DrainerPop
  <2>1. readSeq \in Seqs
    BY <1>2 DEF DrainerPop, IInv, TypeOK, Seqs
  <2> QED
    BY <1>0, <1>1, <1>2, <2>1 DEF DrainerPop, InHand, Single
<1>3. ASSUME NEW s \in Seqs, DrainerRegister(s) PROVE TopInv'
  <2>1. register(tracker, s).highest =
          IF tracker.highest = None \/ tracker.highest < s THEN s ELSE tracker.highest
    BY <1>0, RegisterFacts
  <2>2. tracker'.highest =
          IF tracker.highest = None \/ tracker.highest < s THEN s ELSE tracker.highest
    BY <1>3, <2>1 DEF DrainerRegister
  <2>3. entry' = [entry EXCEPT ![s] = "registered"]
    BY <1>3 DEF DrainerRegister
  <2>4. s \in Nat /\ (tracker.highest # None => tracker.highest \in Nat)
    BY <1>0
  <2>5. tracker'.highest # None /\ tracker'.highest \in Nat /\ s <= tracker'.highest
    BY <2>2, <2>4
  <2>6. ASSUME NEW r \in Seqs, entry'[r] \in InHand PROVE r <= tracker'.highest
    <3>1. CASE r = s
      BY <2>5, <3>1
    <3>2. CASE r # s
      <4>1. entry[r] \in InHand
        BY <1>0, <2>3, <2>6, <3>2
      <4>2. r <= tracker.highest /\ tracker.highest # None /\ r \in Nat
        BY <1>0, <4>1
      <4> QED
        BY <2>2, <2>4, <4>2
    <3> QED
      BY <3>1, <3>2
  <2> QED
    BY <2>5, <2>6
<1>4. ASSUME NEW s \in Seqs, DrainerSend(s) PROVE TopInv'
  BY <1>0, <1>1, <1>4 DEF DrainerSend, InHand, Single
<1>5. ASSUME NEW s \in Seqs, WorkerBlock(s) PROVE TopInv'
  <2>1. block(tracker, s).highest = tracker.highest
    BY <1>0, BlockFacts
  <2>2. tracker'.highest = tracker.highest
    BY <1>5, <2>1 DEF WorkerBlock
  <2> QED
    BY <1>0, <1>1, <1>5, <2>2 DEF WorkerBlock, InHand, Single
<1>6. ASSUME NEW s \in Seqs, NEW k \in 0 .. MaxFanout, NEW f \in BOOLEAN,
             NEW c \in BOOLEAN, FilterChain(s, k, f, c)
      PROVE  TopInv'
  BY <1>0, <1>1, <1>6 DEF FilterChain, InHand, Single
<1>7. ASSUME NEW s \in Seqs, NEW m \in [1 .. fan[s] -> SUBSET Outputs],
             WorkerFanout(s, m)
      PROVE  TopInv'
  <2>1. fan[s] \in Nat
    BY PipelineAssumption DEF IInv, TypeOK
  <2>2. set_fanout(tracker, s, fan[s]).highest = tracker.highest
    BY <1>0, <2>1, FanoutKeeps
  <2>3. tracker'.highest = tracker.highest
    BY <1>7, <2>2 DEF WorkerFanout
  <2> QED
    BY <1>0, <1>1, <1>7, <2>3 DEF WorkerFanout, InHand, Single
<1>8. CASE Restart
  BY <1>8 DEF Restart, InHand, Single
<1>9. ASSUME NEW d \in Derived, Complete(d) PROVE TopInv'
  <2>1. d[1] \in Seqs
    BY DEF Derived
  <2>2. complete(tracker, d[1]).highest = tracker.highest
    BY <1>0, <2>1, CompleteFacts
  <2> QED
    BY <1>1, <1>9, <2>2 DEF Complete
<1>10. ASSUME NEW c \in BOOLEAN, Push(c) \/ DrainerStop(c) PROVE TopInv'
  BY <1>1, <1>10 DEF Push, DrainerStop
<1>11. ASSUME NEW d \in Derived, WorkerSend(d) \/ OutputRecv(d) PROVE TopInv'
  BY <1>1, <1>11 DEF WorkerSend, OutputRecv
<1>12. ASSUME \/ FlushTick \/ OutputClosed \/ SendDone \/ AckStart \/ FlushOk \/ FlushErr
              \/ Shutdown \/ UNCHANGED vars
       PROVE  TopInv'
  BY <1>1, <1>12 DEF FlushTick, OutputClosed, SendDone, AckStart, FlushOk, FlushErr,
     Shutdown, vars
<1>13. ASSUME NEW u \in BOOLEAN, OutputOk(u) PROVE TopInv'
  BY <1>1, <1>13 DEF OutputOk
<1>14. ASSUME NEW C \in SUBSET Batch, OutputErr(C) PROVE TopInv'
  BY <1>1, <1>14 DEF OutputErr
<1>15. ASSUME NEW ok \in BOOLEAN, NEW dr \in BOOLEAN, CloseOutput(ok, dr)
       PROVE  TopInv'
  BY <1>1, <1>15 DEF CloseOutput
<1>16. ASSUME NEW r \in Results, FlushDone(r) \/ FinalAck(r) PROVE TopInv'
  BY <1>1, <1>16 DEF FlushDone, FinalAck
<1> QED
  BY <1>2, <1>3, <1>4, <1>5, <1>6, <1>7, <1>8, <1>9, <1>10, <1>11, <1>12, <1>13,
     <1>14, <1>15, <1>16
  DEF Next

\* No event of a fanned-out entry disappears.
LEMMA FannedStep == ASSUME IInv, FannedInv, [Next]_vars PROVE FannedInv'
<1> USE MaxSeqAssumption, NoneAssumption
<1> USE DEF FannedInv, queueVars, stageVars, eventVars, outputVars, envVars
<1>0. /\ entry \in [Seqs -> EntryStages] /\ fan \in [Seqs -> 0 .. MaxFanout]
      /\ event \in [Derived -> EventStages] /\ MaxFanout \in Nat
      /\ \A s \in Seqs : \A i \in 1 .. fan[s] : <<s, i>> \in Derived
  BY PipelineAssumption DEF IInv, TypeOK, Derived
<1>1. ASSUME UNCHANGED fan, \A r \in Seqs : entry'[r] = "fanned" => entry[r] = "fanned",
             \A d \in Derived : event'[d] = "none" => event[d] = "none"
      PROVE  FannedInv'
  BY <1>0, <1>1
<1>2. ASSUME NEW s \in Seqs, NEW stage \in EntryStages \ {"fanned"},
             entry' = [entry EXCEPT ![s] = stage], UNCHANGED <<fan, event>>
      PROVE  FannedInv'
  BY <1>0, <1>1, <1>2
<1>3. CASE DrainerPop
  <2>1. readSeq \in Seqs
    BY <1>3 DEF DrainerPop, IInv, TypeOK, Seqs
  <2> QED
    BY <1>2, <1>3, <2>1 DEF DrainerPop, EntryStages
<1>4. ASSUME NEW s \in Seqs, DrainerRegister(s) \/ DrainerSend(s) \/ WorkerBlock(s)
      PROVE FannedInv'
  BY <1>2, <1>4 DEF DrainerRegister, DrainerSend, WorkerBlock, EntryStages
<1>5. ASSUME NEW s \in Seqs, NEW k \in 0 .. MaxFanout, NEW f \in BOOLEAN,
             NEW c \in BOOLEAN, FilterChain(s, k, f, c)
      PROVE  FannedInv'
  <2>1. entry' = [entry EXCEPT ![s] = "filtered"] /\ fan' = [fan EXCEPT ![s] = k]
        /\ event' = event
    BY <1>5 DEF FilterChain
  <2> QED
    BY <1>0, <2>1
<1>6. ASSUME NEW s \in Seqs, NEW m \in [1 .. fan[s] -> SUBSET Outputs],
             WorkerFanout(s, m)
      PROVE  FannedInv'
  <2>1. /\ entry' = [entry EXCEPT ![s] = "fanned"] /\ fan' = fan
        /\ event' = [d \in Derived |->
                       IF d[1] = s /\ d[2] <= fan[s] THEN "worker" ELSE event[d]]
    BY <1>6 DEF WorkerFanout
  <2>2. ASSUME NEW r \in Seqs, entry'[r] = "fanned", NEW i \in 1 .. fan[r]
        PROVE  event'[<<r, i>>] # "none"
    <3>1. <<r, i>> \in Derived /\ i <= fan[r]
      BY <1>0
    <3>2. CASE r = s
      BY <2>1, <3>1, <3>2
    <3>3. CASE r # s
      BY <1>0, <2>1, <2>2, <3>1, <3>3
    <3> QED
      BY <3>2, <3>3
  <2> QED
    BY <2>1, <2>2
<1>7. ASSUME NEW d \in Derived, WorkerSend(d) \/ OutputRecv(d) \/ Complete(d)
      PROVE  FannedInv'
  <2>1. PICK stage \in EventStages \ {"none"} : event' = [event EXCEPT ![d] = stage]
    BY <1>7 DEF WorkerSend, OutputRecv, Complete, EventStages
  <2>2. UNCHANGED <<entry, fan>>
    BY <1>7 DEF WorkerSend, OutputRecv, Complete
  <2> QED
    BY <1>0, <1>1, <2>1, <2>2
<1>8. CASE Restart
  BY <1>8 DEF Restart
<1>9. ASSUME NEW c \in BOOLEAN, Push(c) \/ DrainerStop(c) PROVE FannedInv'
  BY <1>1, <1>9 DEF Push, DrainerStop
<1>10. ASSUME \/ FlushTick \/ OutputClosed \/ SendDone \/ AckStart \/ FlushOk \/ FlushErr
              \/ Shutdown \/ UNCHANGED vars
       PROVE  FannedInv'
  BY <1>1, <1>10 DEF FlushTick, OutputClosed, SendDone, AckStart, FlushOk, FlushErr,
     Shutdown, vars
<1>11. ASSUME NEW u \in BOOLEAN, OutputOk(u) PROVE FannedInv'
  BY <1>1, <1>11 DEF OutputOk
<1>12. ASSUME NEW C \in SUBSET Batch, OutputErr(C) PROVE FannedInv'
  BY <1>1, <1>12 DEF OutputErr
<1>13. ASSUME NEW ok \in BOOLEAN, NEW dr \in BOOLEAN, CloseOutput(ok, dr)
       PROVE  FannedInv'
  BY <1>1, <1>13 DEF CloseOutput
<1>14. ASSUME NEW r \in Results, FlushDone(r) \/ FinalAck(r) PROVE FannedInv'
  BY <1>1, <1>14 DEF FlushDone, FinalAck
<1> QED
  BY <1>3, <1>4, <1>5, <1>6, <1>7, <1>8, <1>9, <1>10, <1>11, <1>12, <1>13, <1>14
  DEF Next

\* A closed channel stays closed, and the batch is sent before the outputs close.
LEMMA ClosedStep == ASSUME IInv, ClosedInv, [Next]_vars PROVE ClosedInv'
<1> USE MaxSeqAssumption, NoneAssumption
<1> USE DEF ClosedInv, queueVars, stageVars, eventVars, outputVars, envVars
<1> DEFINE Ending == opc \in {"close", "stopped"} \/ (opc = "send" /\ after = "close")
<1>0. /\ entry \in [Seqs -> EntryStages] /\ event \in [Derived -> EventStages]
      /\ opc \in OutputStages /\ after \in {"select", "ack", "close"}
  BY DEF IInv, TypeOK
<1>1. ASSUME UNCHANGED <<drainer, entry, event>>,
             Ending' => Ending, opc' \in {"close", "stopped"} => Batch = {}
      PROVE  ClosedInv'
  BY <1>1 DEF ChannelClosed, Batch
<1>2. ASSUME UNCHANGED <<opc, after>>, ~ ChannelClosed PROVE ClosedInv'
  BY <1>2
<1>3. CASE DrainerPop
  BY <1>2, <1>3 DEF DrainerPop, ChannelClosed
<1>4. ASSUME NEW s \in Seqs, DrainerRegister(s) \/ DrainerSend(s) \/ WorkerBlock(s)
      PROVE ClosedInv'
  BY <1>2, <1>4 DEF DrainerRegister, DrainerSend, WorkerBlock, ChannelClosed
<1>5. ASSUME NEW s \in Seqs, NEW k \in 0 .. MaxFanout, NEW f \in BOOLEAN,
             NEW c \in BOOLEAN, FilterChain(s, k, f, c)
      PROVE  ClosedInv'
  BY <1>2, <1>5 DEF FilterChain, ChannelClosed
<1>6. ASSUME NEW s \in Seqs, NEW m \in [1 .. fan[s] -> SUBSET Outputs],
             WorkerFanout(s, m)
      PROVE  ClosedInv'
  BY <1>2, <1>6 DEF WorkerFanout, ChannelClosed
<1>7. ASSUME NEW d \in Derived, WorkerSend(d) PROVE ClosedInv'
  BY <1>2, <1>7 DEF WorkerSend, ChannelClosed
<1>8. ASSUME NEW d \in Derived, OutputRecv(d) PROVE ClosedInv'
  BY <1>8 DEF OutputRecv
<1>9. ASSUME NEW d \in Derived, Complete(d) PROVE ClosedInv'
  <2>1. PICK stage \in {"lost", "done"} : event' = [event EXCEPT ![d] = stage]
    BY <1>9 DEF Complete
  <2>2. /\ UNCHANGED <<opc, after, drainer, entry>> /\ opc = "send"
    BY <1>9 DEF Complete
  <2>3. ChannelClosed => ChannelClosed'
    BY <1>0, <2>1, <2>2 DEF ChannelClosed
  <2> QED
    BY <2>2, <2>3
<1>10. CASE Restart
  BY <1>10 DEF Restart
<1>11. ASSUME NEW c \in BOOLEAN, DrainerStop(c) PROVE ClosedInv'
  BY <1>2, <1>11 DEF DrainerStop, ChannelClosed
<1>12. ASSUME NEW c \in BOOLEAN, Push(c) PROVE ClosedInv'
  BY <1>1, <1>12 DEF Push
<1>13. CASE OutputClosed
  <2>1. ChannelClosed' /\ Batch' = Batch
    BY <1>13 DEF OutputClosed, ChannelClosed, Batch
  <2>2. opc' \in {"close", "stopped"} => Batch = {}
    BY <1>13 DEF OutputClosed
  <2> QED
    BY <2>1, <2>2
<1>14. CASE SendDone
  BY <1>0, <1>1, <1>14 DEF SendDone
<1>15. ASSUME \/ FlushTick \/ AckStart \/ FlushOk \/ FlushErr
              \/ Shutdown \/ UNCHANGED vars
       PROVE  ClosedInv'
  BY <1>1, <1>15 DEF FlushTick, AckStart, FlushOk, FlushErr, Shutdown, vars
<1>16. ASSUME NEW u \in BOOLEAN, OutputOk(u) PROVE ClosedInv'
  BY <1>1, <1>16 DEF OutputOk
<1>17. ASSUME NEW C \in SUBSET Batch, OutputErr(C) PROVE ClosedInv'
  BY <1>1, <1>17 DEF OutputErr
<1>18. ASSUME NEW ok \in BOOLEAN, NEW dr \in BOOLEAN, CloseOutput(ok, dr)
       PROVE  ClosedInv'
  BY <1>1, <1>18 DEF CloseOutput
<1>19. ASSUME NEW r \in Results, FlushDone(r) \/ FinalAck(r) PROVE ClosedInv'
  BY <1>1, <1>19 DEF FlushDone, FinalAck
<1> QED
  BY <1>3, <1>4, <1>5, <1>6, <1>7, <1>8, <1>9, <1>10, <1>11, <1>12, <1>13, <1>14,
     <1>15, <1>16, <1>17, <1>18, <1>19
  DEF Next

\* Only a fault loses an event, blocks the tracker or fails a close.
LEMMA CleanStep == ASSUME IInv, CleanInv, [Next]_vars PROVE CleanInv'
<1> USE MaxSeqAssumption, NoneAssumption
<1> USE DEF CleanInv, queueVars, stageVars, eventVars, outputVars, envVars
<1>0. /\ tracker \in AckState /\ filterLost \in [Seqs -> BOOLEAN]
      /\ event \in [Derived -> EventStages] /\ faults \in Nat
  BY DEF IInv, TypeOK
<1>1. ASSUME Fault PROVE CleanInv'
  BY <1>0, <1>1 DEF Fault
<1>2. ASSUME UNCHANGED <<faults, lost, allDurable, filterLost>>,
             tracker'.minBlocked = tracker.minBlocked,
             \A d \in Derived : event'[d] = "lost" => event[d] = "lost"
      PROVE  CleanInv'
  BY <1>2
<1>3. ASSUME NEW s \in Seqs, DrainerRegister(s) PROVE CleanInv'
  <2>1. register(tracker, s).minBlocked = tracker.minBlocked
    BY <1>0, RegisterFacts
  <2> QED
    BY <1>2, <1>3, <2>1 DEF DrainerRegister
<1>4. ASSUME NEW s \in Seqs, WorkerBlock(s) PROVE CleanInv'
  <2>1. CASE faults = 0
    <3>1. ~ filterLost[s]
      BY <2>1
    <3> QED
      BY <1>2, <1>4, <3>1 DEF WorkerBlock
  <2>2. CASE faults # 0
    BY <1>4, <2>2 DEF WorkerBlock
  <2> QED
    BY <2>1, <2>2
<1>5. ASSUME NEW s \in Seqs, NEW k \in 0 .. MaxFanout, NEW f \in BOOLEAN,
             NEW c \in BOOLEAN, FilterChain(s, k, f, c)
      PROVE  CleanInv'
  <2>1. CASE f
    BY <1>1, <1>5, <2>1 DEF FilterChain
  <2>2. CASE ~ f
    <3>1. filterLost' = [filterLost EXCEPT ![s] = FALSE]
      BY <1>5, <2>2, Zenon DEF FilterChain
    <3>2. UNCHANGED <<faults, lost, allDurable, tracker, event>>
      BY <1>5, <2>2 DEF FilterChain
    <3>3. \A r \in Seqs : filterLost'[r] => filterLost[r]
      BY <1>0, <3>1, Zenon
    <3> QED
      BY <3>2, <3>3
  <2> QED
    BY <2>1, <2>2
<1>6. ASSUME NEW s \in Seqs, NEW m \in [1 .. fan[s] -> SUBSET Outputs],
             WorkerFanout(s, m)
      PROVE  CleanInv'
  <2>1. fan[s] \in Nat
    BY PipelineAssumption DEF IInv, TypeOK
  <2>2. set_fanout(tracker, s, fan[s]).minBlocked = tracker.minBlocked
    BY <1>0, <2>1, FanoutKeeps
  <2>3. \A d \in Derived : event'[d] = "lost" => event[d] = "lost"
    BY <1>6 DEF WorkerFanout
  <2> QED
    BY <1>2, <1>6, <2>2, <2>3 DEF WorkerFanout
<1>7. ASSUME NEW d \in Derived, WorkerSend(d) \/ OutputRecv(d) PROVE CleanInv'
  <2>1. PICK stage \in EventStages \ {"lost"} : event' = [event EXCEPT ![d] = stage]
    BY <1>7 DEF WorkerSend, OutputRecv, EventStages
  <2> QED
    BY <1>0, <1>2, <1>7, <2>1 DEF WorkerSend, OutputRecv
<1>8. ASSUME NEW d \in Derived, Complete(d) PROVE CleanInv'
  <2>1. d[1] \in Seqs
    BY DEF Derived
  <2>2. complete(tracker, d[1]).minBlocked = tracker.minBlocked
    BY <1>0, <2>1, CompleteFacts
  <2>3. UNCHANGED <<faults, lost, allDurable, filterLost>>
    BY <1>8 DEF Complete
  <2>4. CASE d \in lost
    BY <1>8, <2>3, <2>4 DEF Complete
  <2>5. CASE d \notin lost
    <3>1. tracker'.minBlocked = tracker.minBlocked
          /\ event' = [event EXCEPT ![d] = "done"]
      BY <1>8, <2>2, <2>5 DEF Complete
    <3> QED
      BY <1>0, <1>2, <2>3, <3>1
  <2> QED
    BY <2>4, <2>5
<1>9. CASE Restart
  BY <1>9, NewFacts DEF Restart
<1>10. ASSUME NEW c \in BOOLEAN, Push(c) PROVE CleanInv'
  BY <1>2, <1>10 DEF Push
<1>11. ASSUME NEW c \in BOOLEAN, DrainerStop(c) PROVE CleanInv'
  BY <1>1, <1>2, <1>11 DEF DrainerStop
<1>12. ASSUME NEW s \in Seqs, DrainerSend(s) PROVE CleanInv'
  BY <1>2, <1>12 DEF DrainerSend
<1>13. ASSUME \/ DrainerPop \/ FlushTick \/ OutputClosed \/ SendDone \/ AckStart
              \/ FlushOk \/ FlushErr \/ Shutdown \/ UNCHANGED vars
       PROVE  CleanInv'
  BY <1>1, <1>2, <1>13 DEF DrainerPop, FlushTick, OutputClosed, SendDone, AckStart,
     FlushOk, FlushErr, Shutdown, vars
<1>14. ASSUME NEW u \in BOOLEAN, OutputOk(u) PROVE CleanInv'
  BY <1>2, <1>14 DEF OutputOk
<1>15. ASSUME NEW C \in SUBSET Batch, OutputErr(C) PROVE CleanInv'
  BY <1>1, <1>15 DEF OutputErr
<1>16. ASSUME NEW ok \in BOOLEAN, NEW dr \in BOOLEAN, CloseOutput(ok, dr)
       PROVE  CleanInv'
  BY <1>1, <1>2, <1>16 DEF CloseOutput
<1>17. ASSUME NEW r \in Results, FlushDone(r) \/ FinalAck(r) PROVE CleanInv'
  BY <1>1, <1>2, <1>17 DEF FlushDone, FinalAck, PqAck
<1> QED
  BY <1>3, <1>4, <1>5, <1>6, <1>7, <1>8, <1>9, <1>10, <1>11, <1>12, <1>13, <1>14,
     <1>15, <1>16, <1>17
  DEF Next

\* When the channel is closed and nothing failed, no count is left: the ack point is
\* one past the last entry popped, unless that entry is acknowledged already.
LEMMA FinalPoint ==
  ASSUME IInv, StopInv, opc = "close", faults = 0
  PROVE  /\ ack_point(tracker) = None => cpAck = readSeq
         /\ ack_point(tracker) # None => cpAck = readSeq \/ ack_point(tracker) = readSeq
<1> USE MaxSeqAssumption, NoneAssumption
<1>0. /\ tracker \in AckState /\ entry \in [Seqs -> EntryStages] /\ Seqs \subseteq Nat
      /\ readSeq \in 0 .. MaxSeq /\ cpAck \in Nat /\ cpAck <= readSeq
      /\ event \in [Derived -> EventStages] /\ MaxFanout \in Nat
      /\ fan \in [Seqs -> 0 .. MaxFanout]
  BY PipelineAssumption DEF IInv, TypeOK, CursorInv, Seqs
<1>1. ChannelClosed /\ Batch = {}
  BY DEF StopInv, ClosedInv
<1>2. tracker.minBlocked = None /\ \A d \in Derived : event[d] # "lost"
  BY DEF StopInv, CleanInv
<1>3. ASSUME NEW s \in Seqs PROVE tracker.outstanding[s] = 0
  <2>1. CASE entry[s] = "queued"
    BY <2>1 DEF IInv, CountInv, Counted
  <2>2. CASE entry[s] = "fanned"
    <3>1. ASSUME NEW i \in 1 .. fan[s] PROVE event[<<s, i>>] = "done"
      <4>1. <<s, i>> \in Derived
        BY <1>0 DEF Derived
      <4>2. event[<<s, i>>] # "none"
        BY <2>2 DEF StopInv, FannedInv
      <4>3. event[<<s, i>>] \notin {"worker", "outq", "batch", "lost"}
        BY <1>1, <1>2, <4>1 DEF ChannelClosed, Batch
      <4> QED
        BY <1>0, <4>1, <4>2, <4>3 DEF EventStages
    <3>2. Open(s) = {}
      BY <3>1 DEF Open
    <3>3. Cardinality(Open(s)) = 0
      BY <3>2, FS_EmptySet
    <3> QED
      BY <2>2, <3>3 DEF IInv, CountInv, Counted
  <2> QED
    BY <1>1, <2>1, <2>2 DEF ChannelClosed
<1>4. Pins(tracker) = {}
  BY <1>2, <1>3 DEF Pins
<1>5. ack_point(tracker) = IF tracker.highest = None THEN None ELSE tracker.highest + 1
  BY <1>4, Zenon DEF ack_point
<1>6. CASE cpAck < readSeq
  <2>1. readSeq - 1 \in Seqs /\ cpAck <= readSeq - 1
    BY <1>0, <1>6 DEF Seqs
  <2>2. entry[readSeq - 1] # "queued"
    BY <1>0, <2>1 DEF IInv, CursorInv
  <2>3. entry[readSeq - 1] = "fanned"
    BY <1>1, <2>1, <2>2 DEF ChannelClosed
  <2>4. tracker.highest # None /\ readSeq - 1 <= tracker.highest
    BY <2>1, <2>3 DEF StopInv, TopInv, InHand
  <2>5. tracker.highest \in Seqs /\ entry[tracker.highest] \in InHand
    BY <1>0, <2>4 DEF AckState, IInv, HighInv
  <2>6. ~ (readSeq <= tracker.highest)
    <3>1. readSeq <= tracker.highest => entry[tracker.highest] = "queued"
      BY <2>5 DEF IInv, CursorInv
    <3> QED
      BY <2>5, <3>1 DEF InHand, Single
  <2>7. tracker.highest \in Nat /\ readSeq \in Nat
    <3>1. tracker.highest \in Nat
      BY <1>0, <2>5
    <3>2. readSeq \in Nat
      BY <1>0
    <3> QED
      BY <3>1, <3>2
  <2>8. tracker.highest + 1 = readSeq
    BY <2>4, <2>6, <2>7
  <2>9. readSeq # None
    BY <2>7
  <2> QED
    BY <1>5, <2>4, <2>8, <2>9
<1>7. CASE ~ (cpAck < readSeq)
  BY <1>0, <1>7
<1> QED
  BY <1>6, <1>7

\* When the output task ends without a fault, everything popped is acknowledged.
LEMMA StopStep == ASSUME IInv, StopInv, [Next]_vars PROVE CleanStopAcksAll'
<1> USE MaxSeqAssumption, NoneAssumption
<1> USE DEF CleanStopAcksAll, queueVars, stageVars, eventVars, outputVars, envVars
<1>0. /\ TypeOK /\ CursorInv /\ CleanStopAcksAll /\ faults \in Nat
      /\ cpAck \in Nat /\ ackSeq \in Nat /\ readSeq \in Nat /\ lastAcked \in Nat
      /\ cpAck <= ackSeq /\ ackSeq <= readSeq /\ lastAcked <= cpAck
  BY DEF IInv, TypeOK, CursorInv, StopInv, LastInv
<1>1. ASSUME UNCHANGED <<cpAck, readSeq, opc>>, UNCHANGED faults \/ Fault
      PROVE  CleanStopAcksAll'
  BY <1>0, <1>1 DEF Fault
<1>2. ASSUME opc' # "stopped" PROVE CleanStopAcksAll'
  BY <1>2
<1>3. ASSUME NEW r \in Results, FinalAck(r) PROVE CleanStopAcksAll'
  <2> DEFINE p == ack_point(tracker)
  <2>1. SUFFICES ASSUME faults' = 0 PROVE cpAck' = readSeq'
    OBVIOUS
  <2>2. faults = 0 /\ opc = "close"
    BY <1>0, <1>3, <2>1 DEF FinalAck, PqAck, Fault
  <2>3. allDurable
    BY <2>2 DEF StopInv, CleanInv
  <2>4. (p = None => cpAck = readSeq) /\ (p # None => cpAck = readSeq \/ p = readSeq)
    BY <2>2, FinalPoint
  <2>5. CASE p = None \/ ~ (p > lastAcked)
    <3>1. UNCHANGED <<cpAck, readSeq>>
      BY <1>3, <2>5 DEF FinalAck
    <3>2. CASE p = None
      BY <2>4, <3>1, <3>2
    <3>3. CASE p # None /\ ~ (p > lastAcked)
      <4>1. CASE p = readSeq
        BY <1>0, <3>1, <3>3, <4>1
      <4> QED
        BY <2>4, <3>1, <3>3, <4>1
    <3> QED
      BY <2>5, <3>2, <3>3
  <2>6. CASE p # None /\ p > lastAcked
    <3>1. p \in 0 .. MaxSeq /\ p <= readSeq
      BY <2>6, AckPointDone
    <3>2. PqAck(p, r)
      BY <1>3, <2>3, <2>6 DEF FinalAck
    <3>3. r = "ok"
      BY <1>0, <2>1, <2>2, <3>2 DEF PqAck, Fault
    <3>4. /\ cpAck' = Larger(ackSeq, p)
          /\ readSeq' = Larger(readSeq, Larger(ackSeq, p))
      BY <3>2, <3>3 DEF PqAck
    <3>5. cpAck = readSeq \/ p = readSeq
      BY <2>4, <2>6
    <3> HIDE DEF p
    <3> QED
      BY <1>0, <3>1, <3>4, <3>5 DEF Larger
  <2> QED
    BY <2>5, <2>6
<1>4. ASSUME NEW c \in BOOLEAN, Push(c) PROVE CleanStopAcksAll'
  BY <1>2, <1>4 DEF Push
<1>5. CASE opc = "stopped"
  <2>1. /\ drainer = "stopped" /\ \A s \in Seqs : entry[s] \in {"queued", "fanned"}
        /\ \A d \in Derived : event[d] \notin {"worker", "outq"}
    BY <1>5 DEF StopInv, ClosedInv, ChannelClosed
  <2>2. ASSUME DrainerPop \/ \E c \in BOOLEAN : DrainerStop(c) PROVE FALSE
    BY <2>1, <2>2 DEF DrainerPop, DrainerStop
  <2>3. ASSUME NEW s \in Seqs,
               \/ DrainerRegister(s) \/ DrainerSend(s) \/ WorkerBlock(s)
               \/ \E k \in 0 .. MaxFanout, f, c \in BOOLEAN : FilterChain(s, k, f, c)
               \/ \E m \in [1 .. fan[s] -> SUBSET Outputs] : WorkerFanout(s, m)
        PROVE  FALSE
    BY <2>1, <2>3 DEF DrainerRegister, DrainerSend, WorkerBlock, FilterChain, WorkerFanout
  <2>4. ASSUME NEW d \in Derived, WorkerSend(d) \/ OutputRecv(d) \/ Complete(d)
        PROVE  FALSE
    <3>1. ~ WorkerSend(d)
      BY <2>1 DEF WorkerSend
    <3>2. ~ OutputRecv(d) /\ ~ Complete(d)
      BY <1>5 DEF OutputRecv, Complete
    <3> QED
      BY <2>4, <3>1, <3>2
  <2>5. ASSUME \/ FlushTick \/ OutputClosed \/ SendDone \/ AckStart \/ FlushOk \/ FlushErr
               \/ \E u \in BOOLEAN : OutputOk(u)
               \/ \E C \in SUBSET Batch : OutputErr(C)
               \/ \E ok, dr \in BOOLEAN : CloseOutput(ok, dr)
               \/ \E r \in Results : FlushDone(r) \/ FinalAck(r)
        PROVE  FALSE
    BY <1>5, <2>5 DEF FlushTick, OutputClosed, SendDone, AckStart, FlushOk, FlushErr,
       OutputOk, OutputErr, CloseOutput, FlushDone, FinalAck
  <2>6. CASE Shutdown \/ UNCHANGED vars
    BY <1>1, <2>6 DEF Shutdown, vars
  <2>7. CASE Restart
    BY <1>2, <2>7 DEF Restart
  <2> QED
    BY <1>4, <2>2, <2>3, <2>4, <2>5, <2>6, <2>7 DEF Next
<1>6. CASE opc # "stopped" /\ ~ \E r \in Results : FinalAck(r)
  <2>1. opc' # "stopped"
    <3>1. after # "stopped"
      BY DEF IInv, TypeOK
    <3> QED
      BY <1>6, <3>1 DEF Next, Push, DrainerStop, DrainerPop, DrainerRegister, DrainerSend,
         WorkerBlock, FilterChain, WorkerFanout, WorkerSend, OutputRecv, Complete,
         FlushTick, OutputClosed, OutputOk, OutputErr, SendDone, AckStart, FlushOk,
         FlushErr, FlushDone, CloseOutput, Shutdown, Restart, vars
  <2> QED
    BY <1>2, <2>1
<1> QED
  BY <1>3, <1>5, <1>6

\* A clean stop strands nothing, for any number of entries, outputs and derived
\* events: when the output task ends and nothing failed, the checkpoint on disk is at
\* the pop cursor, so that the next run replays none of the delivered entries
\* (the final ack of run_outputs).
THEOREM CleanStopHolds == Spec => []CleanStopAcksAll
<1>1. Init => StopInv
  <2> SUFFICES ASSUME Init PROVE StopInv
    OBVIOUS
  <2>1. LastInv /\ CleanStopAcksAll
    BY DEF Init, LastInv, CleanStopAcksAll
  <2>2. TopInv /\ FannedInv /\ ClosedInv
    BY DEF Init, TopInv, FannedInv, ClosedInv, InHand, Single
  <2>3. CleanInv
    BY NewFacts DEF Init, CleanInv
  <2> QED
    BY <2>1, <2>2, <2>3 DEF StopInv
<1>2. IInv /\ StopInv /\ [Next]_vars => StopInv'
  BY LastStep, TopStep, FannedStep, ClosedStep, CleanStep, StopStep DEF StopInv
<1>3. StopInv => CleanStopAcksAll
  BY DEF StopInv
<1> QED
  BY <1>1, <1>2, <1>3, PipelineInvariant, PTL DEF Spec
=============================================================================
