-------------------------- MODULE PipelineRunProofs -------------------------
(***************************************************************************)
(* Proofs about PipelineRun, for any inputs, workers, channel capacities   *)
(* and batch sizes: type correctness with bounded channels; that a run     *)
(* that has returned has dropped no event (NothingDropped); that a run     *)
(* that is to end is never stuck (NeverStuck); that an event is in one     *)
(* place (HeldOnce); and that every step but the drainer's polling brings  *)
(* the run nearer to its end (WindsDown).                                  *)
(***************************************************************************)
EXTENDS PipelineRun, TLAPS, FiniteSetTheorems

USE DEF inputVars, pqVars, filterVars, outVars, mainVars

-----------------------------------------------------------------------------
(* Type correctness.                                                       *)

\* The part of TypeOK that does not count events.
Typed ==
  /\ config \in Configs
  /\ sent \in [Inputs -> 0 .. PerInput]
  /\ input \in [Inputs -> {"running", "writing", "done"}]
  /\ writerCh \in [Inputs -> SUBSET Events]
  /\ fallback \in [Inputs -> EventOrNone]
  /\ pq \subseteq Events /\ readable \in BOOLEAN
  /\ drainer \in {"loop", "send", "empty", "error", "exited"} /\ dheld \in EventOrNone
  /\ inputCh \subseteq Events
  /\ heldByDist \in EventOrNone /\ dist \in BOOLEAN
  /\ workCh \subseteq Events
  /\ wbatch \in [Workers -> SUBSET Events] /\ workers \subseteq Workers
  /\ outputCh \subseteq Events /\ obatch \subseteq Events /\ output \in BOOLEAN
  /\ handled \subseteq Events
  /\ main \in {"select", "wait", "join", "drainer", "distributor", "workers",
               "output", "returned"}
  /\ handles \subseteq Inputs /\ joining \in Inputs \cup {None}
  /\ inputsDone \in BOOLEAN /\ shutdown \in BOOLEAN /\ failures \in Nat

\* No channel holds more events than its capacity.
Bounded == \A ch \in {inputCh, workCh, outputCh} : Cardinality(ch) <= Cap

\* What the drainer holds while it sends is an event.
HoldsToSend == drainer = "send" => dheld \in Events

\* What waits for a PQ writer is what its input has sent.
WritersHold == \A i \in Inputs : \A e \in writerCh[i] : e[1] = i /\ e[2] <= sent[i]
TypedInv == Typed /\ HoldsToSend /\ WritersHold

\* TypeOK is Typed and Bounded.
LEMMA TypeParts == TypeOK <=> Typed /\ Bounded
BY DEF TypeOK, Typed, Bounded

\* A step of an input, of its PQ writer, keeps the types.
LEMMA TypedInput ==
  ASSUME TypedInv, NEW i \in Inputs, InputSend(i) \/ InputStep(i)
  PROVE  TypedInv'
<1> USE RunAssumption DEF TypedInv, Typed, HoldsToSend, WritersHold, Configs, EventOrNone
<1>1. CASE InputSend(i)
  BY <1>1 DEF InputSend, Events
<1>2. CASE InputReturn(i)
  BY <1>2 DEF InputReturn
<1>3. CASE WriterFallback(i)
  BY <1>3 DEF WriterFallback
<1>4. CASE WriterEnd(i)
  BY <1>4 DEF WriterEnd
<1>5. ASSUME NEW e \in Events, NEW f \in {"ok", "refused", "written"}, WriterPush(i, e, f)
      PROVE  TypedInv'
  <2>1. Copy(e) \in Events
    BY <1>5 DEF WriterPush, Copy, Events
  <2>2. pq' \in {pq, pq \cup {e}, pq \cup {Copy(e)}}
    BY <1>5 DEF WriterPush
  <2>3. pq' \subseteq Events
    BY <2>1, <2>2
  <2>4. failures' \in Nat
    BY <1>5 DEF WriterPush
  <2>5. /\ fallback' \in {fallback, [fallback EXCEPT ![i] = e]}
        /\ writerCh' = [writerCh EXCEPT ![i] = @ \ {e}]
        /\ UNCHANGED <<config, sent, input, readable, drainer, dheld, inputCh, filterVars, outVars,
                       mainVars>>
    BY <1>5 DEF WriterPush
  <2> QED
    BY <2>3, <2>4, <2>5
<1> QED
  BY <1>1, <1>2, <1>3, <1>4, <1>5 DEF InputStep

\* A step of the drainer, the distributor or the queue's files keeps the types.
LEMMA TypedDrainerDist ==
  ASSUME TypedInv, DrainerStep \/ DistStep \/ QueueStep
  PROVE  TypedInv'
<1> USE RunAssumption DEF TypedInv, Typed, HoldsToSend, WritersHold, EventOrNone, DrainerUnchanged
<1>1. CASE DrainerStop
  BY <1>1 DEF DrainerStop
<1>2. CASE DrainerSend
  BY <1>2 DEF DrainerSend
<1>3. CASE DrainerPopNone
  BY <1>3 DEF DrainerPopNone
<1>4. CASE DrainerCheckDone
  BY <1>4 DEF DrainerCheckDone
<1>5. ASSUME NEW e \in Events, DrainerPop(e)
      PROVE  TypedInv'
  BY <1>5 DEF DrainerPop
<1>6. CASE DistSend
  BY <1>6 DEF DistSend
<1>7. CASE DistEnd
  <2>1. dist' \in BOOLEAN
    BY <1>7, Zenon DEF DistEnd
  <2>2. UNCHANGED <<inputVars, pqVars, inputCh, heldByDist, workCh, wbatch, workers, outVars,
                    mainVars>>
    BY <1>7 DEF DistEnd
  <2> QED
    BY <2>1, <2>2
<1>8. ASSUME NEW e \in Events, DistRecv(e)
      PROVE  TypedInv'
  BY <1>8 DEF DistRecv
<1>9. CASE DrainerPopErr
  BY <1>9 DEF DrainerPopErr
<1>10. CASE DrainerRetry
  BY <1>10 DEF DrainerRetry
<1>11. CASE QueueStep
  <2>1. readable' \in BOOLEAN
    BY <1>11, Zenon DEF QueueStep, QueueBreaks, QueueHeals
  <2>2. UNCHANGED <<inputVars, pq, drainer, dheld, inputCh, filterVars, outVars, mainVars>>
    BY <1>11 DEF QueueStep, QueueBreaks, QueueHeals
  <2> QED
    BY <2>1, <2>2
<1> QED
  BY <1>1, <1>2, <1>3, <1>4, <1>5, <1>6, <1>7, <1>8, <1>9, <1>10, <1>11
  DEF DrainerStep, DistStep

\* A step of a worker or of the output task keeps the types.
LEMMA TypedWorkerOutput ==
  ASSUME TypedInv, OutputStep \/ \E w \in Workers : WorkerStep(w)
  PROVE  TypedInv'
<1> USE RunAssumption DEF TypedInv, Typed, HoldsToSend, WritersHold, EventOrNone
<1>1. ASSUME NEW w \in Workers, WorkerEnd(w)
      PROVE  TypedInv'
  BY <1>1 DEF WorkerEnd
<1>2. ASSUME NEW w \in Workers, NEW B \in SUBSET workCh, WorkerTake(w, B)
      PROVE  TypedInv'
  BY <1>2 DEF WorkerTake
<1>3. ASSUME NEW w \in Workers, NEW e \in Events, NEW d \in BOOLEAN, WorkerFilter(w, e, d)
      PROVE  TypedInv'
  BY <1>3 DEF WorkerFilter
<1>4. CASE OutputTick
  BY <1>4 DEF OutputTick
<1>5. CASE OutputEnd
  <2>1. output' \in BOOLEAN
    BY <1>5, Zenon DEF OutputEnd
  <2>2. /\ handled' = handled \cup obatch /\ obatch' = {}
        /\ UNCHANGED <<inputVars, pqVars, inputCh, filterVars, outputCh, mainVars>>
    BY <1>5 DEF OutputEnd
  <2> QED
    BY <2>1, <2>2
<1>6. ASSUME NEW e \in Events, OutputRecv(e)
      PROVE  TypedInv'
  BY <1>6 DEF OutputRecv
<1> QED
  BY <1>1, <1>2, <1>3, <1>4, <1>5, <1>6 DEF OutputStep, WorkerStep

\* A step of run() itself keeps the types and touches no event.
LEMMA TypedMain ==
  ASSUME TypedInv, MainStep \/ Shutdown
  PROVE  TypedInv'
<1> USE RunAssumption DEF TypedInv, Typed, HoldsToSend, WritersHold, MainUnchanged
<1>1. CASE Shutdown
  BY <1>1 DEF Shutdown
<1>2. ASSUME NEW i \in Inputs, JoinPop(i)
      PROVE  TypedInv'
  BY <1>2 DEF JoinPop
<1>3. CASE Joined \/ SelectShutdown \/ SelectInputsDone \/ WaitShutdown
  <2>1. /\ main' \in {main, "join", "wait"} /\ joining' \in {joining, None}
        /\ UNCHANGED <<handles, inputsDone, shutdown>> /\ MainUnchanged
    BY <1>3 DEF Joined, SelectShutdown, SelectInputsDone, WaitShutdown
  <2> QED
    BY <2>1
<1>5. CASE InputsJoined
  <2>1. inputsDone' \in BOOLEAN
    BY <1>5, Zenon DEF InputsJoined
  <2>2. main' = "drainer" /\ UNCHANGED <<handles, joining, shutdown>> /\ MainUnchanged
    BY <1>5 DEF InputsJoined
  <2> QED
    BY <2>1, <2>2
<1>4. CASE AwaitDrainer \/ AwaitDistributor \/ AwaitWorkers \/ AwaitOutput
  <2>1. /\ main' \in {"distributor", "workers", "output", "returned"}
        /\ UNCHANGED <<handles, joining, inputsDone, shutdown>> /\ MainUnchanged
    BY <1>4 DEF AwaitDrainer, AwaitDistributor, AwaitWorkers, AwaitOutput, Await
  <2> QED
    BY <2>1
<1> QED
  BY <1>1, <1>2, <1>3, <1>4, <1>5 DEF MainStep

\* Sets of events are finite.
LEMMA EventsFinite == \A S \in SUBSET Events : IsFiniteSet(S)
<1>1. IsFiniteSet(1 .. PerInput + PerInput)
  <2>1. PerInput + PerInput \in Int /\ 1 \in Int
    BY RunAssumption
  <2> QED
    BY <2>1, FS_Interval
<1>2. IsFiniteSet(Events)
  BY <1>1, FS_Product, RunAssumption DEF Events
<1> QED
  BY <1>2, FS_Subset

\* Sending to a channel with room, and taking from it, respects its capacity.
LEMMA ChannelSteps ==
  ASSUME NEW ch \in SUBSET Events, NEW new \in SUBSET Events, Cardinality(ch) <= Cap,
         new \subseteq ch \/ (HasRoom(ch) /\ \E e : new = ch \cup {e})
  PROVE  Cardinality(new) <= Cap
<1>1. IsFiniteSet(ch) /\ IsFiniteSet(new)
  BY EventsFinite
<1>2. Cardinality(ch) \in Nat /\ Cardinality(new) \in Nat /\ Cap \in Nat
  BY <1>1, FS_CardinalityType, RunAssumption
<1>3. CASE new \subseteq ch
  <2>1. Cardinality(new) <= Cardinality(ch)
    BY <1>1, <1>3, FS_Subset
  <2> QED
    BY <2>1, <1>2
<1>4. ASSUME HasRoom(ch), NEW e, new = ch \cup {e}
      PROVE  Cardinality(new) <= Cap
  <2>1. Cardinality(new) <= Cardinality(ch) + 1
    BY <1>1, <1>2, <1>4, FS_AddElement
  <2> QED
    BY <2>1, <1>2, <1>4 DEF HasRoom
<1> QED
  BY <1>3, <1>4

\* What a step may do to a channel: take from it, or put one event into its room.
ChannelMove(ch, new) == new \subseteq ch \/ (HasRoom(ch) /\ \E e : new = ch \cup {e})

\* Every step moves each of the three channels that way.
LEMMA ChannelMoves ==
  ASSUME [Next]_vars
  PROVE  /\ ChannelMove(inputCh, inputCh')
         /\ ChannelMove(workCh, workCh')
         /\ ChannelMove(outputCh, outputCh')
<1> USE DEF ChannelMove
<1>1. ASSUME NEW i \in Inputs, InputSend(i)
      PROVE  /\ ChannelMove(inputCh, inputCh')
             /\ ChannelMove(workCh, workCh')
             /\ ChannelMove(outputCh, outputCh')
  BY <1>1 DEF InputSend
<1>2. ASSUME NEW i \in Inputs, InputStep(i)
      PROVE  /\ ChannelMove(inputCh, inputCh')
             /\ ChannelMove(workCh, workCh')
             /\ ChannelMove(outputCh, outputCh')
  BY <1>2 DEF InputStep, InputReturn, WriterFallback, WriterEnd, WriterPush
<1>3. CASE DrainerStep
  BY <1>3 DEF DrainerStep, DrainerStop, DrainerSend, DrainerPopNone, DrainerCheckDone,
              DrainerPop, DrainerPopErr, DrainerRetry, DrainerUnchanged
<1>4. CASE DistStep
  BY <1>4 DEF DistStep, DistSend, DistEnd, DistRecv
<1>5. ASSUME NEW w \in Workers, WorkerStep(w)
      PROVE  /\ ChannelMove(inputCh, inputCh')
             /\ ChannelMove(workCh, workCh')
             /\ ChannelMove(outputCh, outputCh')
  BY <1>5 DEF WorkerStep, WorkerEnd, WorkerTake, WorkerFilter
<1>6. CASE OutputStep
  BY <1>6 DEF OutputStep, OutputTick, OutputEnd, OutputRecv
<1>7. CASE MainStep
  BY <1>7 DEF MainStep, MainUnchanged, JoinPop, Joined, SelectShutdown, SelectInputsDone,
              WaitShutdown, InputsJoined, AwaitDrainer, AwaitDistributor, AwaitWorkers,
              AwaitOutput, Await
<1>8. CASE Shutdown
  BY <1>8 DEF Shutdown, MainUnchanged
<1>9. CASE QueueStep \/ UNCHANGED vars
  BY <1>9 DEF vars, QueueStep, QueueBreaks, QueueHeals, DrainerUnchanged
<1> QED
  BY <1>1, <1>2, <1>3, <1>4, <1>5, <1>6, <1>7, <1>8, <1>9 DEF Next

\* Every step keeps the types.
LEMMA TypedStep ==
  ASSUME TypedInv, [Next]_vars
  PROVE  TypedInv'
<1>1. CASE UNCHANGED vars
  BY <1>1 DEF vars, TypedInv, Typed, HoldsToSend, WritersHold
<1> QED
  BY <1>1, TypedInput, TypedDrainerDist, TypedWorkerOutput, TypedMain DEF Next

\* The initial states are typed.
LEMMA InitTyped == Init => TypedInv
<1>1. 0 \in 0 .. PerInput /\ 0 \in Nat
  BY RunAssumption
<1> SUFFICES ASSUME Init PROVE TypedInv
  OBVIOUS
<1>2. drainer \in {"loop", "exited"}
  BY Zenon DEF Init
<1>3. Typed
  BY <1>1, <1>2, Zenon DEF Init, Typed, EventOrNone
<1> QED
  BY <1>2, <1>3 DEF TypedInv, HoldsToSend, WritersHold, Init

\* A channel never holds more than its capacity, and every variable has its type:
\* the bounded channels of Pipeline::run give back-pressure, they do not grow.
THEOREM TypeCorrect == Spec => []TypeOK
<1>1. Init => TypedInv
  BY InitTyped
<1>2. Init => Bounded
  <2>1. Cardinality({}) <= Cap
    BY FS_EmptySet, RunAssumption
  <2> QED
    BY <2>1, Zenon DEF Init, Bounded
<1>3. TypedInv /\ [Next]_vars => TypedInv'
  BY TypedStep
<1>4. TypedInv /\ TypedInv' /\ Bounded /\ [Next]_vars => Bounded'
  BY ChannelMoves, ChannelSteps DEF Bounded, ChannelMove, TypedInv, Typed
<1> QED
  BY <1>1, <1>2, <1>3, <1>4, TypeParts, PTL DEF Spec, TypedInv

-----------------------------------------------------------------------------
(* NothingDropped.                                                         *)

\* An event is where a channel, a task's hand, the persistent queue or an output
\* holds it.
Somewhere(e) ==
  \/ e \in handled \cup pq
  \/ \E i \in Inputs : e \in writerCh[i] \/ e = fallback[i]
  \/ e = dheld \/ e \in inputCh \/ e = heldByDist \/ e \in workCh
  \/ \E w \in Workers : e \in wbatch[w]
  \/ e \in outputCh \/ e \in obatch

\* No event that was sent is nowhere.
Conserved == \A e \in Sent : Somewhere(e)

\* What a task leaves behind when it ends, and what had to end before it.
InputsClosed ==
  \A i \in Inputs : input[i] = "done" \/ ~config.pq => writerCh[i] = {} /\ fallback[i] = None
DrainerClosed == drainer # "send" => dheld = None
DistClosed == ~dist => heldByDist = None /\ inputCh = {} /\ InputChClosed
WorkersClosed ==
  /\ \A w \in Workers \ workers : wbatch[w] = {}
  /\ workers # Workers => ~dist /\ workCh = {}
OutputClosed == ~output => workers = {} /\ outputCh = {} /\ obatch = {}
MainClosed == main = "returned" => ~output

\* The tasks end in the order of the pipeline, each with empty hands.
WindDown ==
  /\ InputsClosed /\ DrainerClosed /\ DistClosed
  /\ WorkersClosed /\ OutputClosed /\ MainClosed

\* A step of an input or its PQ writer keeps the order of the wind-down.
LEMMA WindDownInput ==
  ASSUME TypedInv, WindDown, NEW i \in Inputs, InputSend(i) \/ InputStep(i)
  PROVE  WindDown'
<1> USE RunAssumption
        DEF TypedInv, Typed, Configs, WindDown, InputsClosed, DrainerClosed, DistClosed,
            WorkersClosed, OutputClosed, MainClosed, InputChClosed
<1>1. CASE InputSend(i)
  BY <1>1 DEF InputSend
<1>2. CASE InputReturn(i)
  BY <1>2 DEF InputReturn
<1>3. CASE WriterFallback(i)
  BY <1>3 DEF WriterFallback
<1>4. CASE WriterEnd(i)
  BY <1>4 DEF WriterEnd
<1>5. ASSUME NEW e \in Events, NEW f \in {"ok", "refused", "written"}, WriterPush(i, e, f)
      PROVE  WindDown'
  BY <1>5 DEF WriterPush
<1> QED
  BY <1>1, <1>2, <1>3, <1>4, <1>5 DEF InputStep

\* A step of the drainer or the distributor keeps it: the drainer that has exited
\* sends no more, and the distributor ends with its channel closed and empty.
LEMMA WindDownDrainerDist ==
  ASSUME TypedInv, WindDown, DrainerStep \/ DistStep \/ QueueStep
  PROVE  WindDown'
<1> USE RunAssumption
        DEF TypedInv, Typed, WindDown, InputsClosed, DrainerClosed, DistClosed,
            WorkersClosed, OutputClosed, MainClosed, InputChClosed, DrainerUnchanged
<1>1. CASE DrainerStop
  BY <1>1 DEF DrainerStop
<1>2. CASE DrainerSend
  BY <1>2 DEF DrainerSend
<1>3. CASE DrainerPopNone
  BY <1>3 DEF DrainerPopNone
<1>4. CASE DrainerCheckDone
  BY <1>4 DEF DrainerCheckDone
<1>5. ASSUME NEW e \in Events, DrainerPop(e)
      PROVE  WindDown'
  BY <1>5 DEF DrainerPop
<1>6. CASE DistSend
  BY <1>6 DEF DistSend
<1>7. CASE DistEnd
  BY <1>7 DEF DistEnd
<1>8. ASSUME NEW e \in Events, DistRecv(e)
      PROVE  WindDown'
  BY <1>8 DEF DistRecv
<1>9. CASE DrainerPopErr
  BY <1>9 DEF DrainerPopErr
<1>10. CASE DrainerRetry
  BY <1>10 DEF DrainerRetry
<1>11. CASE QueueStep
  <2>1. readable' \in BOOLEAN
    BY <1>11, Zenon DEF QueueStep, QueueBreaks, QueueHeals
  <2>2. UNCHANGED <<inputVars, pq, drainer, dheld, inputCh, filterVars, outVars, mainVars>>
    BY <1>11 DEF QueueStep, QueueBreaks, QueueHeals
  <2> QED
    BY <2>1, <2>2
<1> QED
  BY <1>1, <1>2, <1>3, <1>4, <1>5, <1>6, <1>7, <1>8, <1>9, <1>10, <1>11
  DEF DrainerStep, DistStep

\* A step of a worker or of the output task keeps it.
LEMMA WindDownWorkerOutput ==
  ASSUME TypedInv, WindDown, OutputStep \/ \E w \in Workers : WorkerStep(w)
  PROVE  WindDown'
<1> USE RunAssumption
        DEF TypedInv, Typed, WindDown, InputsClosed, DrainerClosed, DistClosed,
            WorkersClosed, OutputClosed, MainClosed, InputChClosed
<1>1. ASSUME NEW w \in Workers, WorkerEnd(w)
      PROVE  WindDown'
  BY <1>1 DEF WorkerEnd
<1>2. ASSUME NEW w \in Workers, NEW B \in SUBSET workCh, WorkerTake(w, B)
      PROVE  WindDown'
  BY <1>2 DEF WorkerTake
<1>3. ASSUME NEW w \in Workers, NEW e \in Events, NEW d \in BOOLEAN, WorkerFilter(w, e, d)
      PROVE  WindDown'
  BY <1>3 DEF WorkerFilter
<1>4. CASE OutputTick
  BY <1>4 DEF OutputTick
<1>5. CASE OutputEnd
  BY <1>5 DEF OutputEnd
<1>6. ASSUME NEW e \in Events, OutputRecv(e)
      PROVE  WindDown'
  BY <1>6 DEF OutputRecv
<1> QED
  BY <1>1, <1>2, <1>3, <1>4, <1>5, <1>6 DEF OutputStep, WorkerStep

\* A step of run() keeps it: run() awaits the tasks in their order and never goes back.
LEMMA WindDownMain ==
  ASSUME TypedInv, WindDown, MainStep \/ Shutdown
  PROVE  WindDown'
<1> USE DEF WindDown, InputsClosed, DrainerClosed, DistClosed, WorkersClosed, OutputClosed,
            MainClosed, InputChClosed, MainUnchanged
<1>1. CASE Shutdown
  BY <1>1 DEF Shutdown
<1>2. ASSUME NEW i \in Inputs, JoinPop(i)
      PROVE  WindDown'
  BY <1>2 DEF JoinPop
<1>3. CASE Joined \/ SelectShutdown \/ SelectInputsDone \/ WaitShutdown \/ InputsJoined
  BY <1>3 DEF Joined, SelectShutdown, SelectInputsDone, WaitShutdown, InputsJoined
<1>4. CASE AwaitDrainer \/ AwaitDistributor \/ AwaitWorkers \/ AwaitOutput
  BY <1>4 DEF AwaitDrainer, AwaitDistributor, AwaitWorkers, AwaitOutput, Await
<1> QED
  BY <1>1, <1>2, <1>3, <1>4 DEF MainStep

\* Every step keeps the order of the wind-down.
LEMMA WindDownStep ==
  ASSUME TypedInv, WindDown, [Next]_vars
  PROVE  WindDown'
<1>1. CASE UNCHANGED vars
  BY <1>1 DEF vars, WindDown, InputsClosed, DrainerClosed, DistClosed, WorkersClosed,
              OutputClosed, MainClosed, InputChClosed
<1> QED
  BY <1>1, WindDownInput, WindDownDrainerDist, WindDownWorkerOutput, WindDownMain DEF Next

\* An event that is somewhere stays somewhere: every step hands it on.
LEMMA HandedOn ==
  ASSUME TypedInv, DrainerClosed, [Next]_vars, NEW e \in Events, Somewhere(e)
  PROVE  Somewhere(e)'
<1> USE RunAssumption DEF TypedInv, Typed, HoldsToSend, DrainerClosed, Somewhere
<1>1. ASSUME NEW i \in Inputs, InputSend(i)
      PROVE  Somewhere(e)'
  BY <1>1 DEF InputSend
<1>2. ASSUME NEW i \in Inputs, InputReturn(i) \/ WriterEnd(i)
      PROVE  Somewhere(e)'
  BY <1>2 DEF InputReturn, WriterEnd
<1>3. ASSUME NEW i \in Inputs, WriterFallback(i)
      PROVE  Somewhere(e)'
  BY <1>3 DEF WriterFallback
<1>4. ASSUME NEW i \in Inputs, NEW x \in Events, NEW f \in {"ok", "refused", "written"},
             WriterPush(i, x, f)
      PROVE  Somewhere(e)'
  BY <1>4 DEF WriterPush
<1>5. CASE DrainerStep
  BY <1>5 DEF DrainerStep, DrainerStop, DrainerSend, DrainerPopNone, DrainerCheckDone,
              DrainerPop, DrainerPopErr, DrainerRetry, DrainerUnchanged
<1>6. CASE DistStep
  BY <1>6 DEF DistStep, DistSend, DistEnd, DistRecv
<1>7. ASSUME NEW w \in Workers, WorkerStep(w)
      PROVE  Somewhere(e)'
  BY <1>7 DEF WorkerStep, WorkerEnd, WorkerTake, WorkerFilter
<1>8. CASE OutputStep
  <2>1. CASE OutputTick
    BY <2>1 DEF OutputTick
  <2>2. CASE OutputEnd
    BY <2>2 DEF OutputEnd
  <2>3. ASSUME NEW x \in Events, OutputRecv(x)
        PROVE  Somewhere(e)'
    BY <2>3 DEF OutputRecv
  <2> QED
    BY <1>8, <2>1, <2>2, <2>3 DEF OutputStep
<1>9. CASE MainStep
  BY <1>9 DEF MainStep, MainUnchanged, JoinPop, Joined, SelectShutdown, SelectInputsDone,
              WaitShutdown, InputsJoined, AwaitDrainer, AwaitDistributor, AwaitWorkers,
              AwaitOutput, Await
<1>10. CASE Shutdown
  BY <1>10 DEF Shutdown, MainUnchanged
<1>11. CASE QueueStep \/ UNCHANGED vars
  BY <1>11 DEF vars, QueueStep, QueueBreaks, QueueHeals, DrainerUnchanged
<1> QED
  BY <1>1, <1>2, <1>3, <1>4, <1>5, <1>6, <1>7, <1>8, <1>9, <1>10, <1>11
  DEF Next, InputStep

\* A step sends at most one event, and that event is then in a channel.
LEMMA NewlySent ==
  ASSUME TypedInv, [Next]_vars, NEW e \in Sent', e \notin Sent
  PROVE  Somewhere(e)'
<1>1. e \in Events
  BY DEF Sent
<1>2. PICK i \in Inputs : InputSend(i)
  BY DEF Next, vars, Sent, InputStep, InputReturn, WriterFallback, WriterEnd, WriterPush,
         DrainerStep, DrainerStop, DrainerSend, DrainerPopNone, DrainerCheckDone,
         DrainerPop, DrainerPopErr, DrainerRetry, DrainerUnchanged, QueueStep, QueueBreaks,
         QueueHeals, DistStep, DistSend, DistEnd, DistRecv,
         WorkerStep, WorkerEnd, WorkerTake, WorkerFilter,
         OutputStep, OutputTick, OutputEnd, OutputRecv,
         Shutdown, MainStep, MainUnchanged, JoinPop, Joined, SelectShutdown,
         SelectInputsDone, WaitShutdown, InputsJoined, AwaitDrainer, AwaitDistributor,
         AwaitWorkers, AwaitOutput, Await
<1>3. e = <<i, sent[i] + 1>>
  BY <1>1, <1>2, RunAssumption DEF Sent, Events, InputSend, TypedInv, Typed
<1> QED
  BY <1>2, <1>3 DEF InputSend, Somewhere, TypedInv, Typed

\* When run() returns every task before it has ended, with nothing in its hands
\* and nothing in its channel, so what was sent was handled or is persisted.
LEMMA ReturnedEmpty ==
  ASSUME TypedInv, WindDown, Conserved
  PROVE  NothingDropped
<1> SUFFICES ASSUME main = "returned", NEW e \in Sent
             PROVE  e \in handled \cup pq
  BY DEF NothingDropped
<1>1. workers = {} /\ outputCh = {} /\ obatch = {}
  BY DEF WindDown, MainClosed, OutputClosed
<1>2. ~dist /\ workCh = {} /\ \A w \in Workers : wbatch[w] = {}
  BY <1>1, RunAssumption DEF WindDown, WorkersClosed
<1>3. heldByDist = None /\ inputCh = {} /\ drainer = "exited"
      /\ \A i \in Inputs : input[i] = "done"
  BY <1>2 DEF WindDown, DistClosed, InputChClosed
<1>4. dheld = None /\ \A i \in Inputs : writerCh[i] = {} /\ fallback[i] = None
  BY <1>3 DEF WindDown, DrainerClosed, InputsClosed
<1>5. e \in Events /\ e # None
  BY RunAssumption DEF Sent
<1> QED
  BY <1>1, <1>2, <1>3, <1>4, <1>5 DEF Conserved, Somewhere

\* When run() has returned, every event an input has sent was handled by an output,
\* dropped by a filter, or is in the persistent queue: for any number of inputs and
\* workers, any capacities, any order of the tasks' steps, and whether the run ends by
\* a shutdown or because its inputs are done.
THEOREM NothingDroppedHolds == Spec => []NothingDropped
<1>1. Init => TypedInv /\ WindDown /\ Conserved
  <2> SUFFICES ASSUME Init PROVE WindDown /\ Conserved
    BY InitTyped
  <2>1. WindDown
    BY DEF Init, WindDown, InputsClosed, DrainerClosed, DistClosed, WorkersClosed,
           OutputClosed, MainClosed
  <2>2. Conserved
    BY DEF Init, Conserved, Sent, Events
  <2> QED
    BY <2>1, <2>2
<1>2. TypedInv /\ WindDown /\ Conserved /\ [Next]_vars => (TypedInv /\ WindDown /\ Conserved)'
  <2> SUFFICES ASSUME TypedInv, WindDown, Conserved, [Next]_vars
               PROVE  TypedInv' /\ WindDown' /\ Conserved'
    OBVIOUS
  <2>1. Conserved'
    <3> SUFFICES ASSUME NEW e \in Sent' PROVE Somewhere(e)'
      BY DEF Conserved
    <3> QED
      BY HandedOn, NewlySent DEF Conserved, Sent, WindDown
  <2> QED
    BY <2>1, TypedStep, WindDownStep
<1>3. TypedInv /\ WindDown /\ Conserved => NothingDropped
  BY ReturnedEmpty
<1> QED
  BY <1>1, <1>2, <1>3, PTL DEF Spec

-----------------------------------------------------------------------------
(* NeverStuck.                                                             *)

\* run() waits for a shutdown only without auto-exit, tells the drainer that the
\* inputs are done when it has joined them, and awaits no handle it still holds.
MainOrder ==
  /\ main = "wait" => ~config.autoExit
  /\ main \notin {"select", "wait", "join"} => inputsDone
  /\ joining \notin handles

\* Every step keeps what run() has done in order.
LEMMA MainOrderStep ==
  ASSUME TypedInv, MainOrder, [Next]_vars
  PROVE  MainOrder'
<1> USE RunAssumption DEF TypedInv, Typed, MainOrder, Configs
<1>1. ASSUME UNCHANGED <<config, mainVars>>
      PROVE  MainOrder'
  BY <1>1
<1>2. ASSUME NEW i \in Inputs, InputSend(i) \/ InputStep(i)
      PROVE  UNCHANGED <<config, mainVars>>
  BY <1>2 DEF InputSend, InputStep, InputReturn, WriterFallback, WriterEnd, WriterPush
<1>3. CASE DrainerStep
  BY <1>1, <1>3 DEF DrainerStep, DrainerStop, DrainerSend, DrainerPopNone, DrainerCheckDone,
                    DrainerPop, DrainerPopErr, DrainerRetry, DrainerUnchanged
<1>4. CASE DistStep \/ OutputStep \/ \E w \in Workers : WorkerStep(w)
  BY <1>1, <1>4 DEF DistStep, DistSend, DistEnd, DistRecv, OutputStep, OutputTick, OutputEnd,
                    OutputRecv, WorkerStep, WorkerEnd, WorkerTake, WorkerFilter
<1>5. CASE Shutdown
  BY <1>5 DEF Shutdown, MainUnchanged
<1>6. ASSUME NEW i \in Inputs, JoinPop(i)
      PROVE  MainOrder'
  BY <1>6 DEF JoinPop, MainUnchanged
<1>7. CASE Joined \/ SelectShutdown \/ SelectInputsDone \/ WaitShutdown \/ InputsJoined
  BY <1>7 DEF Joined, SelectShutdown, SelectInputsDone, WaitShutdown, InputsJoined,
              MainUnchanged
<1>8. CASE AwaitDrainer \/ AwaitDistributor \/ AwaitWorkers \/ AwaitOutput
  BY <1>8 DEF AwaitDrainer, AwaitDistributor, AwaitWorkers, AwaitOutput, Await, MainUnchanged
<1>9. CASE QueueStep \/ UNCHANGED vars
  BY <1>1, <1>9 DEF vars, QueueStep, QueueBreaks, QueueHeals, DrainerUnchanged
<1> QED
  BY <1>1, <1>2, <1>3, <1>4, <1>5, <1>6, <1>7, <1>8, <1>9 DEF Next, MainStep

\* An empty channel has room.
LEMMA EmptyHasRoom == HasRoom({})
BY FS_EmptySet, RunAssumption DEF HasRoom

\* If no task could get further, the output task would be waiting for the workers,
\* they for the distributor, it for an input or the drainer, and these for room in
\* a channel that is empty: the circle does not close.
LEMMA NoCircle ==
  ASSUME TypedInv, WindDown, MainOrder
  PROVE  NeverStuck
<1> SUFFICES ASSUME shutdown \/ (config.autoExit /\ config.finite = Inputs),
                    main # "returned",
                    \A i \in Inputs : ~InputForward(i),
                    ~DrainerForward, ~DistForward, \A w \in Workers : ~WorkerForward(w),
                    ~OutputForward, ~MainForward,
                    shutdown \/ readable \/ drainer \notin {"loop", "empty", "error"}
             PROVE  FALSE
  BY DEF NeverStuck
<1> USE RunAssumption, EmptyHasRoom DEF TypedInv, Typed
<1>1. ASSUME ~output
      PROVE  FALSE
  <2>1. workers = {}
    BY <1>1 DEF WindDown, OutputClosed
  <2>2. ~dist
    BY <2>1 DEF WindDown, WorkersClosed
  <2>3. InputChClosed
    BY <2>2 DEF WindDown, DistClosed
  <2> QED
    BY <1>1, <2>1, <2>2, <2>3 DEF InputChClosed, MainForward
<1>2. outputCh = {} /\ workers # {}
  BY <1>1 DEF OutputForward
<1>3. \A w \in Workers : wbatch[w] = {}
  BY <1>2 DEF WorkerForward
<1>4. workCh = {} /\ dist
  BY <1>2, <1>3 DEF WorkerForward
<1>5. heldByDist = None /\ inputCh = {} /\ ~InputChClosed
  BY <1>4 DEF DistForward
<1>6. drainer # "send" /\ (drainer # "exited" => ~shutdown /\ ~inputsDone)
  BY <1>5 DEF DrainerForward
<1>7. \A i \in Inputs : fallback[i] = None /\ writerCh[i] = {} /\ input[i] # "writing"
  BY <1>5 DEF InputForward
<1>8. \A i \in Inputs : HasRoom(writerCh[i])
  BY <1>7
<1>9. \A i \in Inputs : input[i] = "done"
  <2> SUFFICES ASSUME NEW i \in Inputs, input[i] = "running" PROVE FALSE
    BY <1>7
  <2>1. ~shutdown /\ ~(i \in config.finite /\ sent[i] = PerInput)
    BY DEF InputForward
  <2>2. ~(sent[i] < PerInput)
    BY <1>5, <1>8 DEF InputForward
  <2>3. sent[i] \in 0 .. PerInput
    OBVIOUS
  <2>4. sent[i] = PerInput
    BY <2>2, <2>3
  <2> QED
    BY <2>1, <2>4
<1>10. main \notin {"select", "wait", "join"}
  BY <1>9 DEF MainForward, MainOrder
<1> QED
  BY <1>5, <1>6, <1>9, <1>10 DEF InputChClosed, MainOrder

\* No reachable state of a run that is to end is a deadlock: for any number of inputs
\* and workers, any capacities and batch sizes, with and without a persistent queue.
THEOREM NeverStuckHolds == Spec => []NeverStuck
<1>1. Init => TypedInv /\ WindDown /\ MainOrder
  <2>1. Init => WindDown
    BY DEF Init, WindDown, InputsClosed, DrainerClosed, DistClosed, WorkersClosed,
           OutputClosed, MainClosed
  <2>2. Init => MainOrder
    BY RunAssumption DEF Init, MainOrder
  <2> QED
    BY <2>1, <2>2, InitTyped
<1>2. TypedInv /\ WindDown /\ MainOrder /\ [Next]_vars => (TypedInv /\ WindDown /\ MainOrder)'
  BY TypedStep, WindDownStep, MainOrderStep
<1> QED
  BY <1>1, <1>2, NoCircle, PTL DEF Spec
-----------------------------------------------------------------------------
(* HeldOnce and WindsDown.                                                 *)

\* What reached a stage had reached every stage before it.
LEMMA Nested ==
  ASSUME Typed
  PROVE  /\ Handled \subseteq Collected /\ Collected \subseteq Filtered
         /\ Filtered \subseteq Taken /\ Taken \subseteq Queued
         /\ Queued \subseteq Forwarded /\ Forwarded \subseteq Received
         /\ Received \subseteq Offered /\ Offered \subseteq Persisted
         /\ Persisted \subseteq Written /\ Written \subseteq Events
<1>1. Handled \subseteq Collected /\ Collected \subseteq Filtered /\ Filtered \subseteq Taken
  BY DEF Collected, Filtered, Taken
<1>2. Taken \subseteq Queued /\ Queued \subseteq Forwarded /\ Forwarded \subseteq Received
  BY DEF Queued, Forwarded, Received
<1>3. Received \subseteq Offered /\ Offered \subseteq Persisted /\ Persisted \subseteq Written
  BY DEF Offered, Persisted, Written
<1>4. Filtered \subseteq Events
  BY DEF Typed, Filtered, Collected, Handled
<1>5. Forwarded \subseteq Events
  BY <1>4 DEF Typed, Forwarded, Queued, Taken
<1>6. Written \subseteq Events
  BY <1>5 DEF Typed, Written, Persisted, Offered, Received
<1> QED
  BY <1>1, <1>2, <1>3, <1>6

\* What a channel, a hand or a batch holds has reached its stage.
LEMMA Holding ==
  ASSUME Typed
  PROVE  /\ handled = Handled /\ obatch \subseteq Collected /\ outputCh \subseteq Filtered
         /\ \A w \in Workers : wbatch[w] \subseteq Taken
         /\ workCh \subseteq Queued /\ (heldByDist # None => heldByDist \in Forwarded)
         /\ inputCh \subseteq Received /\ (dheld # None => dheld \in Offered)
         /\ \A i \in Inputs : fallback[i] # None => fallback[i] \in Offered
         /\ pq \subseteq Persisted /\ \A i \in Inputs : writerCh[i] \subseteq Written
<1>1. handled = Handled /\ obatch \subseteq Collected /\ outputCh \subseteq Filtered
  BY DEF Handled, Collected, Filtered
<1>2. \A w \in Workers : wbatch[w] \subseteq Taken
  BY DEF Typed, Taken
<1>3. workCh \subseteq Queued /\ (heldByDist # None => heldByDist \in Forwarded)
  BY DEF Typed, EventOrNone, Queued, Forwarded
<1>4. inputCh \subseteq Received /\ (dheld # None => dheld \in Offered)
  BY DEF Typed, EventOrNone, Received, Offered
<1>5. \A i \in Inputs : fallback[i] # None => fallback[i] \in Offered
  BY DEF Typed, EventOrNone, Offered
<1>6. pq \subseteq Persisted /\ \A i \in Inputs : writerCh[i] \subseteq Written
  BY DEF Typed, Persisted, Written
<1> QED
  BY <1>1, <1>2, <1>3, <1>4, <1>5, <1>6

\* A stage changes only with the stage after it and with what is held at it.
LEMMA StageFrames ==
  /\ UNCHANGED handled => Handled' = Handled
  /\ Handled' = Handled /\ UNCHANGED obatch => Collected' = Collected
  /\ Collected' = Collected /\ UNCHANGED outputCh => Filtered' = Filtered
  /\ Filtered' = Filtered /\ UNCHANGED wbatch => Taken' = Taken
  /\ Taken' = Taken /\ UNCHANGED workCh => Queued' = Queued
  /\ Queued' = Queued /\ UNCHANGED heldByDist => Forwarded' = Forwarded
  /\ Forwarded' = Forwarded /\ UNCHANGED inputCh => Received' = Received
  /\ Received' = Received /\ UNCHANGED <<dheld, fallback>> => Offered' = Offered
  /\ Offered' = Offered /\ UNCHANGED pq => Persisted' = Persisted
  /\ Persisted' = Persisted /\ UNCHANGED writerCh => Written' = Written
  /\ UNCHANGED sent => Sent' = Sent
<1>1. /\ UNCHANGED handled => Handled' = Handled
      /\ Handled' = Handled /\ UNCHANGED obatch => Collected' = Collected
      /\ Collected' = Collected /\ UNCHANGED outputCh => Filtered' = Filtered
  BY DEF Handled, Collected, Filtered
<1>2. Filtered' = Filtered /\ UNCHANGED wbatch => Taken' = Taken
  BY DEF Taken
<1>3. /\ Taken' = Taken /\ UNCHANGED workCh => Queued' = Queued
      /\ Queued' = Queued /\ UNCHANGED heldByDist => Forwarded' = Forwarded
      /\ Forwarded' = Forwarded /\ UNCHANGED inputCh => Received' = Received
  BY DEF Queued, Forwarded, Received
<1>4. Received' = Received /\ UNCHANGED <<dheld, fallback>> => Offered' = Offered
  BY DEF Offered
<1>5. Offered' = Offered /\ UNCHANGED pq => Persisted' = Persisted
  BY DEF Persisted
<1>6. Persisted' = Persisted /\ UNCHANGED writerCh => Written' = Written
  BY DEF Written
<1>7. UNCHANGED sent => Sent' = Sent
  BY DEF Sent
<1> QED
  BY <1>1, <1>2, <1>3, <1>4, <1>5, <1>6, <1>7

\* The ranks of run() and of an input are numbers.
LEMMA Ranks ==
  /\ \A m \in {"select", "wait", "join", "drainer", "distributor", "workers", "output",
               "returned"} : MainRank[m] \in Nat
  /\ \A s \in {"running", "writing", "done"} : InputRank[s] \in Nat
BY DEF MainRank, InputRank

\* A step that leaves the tasks alone takes none of them back.
LEMMA TasksFrame ==
  ASSUME Typed, UNCHANGED <<input, workers, dist, output, mainVars>>,
         drainer = "exited" => drainer' = "exited"
  PROVE  NoTaskBack
BY Ranks DEF Typed, NoTaskBack, Unjoined

\* What the distributor sends a worker gets.
LEMMA FlowDistSend ==
  ASSUME TypedInv, HeldOnce, DistSend
  PROVE  HeldOnce' /\ NoEventBack /\ GetsFurther
<1> USE DEF TypedInv
<1>1. /\ heldByDist # None /\ workCh' = workCh \cup {heldByDist} /\ heldByDist' = None
      /\ UNCHANGED <<inputVars, pqVars, inputCh, dist, wbatch, workers, outVars, mainVars>>
  BY DEF DistSend
<1>2. /\ Handled' = Handled /\ Collected' = Collected /\ Filtered' = Filtered /\ Taken' = Taken
      /\ Sent' = Sent
  BY <1>1, StageFrames
<1>3. Queued' = Queued \cup {heldByDist}
  BY <1>1, <1>2 DEF Queued
<1>4. Forwarded' = Forwarded
  BY <1>1, <1>3, RunAssumption DEF Forwarded, Typed, EventOrNone
<1>5. /\ Received' = Received /\ Offered' = Offered /\ Persisted' = Persisted
      /\ Written' = Written
  BY <1>1, <1>4, StageFrames
<1>6. heldByDist \notin Queued
  BY <1>1 DEF HeldOnce
<1>7. HeldOnce'
  BY <1>1, <1>2, <1>3, <1>4, <1>5, <1>6, Nested, Holding DEF HeldOnce
<1> QED
  BY <1>2, <1>3, <1>4, <1>5, <1>6, <1>7 DEF NoEventBack, GetsFurther

\* An event the distributor takes is in its hands only.
LEMMA FlowDistRecv ==
  ASSUME TypedInv, HeldOnce, NEW e \in Events, DistRecv(e)
  PROVE  HeldOnce' /\ NoEventBack /\ GetsFurther
<1> USE DEF TypedInv
<1>1. /\ e \in inputCh /\ heldByDist = None /\ inputCh' = inputCh \ {e} /\ heldByDist' = e
      /\ UNCHANGED <<inputVars, pqVars, dist, workCh, wbatch, workers, outVars, mainVars>>
  BY DEF DistRecv
<1>2. /\ Handled' = Handled /\ Collected' = Collected /\ Filtered' = Filtered /\ Taken' = Taken
      /\ Queued' = Queued /\ Sent' = Sent
  BY <1>1, StageFrames
<1>3. Forwarded' = Forwarded \cup {e}
  BY <1>1, <1>2, RunAssumption DEF Forwarded
<1>4. Received' = Received
  BY <1>1, <1>3 DEF Received
<1>5. Offered' = Offered /\ Persisted' = Persisted /\ Written' = Written
  BY <1>1, <1>4, StageFrames
<1>6. e \notin Forwarded
  BY <1>1 DEF HeldOnce
<1>7. HeldOnce'
  BY <1>1, <1>2, <1>3, <1>4, <1>5, <1>6, Nested, Holding DEF HeldOnce
<1> QED
  BY <1>2, <1>3, <1>4, <1>5, <1>6, <1>7 DEF NoEventBack, GetsFurther

\* The events a worker takes are in its batch only.
LEMMA FlowWorkerTake ==
  ASSUME TypedInv, HeldOnce, NEW w \in Workers, NEW B \in SUBSET workCh, WorkerTake(w, B)
  PROVE  HeldOnce' /\ NoEventBack /\ GetsFurther
<1> USE DEF TypedInv
<1>1. /\ B # {} /\ wbatch[w] = {} /\ workCh' = workCh \ B /\ wbatch' = [wbatch EXCEPT ![w] = B]
      /\ UNCHANGED <<inputVars, pqVars, inputCh, heldByDist, dist, workers, outVars, mainVars>>
  BY DEF WorkerTake
<1>2. Handled' = Handled /\ Collected' = Collected /\ Filtered' = Filtered /\ Sent' = Sent
  BY <1>1, StageFrames
<1>3. Taken' = Taken \cup B
  BY <1>1, <1>2 DEF Taken, Typed
<1>4. Queued' = Queued
  BY <1>1, <1>3 DEF Queued
<1>5. /\ Forwarded' = Forwarded /\ Received' = Received /\ Offered' = Offered
      /\ Persisted' = Persisted /\ Written' = Written
  BY <1>1, <1>4, StageFrames
<1>6. B \cap Taken = {}
  BY <1>1 DEF HeldOnce
<1>7. \A v \in Workers : /\ wbatch'[v] = IF v = w THEN B ELSE wbatch[v]
  BY <1>1 DEF Typed
<1>8. /\ \A v \in Workers : /\ wbatch'[v] \cap Filtered = {}
                            /\ \A u \in Workers \ {v} : wbatch'[v] \cap wbatch'[u] = {}
  BY <1>1, <1>6, <1>7, Nested, Holding DEF HeldOnce
<1>9. HeldOnce'
  BY <1>1, <1>2, <1>3, <1>4, <1>5, <1>6, <1>8, Nested, Holding DEF HeldOnce
<1> QED
  BY <1>1, <1>2, <1>3, <1>4, <1>5, <1>6, <1>9 DEF NoEventBack, GetsFurther

\* An event the filter chain passes on is in the output channel only, and one it
\* drops is handled.
LEMMA FlowWorkerFilter ==
  ASSUME TypedInv, HeldOnce, NEW w \in Workers, NEW e \in Events, NEW d \in BOOLEAN,
         WorkerFilter(w, e, d)
  PROVE  HeldOnce' /\ NoEventBack /\ GetsFurther
<1> USE DEF TypedInv
<1>1. /\ e \in wbatch[w] /\ wbatch' = [wbatch EXCEPT ![w] = @ \ {e}]
      /\ UNCHANGED <<inputVars, pqVars, inputCh, heldByDist, dist, workCh, workers, obatch,
                     output, mainVars>>
  BY DEF WorkerFilter
<1>2. e \notin Filtered /\ e \in Taken
  BY <1>1, Holding DEF HeldOnce
<1>3. \A v \in Workers : wbatch'[v] = IF v = w THEN wbatch[v] \ {e} ELSE wbatch[v]
  BY <1>1 DEF Typed
<1>4. \A v \in Workers : /\ e \notin wbatch'[v] /\ wbatch'[v] \subseteq wbatch[v]
                         /\ \A u \in Workers \ {v} : wbatch'[v] \cap wbatch'[u] = {}
                         /\ wbatch'[v] \cap Filtered = {}
  BY <1>1, <1>3 DEF HeldOnce
<1>5. Filtered' = Filtered \cup {e} => Taken' = Taken
  BY <1>2, <1>3 DEF Taken
<1>6. Taken' = Taken => /\ Queued' = Queued /\ Forwarded' = Forwarded /\ Received' = Received
                        /\ Offered' = Offered /\ Persisted' = Persisted /\ Written' = Written
  BY <1>1, StageFrames
<1>7. Sent' = Sent
  BY <1>1, StageFrames
<1>8. CASE d
  <2>1. handled' = handled \cup {e} /\ UNCHANGED outputCh
    BY <1>8 DEF WorkerFilter
  <2>2. Handled' = Handled \cup {e} /\ Collected' = Collected \cup {e}
        /\ Filtered' = Filtered \cup {e}
    BY <1>1, <2>1 DEF Handled, Collected, Filtered
  <2>3. HeldOnce'
    BY <1>1, <1>2, <1>4, <1>5, <1>6, <1>7, <2>1, <2>2, Nested, Holding DEF HeldOnce
  <2> QED
    BY <1>2, <1>5, <1>6, <1>7, <2>2, <2>3 DEF NoEventBack, GetsFurther
<1>9. CASE ~d
  <2>1. outputCh' = outputCh \cup {e} /\ UNCHANGED handled
    BY <1>9 DEF WorkerFilter
  <2>2. Handled' = Handled /\ Collected' = Collected /\ Filtered' = Filtered \cup {e}
    BY <1>1, <2>1 DEF Handled, Collected, Filtered
  <2>3. HeldOnce'
    BY <1>1, <1>2, <1>4, <1>5, <1>6, <1>7, <2>1, <2>2, Nested, Holding DEF HeldOnce
  <2> QED
    BY <1>2, <1>5, <1>6, <1>7, <2>2, <2>3 DEF NoEventBack, GetsFurther
<1> QED
  BY <1>8, <1>9

\* An event the output task receives is in its batch, or handled with the batch.
LEMMA FlowOutputRecv ==
  ASSUME TypedInv, HeldOnce, NEW e \in Events, OutputRecv(e)
  PROVE  HeldOnce' /\ NoEventBack /\ GetsFurther
<1> USE DEF TypedInv
<1>1. /\ e \in outputCh /\ outputCh' = outputCh \ {e}
      /\ \/ handled' = handled \cup obatch \cup {e} /\ obatch' = {}
         \/ handled' = handled /\ obatch' = obatch \cup {e}
      /\ UNCHANGED <<inputVars, pqVars, inputCh, filterVars, output, mainVars>>
  BY DEF OutputRecv
<1>2. e \notin Collected
  BY <1>1 DEF HeldOnce
<1>3. /\ Handled' \in {Handled, Collected \cup {e}} /\ Collected' = Collected \cup {e}
      /\ obatch' \cap Handled' = {}
  BY <1>1, <1>2 DEF Handled, Collected, HeldOnce
<1>4. Filtered' = Filtered
  BY <1>1, <1>3 DEF Filtered
<1>5. /\ Taken' = Taken /\ Queued' = Queued /\ Forwarded' = Forwarded /\ Received' = Received
      /\ Offered' = Offered /\ Persisted' = Persisted /\ Written' = Written /\ Sent' = Sent
  BY <1>1, <1>4, StageFrames
<1>6. HeldOnce'
  BY <1>1, <1>2, <1>3, <1>4, <1>5, Nested, Holding DEF HeldOnce
<1> QED
  BY <1>2, <1>3, <1>4, <1>5, <1>6, Nested DEF NoEventBack, GetsFurther

\* The batch is handled as a whole.
LEMMA FlowOutputBatch ==
  ASSUME TypedInv, HeldOnce, handled' = handled \cup obatch, obatch' = {},
         UNCHANGED <<inputVars, pqVars, inputCh, filterVars, outputCh, mainVars>>
  PROVE  HeldOnce' /\ NoEventBack /\ (obatch # {} => Handled # Handled')
<1> USE DEF TypedInv
<1>1. Handled' = Collected /\ Collected' = Collected
  BY DEF Handled, Collected
<1>2. /\ Filtered' = Filtered /\ Taken' = Taken /\ Queued' = Queued /\ Forwarded' = Forwarded
      /\ Received' = Received /\ Offered' = Offered /\ Persisted' = Persisted
      /\ Written' = Written /\ Sent' = Sent
  BY <1>1, StageFrames
<1>3. HeldOnce'
  BY <1>1, <1>2, Nested, Holding DEF HeldOnce
<1>4. obatch # {} => Handled # Collected
  BY DEF HeldOnce, Collected
<1> QED
  BY <1>1, <1>2, <1>3, <1>4, Nested DEF NoEventBack

\* An event that is not sent yet is nowhere: only a copy has a greater number.
LEMMA NewIsNowhere ==
  ASSUME TypedInv, HeldOnce, NEW i \in Inputs, sent[i] < PerInput
  PROVE  <<i, sent[i] + 1>> \in Events /\ <<i, sent[i] + 1>> \notin Written
<1> DEFINE e == <<i, sent[i] + 1>>
<1>1. e \in Events /\ e \notin Sent
  BY RunAssumption DEF TypedInv, Typed, Events, Sent
<1>2. ASSUME NEW x \in Sent, e = Copy(x)
      PROVE  FALSE
  <2>1. x[2] \in 1 .. PerInput + PerInput /\ sent[i] + 1 = x[2] + PerInput
    BY <1>2 DEF Sent, Events, Copy
  <2>2. sent[i] \in Nat /\ PerInput \in Nat /\ x[2] \in Nat /\ x[2] >= 1
    BY <2>1, RunAssumption DEF TypedInv, Typed
  <2> QED
    BY <2>1, <2>2
<1> QED
  BY <1>1, <1>2 DEF HeldOnce

\* An event an input sends is in its channel only.
LEMMA FlowInputSend ==
  ASSUME TypedInv, HeldOnce, NEW i \in Inputs, InputSend(i)
  PROVE  HeldOnce' /\ NoEventBack /\ GetsFurther
<1> DEFINE e == <<i, sent[i] + 1>>
<1>1. /\ sent' = [sent EXCEPT ![i] = @ + 1] /\ sent[i] < PerInput
      /\ UNCHANGED <<config, input, fallback, failures, pqVars, filterVars, outVars, mainVars>>
  BY DEF InputSend
<1>2. e \in Events /\ e \notin Written /\ e \notin Sent
  BY <1>1, NewIsNowhere DEF HeldOnce
<1>3. Sent' = Sent \cup {e}
  <2>1. sent \in [Inputs -> Nat]
    BY DEF TypedInv, Typed
  <2>2. \A x \in Events : x[1] \in Inputs /\ x[2] \in Nat /\ x = <<x[1], x[2]>>
    BY DEF Events
  <2>3. \A x \in Events : x[2] <= sent'[x[1]] <=> x[2] <= sent[x[1]] \/ x = e
    <3> TAKE x \in Events
    <3>1. CASE x[1] = i
      <4>1. sent'[x[1]] = sent[i] + 1
        BY <1>1, <2>1, <3>1
      <4>2. x = e <=> x[2] = sent[i] + 1
        BY <2>2, <3>1
      <4>3. sent[i] \in Nat /\ x[2] \in Nat
        BY <2>1, <2>2
      <4> QED
        BY <3>1, <4>1, <4>2, <4>3
    <3>2. CASE x[1] # i
      <4>1. sent'[x[1]] = sent[x[1]]
        BY <1>1, <2>1, <2>2, <3>2
      <4> QED
        BY <3>2, <4>1
    <3> QED
      BY <3>1, <3>2
  <2> QED
    BY <1>2, <2>3 DEF Sent
<1>4. /\ Handled' = Handled /\ Collected' = Collected /\ Filtered' = Filtered /\ Taken' = Taken
      /\ Queued' = Queued /\ Forwarded' = Forwarded
  BY <1>1, StageFrames
<1>5. CASE config.pq
  <2>1. writerCh' = [writerCh EXCEPT ![i] = @ \cup {e}] /\ UNCHANGED inputCh
    BY <1>5 DEF InputSend
  <2>2. Received' = Received /\ Offered' = Offered /\ Persisted' = Persisted
    BY <1>1, <1>4, <2>1, StageFrames
  <2>3. \A j \in Inputs : writerCh'[j] = IF j = i THEN writerCh[i] \cup {e} ELSE writerCh[j]
    BY <2>1 DEF TypedInv, Typed
  <2>4. Written' = Written \cup {e}
    BY <1>2, <2>2, <2>3 DEF Written
  <2>5. \A j \in Inputs : e \notin writerCh[j]
    BY <1>2, Holding DEF TypedInv
  <2>6. \A j \in Inputs : writerCh'[j] \cap Persisted = {}
    BY <1>2, <2>3, Nested DEF HeldOnce, TypedInv
  <2>7. \A j, k \in Inputs : j # k => writerCh'[j] \cap writerCh'[k] = {}
    BY <2>3, <2>5 DEF HeldOnce
  <2>8. HeldOnce'
    <3>1. Sent' \subseteq Written'
      BY <1>3, <2>4 DEF HeldOnce
    <3>2. \A x \in Written' \ Sent' :
            failures' > 0 /\ \E y \in Sent' \cap Persisted' : x = Copy(y)
      BY <1>1, <1>3, <2>2, <2>4 DEF HeldOnce
    <3> HIDE DEF e
    <3> QED
      BY <1>1, <1>4, <2>1, <2>2, <2>6, <2>7, <3>1, <3>2, SMTT(30) DEF HeldOnce
  <2> QED
    BY <1>2, <1>3, <1>4, <2>2, <2>4, <2>8 DEF NoEventBack, GetsFurther
<1>6. CASE ~config.pq
  <2>1. inputCh' = inputCh \cup {e} /\ UNCHANGED writerCh
    BY <1>6 DEF InputSend
  <2>2. Received' = Received \cup {e}
    BY <1>4, <2>1 DEF Received
  <2>3. Offered' = Offered \cup {e}
    BY <1>1, <2>2 DEF Offered
  <2>4. Persisted' = Persisted \cup {e}
    BY <1>1, <2>3 DEF Persisted
  <2>5. Written' = Written \cup {e}
    BY <2>1, <2>4 DEF Written
  <2>6. HeldOnce'
    BY <1>1, <1>2, <1>3, <1>4, <2>1, <2>2, <2>3, <2>4, <2>5, Nested, Holding
    DEF HeldOnce, TypedInv
  <2> QED
    BY <1>2, <1>3, <1>4, <2>2, <2>3, <2>4, <2>5, <2>6, Nested
    DEF NoEventBack, GetsFurther, TypedInv
<1> QED
  BY <1>5, <1>6 DEF TypedInv, Typed

\* What the drainer pops is in its hands only.
LEMMA FlowDrainerPop ==
  ASSUME TypedInv, DrainerClosed, HeldOnce, NEW e \in Events, DrainerPop(e)
  PROVE  HeldOnce' /\ NoEventBack /\ GetsFurther
<1> USE DEF TypedInv
<1>1. /\ e \in pq /\ dheld = None /\ pq' = pq \ {e} /\ dheld' = e
      /\ UNCHANGED <<inputVars, inputCh, filterVars, outVars, mainVars>>
  BY DEF DrainerPop, DrainerUnchanged, DrainerClosed
<1>2. /\ Handled' = Handled /\ Collected' = Collected /\ Filtered' = Filtered /\ Taken' = Taken
      /\ Queued' = Queued /\ Forwarded' = Forwarded /\ Received' = Received /\ Sent' = Sent
  BY <1>1, StageFrames
<1>3. Offered' = Offered \cup {e}
  BY <1>1, <1>2, RunAssumption DEF Offered
<1>4. Persisted' = Persisted
  BY <1>1, <1>3 DEF Persisted
<1>5. Written' = Written
  BY <1>1, <1>4, StageFrames
<1>6. e \notin Offered
  BY <1>1 DEF HeldOnce
<1>7. HeldOnce'
  BY <1>1, <1>2, <1>3, <1>4, <1>5, <1>6, Nested, Holding DEF HeldOnce
<1> QED
  BY <1>2, <1>3, <1>4, <1>5, <1>6, <1>7 DEF NoEventBack, GetsFurther

\* What the drainer sends is in the input channel only.
LEMMA FlowDrainerSend ==
  ASSUME TypedInv, HeldOnce, DrainerSend
  PROVE  HeldOnce' /\ NoEventBack /\ GetsFurther
<1> USE DEF TypedInv
<1>1. /\ dheld \in Events /\ dheld # None /\ inputCh' = inputCh \cup {dheld} /\ dheld' = None
      /\ UNCHANGED <<pq, inputVars, filterVars, outVars, mainVars>>
  BY RunAssumption DEF DrainerSend, DrainerUnchanged, HoldsToSend
<1>2. /\ Handled' = Handled /\ Collected' = Collected /\ Filtered' = Filtered /\ Taken' = Taken
      /\ Queued' = Queued /\ Forwarded' = Forwarded /\ Sent' = Sent
  BY <1>1, StageFrames
<1>3. Received' = Received \cup {dheld}
  BY <1>1, <1>2 DEF Received
<1>4. Offered' = Offered
  BY <1>1, <1>3, RunAssumption DEF Offered
<1>5. Persisted' = Persisted /\ Written' = Written
  BY <1>1, <1>4, StageFrames
<1>6. dheld \notin Received
  BY <1>1 DEF HeldOnce
<1>7. HeldOnce'
  BY <1>1, <1>2, <1>3, <1>4, <1>5, <1>6, Nested, Holding DEF HeldOnce
<1> QED
  BY <1>2, <1>3, <1>4, <1>5, <1>6, <1>7 DEF NoEventBack, GetsFurther

\* An event a PQ writer sends itself is in the input channel only.
LEMMA FlowWriterFallback ==
  ASSUME TypedInv, HeldOnce, NEW i \in Inputs, WriterFallback(i)
  PROVE  HeldOnce' /\ NoEventBack /\ GetsFurther
<1> DEFINE e == fallback[i]
<1>1. /\ e # None /\ e \in Events /\ inputCh' = inputCh \cup {e}
      /\ fallback' = [fallback EXCEPT ![i] = None]
      /\ UNCHANGED <<config, sent, input, writerCh, failures, pqVars, filterVars, outVars,
                     mainVars>>
  BY DEF WriterFallback, TypedInv, Typed, EventOrNone
<1>2. /\ Handled' = Handled /\ Collected' = Collected /\ Filtered' = Filtered /\ Taken' = Taken
      /\ Queued' = Queued /\ Forwarded' = Forwarded /\ Sent' = Sent
  BY <1>1, StageFrames
<1>3. Received' = Received \cup {e}
  BY <1>1, <1>2 DEF Received
<1>4. \A j \in Inputs : fallback'[j] = IF j = i THEN None ELSE fallback[j]
  BY <1>1 DEF TypedInv, Typed
<1>5. Offered' = Offered
  BY <1>1, <1>3, <1>4, RunAssumption DEF Offered
<1>6. Persisted' = Persisted /\ Written' = Written
  BY <1>1, <1>5, StageFrames
<1>7. e \notin Received /\ e # dheld /\ \A j \in Inputs \ {i} : fallback[j] # e
  BY <1>1 DEF HeldOnce
<1>8. /\ \A j \in Inputs : fallback'[j] # None => fallback'[j] \notin Received' \cup {dheld'}
      /\ \A j, k \in Inputs : j # k /\ fallback'[j] # None => fallback'[j] # fallback'[k]
  BY <1>1, <1>3, <1>4, <1>7 DEF HeldOnce
<1>9. HeldOnce'
  BY <1>1, <1>2, <1>3, <1>5, <1>6, <1>7, <1>8, Nested, Holding DEF HeldOnce, TypedInv
<1> QED
  BY <1>2, <1>3, <1>5, <1>6, <1>7, <1>9 DEF NoEventBack, GetsFurther

\* An event the writer takes is in the queue only, or in its hands only; what a push
\* that failed has written is a copy that is nowhere else.
LEMMA FlowWriterPush ==
  ASSUME TypedInv, HeldOnce, NEW i \in Inputs, NEW e \in Events,
         NEW r \in {"ok", "refused", "written"}, WriterPush(i, e, r)
  PROVE  HeldOnce' /\ NoEventBack /\ GetsFurther
<1> DEFINE c == Copy(e)
<1>1. /\ e \in writerCh[i] /\ fallback[i] = None
      /\ writerCh' = [writerCh EXCEPT ![i] = @ \ {e}]
      /\ UNCHANGED <<config, sent, input, readable, drainer, dheld, inputCh, filterVars, outVars,
                     mainVars>>
  BY DEF WriterPush
<1>2. /\ Handled' = Handled /\ Collected' = Collected /\ Filtered' = Filtered /\ Taken' = Taken
      /\ Queued' = Queued /\ Forwarded' = Forwarded /\ Received' = Received /\ Sent' = Sent
  BY <1>1, StageFrames
<1>3. e \in Sent /\ e \in Written /\ e \notin Persisted
  BY <1>1, Holding DEF HeldOnce, TypedInv, WritersHold, Sent
<1>4. /\ \A j \in Inputs : writerCh'[j] = IF j = i THEN writerCh[i] \ {e} ELSE writerCh[j]
      /\ \A j \in Inputs : e \notin writerCh'[j]
  BY <1>1 DEF TypedInv, Typed, HeldOnce
<1>5. /\ \A j \in Inputs : writerCh'[j] \cap Persisted = {}
      /\ \A j, k \in Inputs : j # k => writerCh'[j] \cap writerCh'[k] = {}
  BY <1>4 DEF HeldOnce
<1>6. ASSUME Persisted' = Persisted \cup {e}
      PROVE  Written' = Written
  BY <1>1, <1>3, <1>4, <1>6 DEF Written
<1>7. CASE r = "ok"
  <2>1. pq' = pq \cup {e} /\ UNCHANGED <<failures, fallback>>
    BY <1>7 DEF WriterPush
  <2>2. Offered' = Offered
    BY <1>1, <1>2, <2>1, StageFrames
  <2>3. Persisted' = Persisted \cup {e}
    BY <2>1, <2>2 DEF Persisted
  <2>4. Written' = Written
    BY <1>6, <2>3
  <2>5. HeldOnce'
    BY <1>1, <1>2, <1>3, <1>4, <1>5, <2>1, <2>2, <2>3, <2>4, Nested, Holding
    DEF HeldOnce, TypedInv
  <2> QED
    BY <1>2, <1>3, <2>2, <2>3, <2>4, <2>5 DEF NoEventBack, GetsFurther
<1>8. ASSUME r # "ok"
      PROVE  /\ \A j \in Inputs : fallback'[j] = IF j = i THEN e ELSE fallback[j]
             /\ failures' > 0
             /\ Offered' = Offered \cup {e}
             /\ \A j \in Inputs : fallback'[j] # None => fallback'[j] \notin Received' \cup {dheld'}
             /\ \A j, k \in Inputs : j # k /\ fallback'[j] # None => fallback'[j] # fallback'[k]
  <2>1. fallback' = [fallback EXCEPT ![i] = e] /\ failures' = failures + 1
    BY <1>8 DEF WriterPush
  <2>2. \A j \in Inputs : fallback'[j] = IF j = i THEN e ELSE fallback[j]
    BY <2>1 DEF TypedInv, Typed
  <2>3. failures' > 0
    BY <2>1 DEF TypedInv, Typed
  <2>4. Offered' = Offered \cup {e}
    BY <1>1, <1>2, <2>2, RunAssumption DEF Offered
  <2>5. e \notin Received \cup {dheld} /\ \A j \in Inputs : fallback[j] # e
    BY <1>3, Nested, Holding, RunAssumption DEF TypedInv
  <2>6. \A j \in Inputs : fallback'[j] # None => fallback'[j] \notin Received' \cup {dheld'}
    BY <1>1, <1>2, <2>2, <2>5 DEF HeldOnce
  <2>7. \A j, k \in Inputs : j # k /\ fallback'[j] # None => fallback'[j] # fallback'[k]
    BY <2>2, <2>5 DEF HeldOnce
  <2> QED
    BY <2>2, <2>3, <2>4, <2>6, <2>7
<1>9. CASE r = "refused"
  <2>1. pq' = pq
    BY <1>9 DEF WriterPush
  <2>2. Persisted' = Persisted \cup {e}
    BY <1>8, <1>9, <2>1 DEF Persisted
  <2>3. Written' = Written
    BY <1>6, <2>2
  <2>4. HeldOnce'
    BY <1>1, <1>2, <1>3, <1>4, <1>5, <1>8, <1>9, <2>1, <2>2, <2>3, Nested, Holding
    DEF HeldOnce, TypedInv
  <2> QED
    BY <1>2, <1>3, <1>8, <1>9, <2>2, <2>3, <2>4 DEF NoEventBack, GetsFurther
<1>10. CASE r = "written"
  <2>1. pq' = pq \cup {c}
    BY <1>10 DEF WriterPush
  <2>2. c \in Events /\ c \notin Sent /\ \A x \in Events : c = Copy(x) => x = e
    <3>1. e = <<e[1], e[2]>> /\ e[1] \in Inputs /\ e[2] \in 1 .. PerInput + PerInput
          /\ e[2] <= sent[e[1]] /\ sent[e[1]] \in 0 .. PerInput
      BY <1>3 DEF Sent, Events, TypedInv, Typed
    <3>2. PerInput \in Nat /\ e[2] \in Nat /\ sent[e[1]] \in Nat
      BY <3>1, RunAssumption
    <3>3. e[2] + PerInput \in 1 .. PerInput + PerInput /\ ~(e[2] + PerInput <= sent[e[1]])
      BY <3>1, <3>2
    <3>4. c[1] = e[1] /\ c[2] = e[2] + PerInput
      BY DEF Copy
    <3>5. c \in Events /\ c \notin Sent
      BY <3>1, <3>3, <3>4 DEF Events, Copy, Sent
    <3>6. ASSUME NEW x \in Events, c = Copy(x)
          PROVE  x = e
      <4>1. x = <<x[1], x[2]>> /\ x[2] \in 1 .. PerInput + PerInput
        BY DEF Events
      <4>2. x[1] = e[1] /\ x[2] + PerInput = e[2] + PerInput
        BY <3>6 DEF Copy
      <4>3. x[2] \in Nat
        BY <4>1, <3>2
      <4>4. x[2] = e[2]
        BY <3>2, <4>2, <4>3
      <4> QED
        BY <3>1, <4>1, <4>2, <4>4
    <3> QED
      BY <3>5, <3>6
  <2>3. c \notin Written
    BY <1>3, <2>2 DEF HeldOnce, Sent
  <2>4. Persisted' = Persisted \cup {e, c}
    BY <1>8, <1>10, <2>1 DEF Persisted
  <2>5. Written' = Written \cup {c}
    BY <1>1, <1>3, <1>4, <2>4 DEF Written
  <2>6. c # e /\ \A j \in Inputs : c \notin writerCh'[j]
    BY <1>3, <1>4, <2>3, Holding DEF TypedInv
  <2>7. Sent' \subseteq Written'
    BY <1>2, <2>5 DEF HeldOnce
  <2>8. \A x \in Written' \ Sent' : failures' > 0 /\ \E y \in Sent' \cap Persisted' : x = Copy(y)
    BY <1>2, <1>3, <1>8, <1>10, <2>4, <2>5 DEF HeldOnce
  <2>9. pq' \cap Offered' = {}
    <3>1. c \notin Offered /\ e \notin pq
      BY <1>3, <2>3, Nested, Holding DEF TypedInv
    <3> QED
      BY <3>1, <1>8, <1>10, <2>1, <2>6 DEF HeldOnce
  <2>10. \A j \in Inputs : writerCh'[j] \cap Persisted' = {}
    BY <1>4, <1>5, <2>4, <2>6
  <2>11. HeldOnce'
    BY <1>1, <1>2, <1>5, <1>8, <1>10, <2>7, <2>8, <2>9, <2>10 DEF HeldOnce
  <2> QED
    BY <1>2, <1>3, <1>8, <1>10, <2>4, <2>5, <2>11 DEF NoEventBack, GetsFurther
<1> QED
  BY <1>7, <1>9, <1>10

\* A step that moves no event leaves each where it is.
LEMMA FlowFrame ==
  ASSUME HeldOnce,
         UNCHANGED <<sent, writerCh, fallback, failures, pq, dheld, inputCh, heldByDist,
                     workCh, wbatch, outputCh, obatch, handled>>
  PROVE  HeldOnce' /\ NoEventBack
<1>1. /\ Handled' = Handled /\ Collected' = Collected /\ Filtered' = Filtered /\ Taken' = Taken
      /\ Queued' = Queued /\ Forwarded' = Forwarded /\ Received' = Received
      /\ Offered' = Offered /\ Persisted' = Persisted /\ Written' = Written /\ Sent' = Sent
  BY StageFrames
<1> QED
  BY <1>1 DEF HeldOnce, NoEventBack

\* What a step of the run does: it hands events on, and takes nothing back.
Flows ==
  /\ HeldOnce' /\ NoEventBack /\ NoTaskBack
  /\ GetsFurther \/ Polls \/ QueueTurns

\* A step of an input or its PQ writer.
LEMMA FlowInput ==
  ASSUME TypedInv, HeldOnce, NEW i \in Inputs, InputSend(i) \/ InputStep(i)
  PROVE  Flows
<1> USE DEF Flows
<1>1. CASE InputSend(i)
  <2>1. NoTaskBack
    BY <1>1, TasksFrame DEF InputSend, TypedInv
  <2> QED
    BY <1>1, <2>1, FlowInputSend
<1>2. CASE WriterFallback(i)
  <2>1. NoTaskBack
    BY <1>2, TasksFrame DEF WriterFallback, TypedInv
  <2> QED
    BY <1>2, <2>1, FlowWriterFallback
<1>3. ASSUME NEW e \in Events, NEW r \in {"ok", "refused", "written"}, WriterPush(i, e, r)
      PROVE  Flows
  <2>1. NoTaskBack
    BY <1>3, TasksFrame DEF WriterPush, TypedInv
  <2> QED
    BY <1>3, <2>1, FlowWriterPush
<1>4. CASE InputReturn(i) \/ WriterEnd(i)
  <2>1. /\ UNCHANGED <<config, sent, writerCh, fallback, failures, pqVars, inputCh, filterVars,
                      outVars, mainVars>>
        /\ \/ input[i] = "running" /\ \E s \in {"writing", "done"} : input' = [input EXCEPT ![i] = s]
           \/ input[i] = "writing" /\ input' = [input EXCEPT ![i] = "done"]
    BY <1>4 DEF InputReturn, WriterEnd
  <2>2. HeldOnce' /\ NoEventBack
    BY <2>1, FlowFrame
  <2>3. input # input'
    BY <2>1 DEF TypedInv, Typed
  <2>4. \A j \in Inputs : InputRank[input'[j]] >= InputRank[input[j]]
    BY <2>1 DEF TypedInv, Typed, InputRank
  <2>5. NoTaskBack
    BY <2>1, <2>4, Ranks DEF NoTaskBack, Unjoined, TypedInv, Typed
  <2> QED
    BY <2>2, <2>3, <2>5 DEF GetsFurther
<1> QED
  BY <1>1, <1>2, <1>3, <1>4 DEF InputStep

\* A step of the drainer, of the distributor or of the queue's files.
LEMMA FlowDrainerDist ==
  ASSUME TypedInv, WindDown, HeldOnce, DrainerStep \/ DistStep \/ QueueStep
  PROVE  Flows
<1> USE DEF Flows
<1>1. CASE DrainerStop \/ DrainerPopNone \/ DrainerCheckDone
  <2>1. UNCHANGED <<pq, dheld, inputCh, inputVars, filterVars, outVars, mainVars>>
    BY <1>1 DEF DrainerStop, DrainerPopNone, DrainerCheckDone, DrainerUnchanged
  <2>2. drainer # "exited"
    BY <1>1 DEF DrainerStop, DrainerPopNone, DrainerCheckDone
  <2>3. GetsFurther \/ Polls
    BY <1>1 DEF DrainerStop, DrainerPopNone, DrainerCheckDone, GetsFurther, Polls
  <2>4. HeldOnce' /\ NoEventBack
    BY <2>1, FlowFrame
  <2>5. NoTaskBack
    BY <2>1, <2>2, TasksFrame DEF TypedInv
  <2> QED
    BY <2>3, <2>4, <2>5
<1>2. ASSUME NEW e \in Events, DrainerPop(e)
      PROVE  Flows
  <2>1. NoTaskBack
    BY <1>2, TasksFrame DEF DrainerPop, DrainerUnchanged, TypedInv
  <2> QED
    BY <1>2, <2>1, FlowDrainerPop DEF WindDown
<1>3. CASE DrainerSend
  <2>1. NoTaskBack
    BY <1>3, TasksFrame DEF DrainerSend, DrainerUnchanged, TypedInv
  <2> QED
    BY <1>3, <2>1, FlowDrainerSend
<1>4. CASE DistSend
  <2>1. NoTaskBack
    BY <1>4, TasksFrame DEF DistSend, TypedInv
  <2> QED
    BY <1>4, <2>1, FlowDistSend
<1>5. ASSUME NEW e \in Events, DistRecv(e)
      PROVE  Flows
  <2>1. NoTaskBack
    BY <1>5, TasksFrame DEF DistRecv, TypedInv
  <2> QED
    BY <1>5, <2>1, FlowDistRecv
<1>6. CASE DistEnd
  <2>1. /\ UNCHANGED <<inputVars, pqVars, inputCh, heldByDist, workCh, wbatch, workers, outVars,
                      mainVars>>
        /\ dist /\ ~dist'
    BY <1>6 DEF DistEnd
  <2>2. HeldOnce' /\ NoEventBack
    BY <2>1, FlowFrame
  <2>3. NoTaskBack
    BY <2>1, Ranks DEF NoTaskBack, Unjoined, TypedInv, Typed
  <2> QED
    BY <2>1, <2>2, <2>3 DEF GetsFurther
<1>7. CASE DrainerPopErr \/ DrainerRetry \/ QueueStep
  <2>1. /\ UNCHANGED <<pq, dheld, inputCh, inputVars, filterVars, outVars, mainVars>>
        /\ drainer = "exited" => drainer' = "exited"
    BY <1>7 DEF DrainerPopErr, DrainerRetry, QueueStep, QueueBreaks, QueueHeals,
                DrainerUnchanged
  <2>2. Polls \/ QueueTurns
    BY <1>7
    DEF DrainerPopErr, DrainerRetry, QueueStep, QueueBreaks, QueueHeals, Polls, QueueTurns
  <2>3. HeldOnce' /\ NoEventBack
    BY <2>1, FlowFrame
  <2>4. NoTaskBack
    BY <2>1, TasksFrame DEF TypedInv
  <2> QED
    BY <2>2, <2>3, <2>4
<1> QED
  BY <1>1, <1>2, <1>3, <1>4, <1>5, <1>6, <1>7 DEF DrainerStep, DistStep

\* A step of a worker or of the output task.
LEMMA FlowWorkerOutput ==
  ASSUME TypedInv, HeldOnce, OutputStep \/ \E w \in Workers : WorkerStep(w)
  PROVE  Flows
<1> USE DEF Flows
<1>1. ASSUME NEW w \in Workers, WorkerEnd(w)
      PROVE  Flows
  <2>1. /\ UNCHANGED <<inputVars, pqVars, inputCh, heldByDist, dist, workCh, wbatch, outVars,
                      mainVars>>
        /\ workers' = workers \ {w} /\ w \in workers
    BY <1>1 DEF WorkerEnd
  <2>2. HeldOnce' /\ NoEventBack
    BY <2>1, FlowFrame
  <2>3. NoTaskBack
    BY <2>1, Ranks DEF NoTaskBack, Unjoined, TypedInv, Typed
  <2> QED
    BY <2>1, <2>2, <2>3 DEF GetsFurther
<1>2. ASSUME NEW w \in Workers, NEW B \in SUBSET workCh, WorkerTake(w, B)
      PROVE  Flows
  <2>1. NoTaskBack
    BY <1>2, TasksFrame DEF WorkerTake, TypedInv
  <2> QED
    BY <1>2, <2>1, FlowWorkerTake
<1>3. ASSUME NEW w \in Workers, NEW e \in Events, NEW d \in BOOLEAN, WorkerFilter(w, e, d)
      PROVE  Flows
  <2>1. NoTaskBack
    BY <1>3, TasksFrame DEF WorkerFilter, TypedInv
  <2> QED
    BY <1>3, <2>1, FlowWorkerFilter
<1>4. CASE OutputTick
  <2>1. NoTaskBack
    BY <1>4, TasksFrame DEF OutputTick, TypedInv
  <2>2. /\ handled' = handled \cup obatch /\ obatch' = {} /\ obatch # {}
        /\ UNCHANGED <<inputVars, pqVars, inputCh, filterVars, outputCh, mainVars>>
    BY <1>4 DEF OutputTick
  <2> QED
    BY <2>1, <2>2, FlowOutputBatch DEF GetsFurther
<1>5. CASE OutputEnd
  <2>1. /\ handled' = handled \cup obatch /\ obatch' = {}
        /\ UNCHANGED <<inputVars, pqVars, inputCh, filterVars, outputCh, mainVars>>
        /\ output /\ ~output'
    BY <1>5 DEF OutputEnd
  <2>2. HeldOnce' /\ NoEventBack
    BY <2>1, FlowOutputBatch
  <2>3. NoTaskBack
    BY <2>1, Ranks DEF NoTaskBack, Unjoined, TypedInv, Typed
  <2> QED
    BY <2>1, <2>2, <2>3 DEF GetsFurther
<1>6. ASSUME NEW e \in Events, OutputRecv(e)
      PROVE  Flows
  <2>1. NoTaskBack
    BY <1>6, TasksFrame DEF OutputRecv, TypedInv
  <2> QED
    BY <1>6, <2>1, FlowOutputRecv
<1> QED
  BY <1>1, <1>2, <1>3, <1>4, <1>5, <1>6 DEF OutputStep, WorkerStep

\* A step of run(), which moves no event.
LEMMA FlowMain ==
  ASSUME TypedInv, MainOrder, HeldOnce, MainStep \/ Shutdown
  PROVE  Flows
<1>1. UNCHANGED <<inputVars, pqVars, inputCh, filterVars, outVars>>
  BY DEF MainStep, Shutdown, MainUnchanged, JoinPop, Joined, SelectShutdown, SelectInputsDone,
         WaitShutdown, InputsJoined, AwaitDrainer, AwaitDistributor, AwaitWorkers,
         AwaitOutput, Await
<1>2. HeldOnce' /\ NoEventBack
  BY <1>1, FlowFrame
<1>3. \A i \in Inputs : InputRank[input'[i]] >= InputRank[input[i]]
  BY <1>1, Ranks DEF TypedInv, Typed
<1>4. ASSUME MainRank[main'] >= MainRank[main], handles' \subseteq handles,
             Unjoined' \subseteq Unjoined, shutdown => shutdown',
             main # main' \/ handles # handles' \/ Unjoined # Unjoined' \/ shutdown # shutdown'
      PROVE  Flows
  BY <1>1, <1>2, <1>3, <1>4 DEF Flows, NoTaskBack, GetsFurther
<1>5. MainRank[main] >= MainRank[main]
  BY Ranks DEF TypedInv, Typed
<1>6. CASE Shutdown
  BY <1>4, <1>5, <1>6 DEF Shutdown, Unjoined
<1>7. ASSUME NEW i \in Inputs, JoinPop(i)
      PROVE  Flows
  BY <1>4, <1>5, <1>7 DEF JoinPop, Unjoined
<1>8. CASE Joined
  <2>1. joining \in Inputs /\ joining \notin handles /\ joining' = None
        /\ UNCHANGED <<main, handles, inputsDone, shutdown>>
    BY <1>8 DEF Joined, TypedInv, Typed, MainOrder
  <2>2. Unjoined' = handles /\ Unjoined = handles \cup {joining}
    BY <2>1, RunAssumption DEF Unjoined, TypedInv, Typed
  <2> QED
    BY <1>4, <1>5, <2>1, <2>2
<1>9. CASE SelectShutdown \/ SelectInputsDone \/ WaitShutdown \/ InputsJoined
  <2>1. /\ joining' \in {joining, None} /\ UNCHANGED <<handles, shutdown>>
        /\ \/ main = "select" /\ main' \in {"join", "wait"}
           \/ main = "wait" /\ main' = "join"
           \/ main = "join" /\ main' = "drainer"
    BY <1>9 DEF SelectShutdown, SelectInputsDone, WaitShutdown, InputsJoined
  <2>2. MainRank[main'] >= MainRank[main] /\ main # main'
    BY <2>1 DEF MainRank
  <2>3. Unjoined' \subseteq Unjoined
    BY <2>1, RunAssumption DEF Unjoined
  <2> QED
    BY <1>4, <2>1, <2>2, <2>3
<1>10. CASE AwaitDrainer \/ AwaitDistributor \/ AwaitWorkers \/ AwaitOutput
  <2>1. /\ UNCHANGED <<handles, joining, shutdown>>
        /\ \/ main = "drainer" /\ main' = "distributor"
           \/ main = "distributor" /\ main' = "workers"
           \/ main = "workers" /\ main' = "output"
           \/ main = "output" /\ main' = "returned"
    BY <1>10 DEF AwaitDrainer, AwaitDistributor, AwaitWorkers, AwaitOutput, Await
  <2>2. MainRank[main'] >= MainRank[main] /\ main # main'
    BY <2>1 DEF MainRank
  <2> QED
    BY <1>4, <2>1, <2>2 DEF Unjoined
<1> QED
  BY <1>6, <1>7, <1>8, <1>9, <1>10 DEF MainStep

\* Every step hands events on or ends a task, and takes nothing back.
LEMMA FlowStep ==
  ASSUME TypedInv, WindDown, MainOrder, HeldOnce, Next
  PROVE  Flows
BY FlowInput, FlowDrainerDist, FlowWorkerOutput, FlowMain DEF Next

\* The invariant the two theorems share: types, the order of the wind-down, the order
\* of run() and one place for every event.
OnceInv == TypedInv /\ WindDown /\ MainOrder /\ HeldOnce

LEMMA InitOnce == Init => OnceInv
<1> SUFFICES ASSUME Init PROVE OnceInv
  OBVIOUS
<1>1. WindDown /\ MainOrder
  BY RunAssumption DEF Init, WindDown, InputsClosed, DrainerClosed, DistClosed, WorkersClosed,
     OutputClosed, MainClosed, MainOrder
<1>2. Written = {} /\ Persisted = {} /\ Offered = {} /\ Received = {}
  BY RunAssumption DEF Init, Written, Persisted, Offered, Received, Forwarded, Queued, Taken,
     Filtered, Collected, Handled
<1>3. Sent = {}
  BY RunAssumption DEF Init, Sent, Events
<1>4. HeldOnce
  BY <1>2, <1>3 DEF Init, HeldOnce
<1> QED
  BY <1>1, <1>4, InitTyped DEF OnceInv

LEMMA OnceStep ==
  ASSUME OnceInv, [Next]_vars
  PROVE  OnceInv'
<1>1. TypedInv' /\ WindDown' /\ MainOrder'
  BY TypedStep, WindDownStep, MainOrderStep DEF OnceInv
<1>2. HeldOnce'
  <2>1. CASE UNCHANGED vars
    BY <2>1, FlowFrame DEF vars, OnceInv
  <2> QED
    BY <2>1, FlowStep DEF OnceInv, Flows
<1> QED
  BY <1>1, <1>2 DEF OnceInv

\* No event is ever in two places: whatever the tasks' interleaving, nothing is
\* filtered or output twice, but the copy a failed push has left in the queue.
THEOREM HeldOnceHolds == Spec => []HeldOnce
<1>1. OnceInv => HeldOnce
  BY DEF OnceInv
<1> QED
  BY <1>1, InitOnce, OnceStep, PTL DEF Spec

\* Every step brings the run nearer to its end.  Events and tasks are finitely many, so
\* together with NeverStuckHolds a run that is to end can only end, whatever its size.
THEOREM WindsDownHolds == Spec => WindsDown
<1>1. OnceInv /\ [Next]_vars
        => [NoEventBack /\ NoTaskBack /\ (GetsFurther \/ Polls \/ QueueTurns)]_vars
  BY FlowStep DEF OnceInv, Flows
<1> QED
  BY <1>1, InitOnce, OnceStep, PTL DEF Spec, WindsDown
=============================================================================
