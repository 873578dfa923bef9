---------------------------- MODULE AckPipeline -----------------------------
(***************************************************************************)
(* At-least-once delivery through the pipeline engine                      *)
(* (crates/ferro-stash-core/src/pipeline.rs): the PQ drainer, the filter   *)
(* workers and the output task, with the AckTracker between them and the   *)
(* persistent queue's cursors underneath, under filter errors, output      *)
(* errors, a DLQ that may refuse a record, flush and checkpoint failures,  *)
(* crashes, clean shutdown and restart.                                    *)
(*                                                                         *)
(* A queue entry is its sequence number.  A derived event is a pair        *)
(* <<s, i>>: the i-th event the filter chain made of entry s.  Neither the *)
(* input channel nor the workers preserve an order the tracker relies on,  *)
(* so a channel is the set of the events in it, kept as the stage each     *)
(* entry and each derived event has reached.  Any number of workers may    *)
(* run: each entry is in the hands of one of them.                         *)
(***************************************************************************)
EXTENDS AckTracker, FiniteSets

CONSTANTS
  MaxFanout,     \* most events one entry becomes (clone, split)
  NumOutputs,    \* output plugins, in configuration order 1..NumOutputs
  Buffering,     \* the outputs whose output() only buffers (s3)
  BatchSize,     \* BufferConfig::batch_size
  DlqEnabled,    \* whether a dead letter queue is configured
  MaxFaults,     \* bound on plugin, DLQ and checkpoint failures
  MaxCrashes     \* bound on crashes and restarts

ASSUME PipelineAssumption ==
  /\ MaxFanout \in Nat
  /\ NumOutputs \in Nat
  /\ Buffering \subseteq 1 .. NumOutputs
  /\ BatchSize \in Nat \ {0}
  /\ DlqEnabled \in BOOLEAN
  /\ MaxFaults \in Nat
  /\ MaxCrashes \in Nat

Outputs == 1 .. NumOutputs
Derived == Seqs \X (1 .. MaxFanout)

VARIABLES
  writeSeq, readSeq, ackSeq, \* PersistentQueue cursors in memory
  cpAck,       \* the ack_seq of the checkpoint on disk
  tracker,     \* AckTracker
  entry,       \* stage of every queue entry in this run
  fan,         \* number of events the filter chain made of an entry
  filterLost,  \* lost_uncaptured: a derivation was lost while filtering
  event,       \* stage of every derived event in this run
  lost,        \* derived events some output failed and the DLQ did not capture
  owed,        \* outputs a derived event matches and that do not hold it durably
  inBuf,       \* events in the RAM buffer of each buffering output
  opc,         \* where the output task is
  after,       \* where it continues after send_batch
  turn,        \* the output it is at, in a loop over the outputs
  point,       \* the ack point it read before flushing
  lastAcked,   \* last_acked of run_outputs
  allDurable,  \* all_durable of run_outputs
  shutdown,    \* the shutdown signal
  drainer,     \* whether the PQ drainer is running
  faults, crashes

queueVars  == <<writeSeq, readSeq, ackSeq, cpAck>>
stageVars  == <<entry, fan, filterLost>>
outputVars == <<opc, after, turn, point, lastAcked, allDurable>>
eventVars  == <<event, lost, owed, inBuf>>
envVars    == <<shutdown, drainer, faults, crashes>>
vars == <<queueVars, tracker, stageVars, eventVars, outputVars, envVars>>

EntryStages == {"queued", "popped", "registered", "filter", "filtered",
                "blocked", "fanned"}
EventStages == {"none", "worker", "outq", "batch", "lost", "done"}
OutputStages == {"select", "send", "ack", "flush", "close", "stopped"}

TypeOK ==
  /\ writeSeq \in 0 .. MaxSeq /\ readSeq \in 0 .. MaxSeq
  /\ ackSeq \in 0 .. MaxSeq /\ cpAck \in 0 .. MaxSeq
  /\ tracker \in AckState
  /\ entry \in [Seqs -> EntryStages]
  /\ fan \in [Seqs -> 0 .. MaxFanout]
  /\ filterLost \in [Seqs -> BOOLEAN]
  /\ event \in [Derived -> EventStages]
  /\ lost \subseteq Derived
  /\ owed \in [Derived -> SUBSET Outputs]
  /\ inBuf \in [Outputs -> SUBSET Derived]
  /\ opc \in OutputStages
  /\ after \in {"select", "ack", "close"}
  /\ turn \in 1 .. NumOutputs + 1
  /\ point \in 0 .. MaxSeq
  /\ lastAcked \in 0 .. MaxSeq
  /\ allDurable \in BOOLEAN
  /\ shutdown \in BOOLEAN
  /\ drainer \in {"running", "stopped"}
  /\ faults \in Nat /\ crashes \in Nat

Init ==
  /\ writeSeq = 0 /\ readSeq = 0 /\ ackSeq = 0 /\ cpAck = 0
  /\ tracker = new
  /\ entry = [s \in Seqs |-> "queued"]
  /\ fan = [s \in Seqs |-> 0]
  /\ filterLost = [s \in Seqs |-> FALSE]
  /\ event = [d \in Derived |-> "none"]
  /\ lost = {}
  /\ owed = [d \in Derived |-> {}]
  /\ inBuf = [o \in Outputs |-> {}]
  /\ opc = "select" /\ after = "select" /\ turn = 1
  /\ point = 0 /\ lastAcked = 0 /\ allDurable = TRUE
  /\ shutdown = FALSE /\ drainer = "running"
  /\ faults = 0 /\ crashes = 0

Fault == faults < MaxFaults /\ faults' = faults + 1

-----------------------------------------------------------------------------
(* Inputs and the PQ drainer.                                              *)

\* The input's PQ writer persists an event.  Every checkpoint_interval events
\* the enqueue ends in a checkpoint, which also persists the current ack_seq.
Push(checkpointed) ==
  /\ opc # "stopped" /\ writeSeq < MaxSeq
  /\ writeSeq' = writeSeq + 1
  /\ cpAck' = IF checkpointed THEN ackSeq ELSE cpAck
  /\ UNCHANGED <<readSeq, ackSeq, tracker, stageVars, eventVars, outputVars,
                 envVars>>

DrainerBusy == \E s \in Seqs : entry[s] \in {"popped", "registered"}

DrainerPop ==
  /\ drainer = "running" /\ ~shutdown /\ ~DrainerBusy
  /\ readSeq < writeSeq
  /\ entry' = [entry EXCEPT ![readSeq] = "popped"]
  /\ readSeq' = readSeq + 1
  /\ UNCHANGED <<writeSeq, ackSeq, cpAck, tracker, fan, filterLost, eventVars,
                 outputVars, envVars>>

DrainerRegister(s) ==
  /\ entry[s] = "popped"
  /\ tracker' = register(tracker, s)
  /\ entry' = [entry EXCEPT ![s] = "registered"]
  /\ UNCHANGED <<queueVars, fan, filterLost, eventVars, outputVars, envVars>>

DrainerSend(s) ==
  /\ entry[s] = "registered"
  /\ entry' = [entry EXCEPT ![s] = "filter"]
  /\ UNCHANGED <<queueVars, tracker, fan, filterLost, eventVars, outputVars,
                 envVars>>

\* The drainer leaves its loop on shutdown; a last checkpoint persists ack_seq.
DrainerStop(checkpointed) ==
  /\ drainer = "running" /\ shutdown /\ ~DrainerBusy
  /\ drainer' = "stopped"
  /\ IF checkpointed THEN cpAck' = ackSeq /\ UNCHANGED faults
                     ELSE UNCHANGED cpAck /\ Fault
  /\ UNCHANGED <<writeSeq, readSeq, ackSeq, tracker, stageVars, eventVars,
                 outputVars, shutdown, crashes>>

-----------------------------------------------------------------------------
(* run_filter_worker                                                       *)

\* The filter chain turns the entry into k events; `failed' says that a filter
\* returned an error for some derivation, `captured' that the DLQ took every
\* such derivation (Ok(true)).
FilterChain(s, k, failed, captured) ==
  /\ entry[s] = "filter"
  /\ captured => failed /\ DlqEnabled
  /\ IF failed THEN Fault ELSE UNCHANGED faults
  /\ entry' = [entry EXCEPT ![s] = "filtered"]
  /\ fan' = [fan EXCEPT ![s] = k]
  /\ filterLost' = [filterLost EXCEPT ![s] = failed /\ ~captured]
  /\ UNCHANGED <<queueVars, tracker, eventVars, outputVars, shutdown,
                 drainer, crashes>>

WorkerBlock(s) ==
  /\ entry[s] = "filtered"
  /\ tracker' = IF filterLost[s] THEN block(tracker, s) ELSE tracker
  /\ entry' = [entry EXCEPT ![s] = "blocked"]
  /\ UNCHANGED <<queueVars, fan, filterLost, eventVars, outputVars, envVars>>

\* match[i]: the outputs whose condition the i-th derived event satisfies.
WorkerFanout(s, match) ==
  /\ entry[s] = "blocked"
  /\ tracker' = set_fanout(tracker, s, fan[s])
  /\ entry' = [entry EXCEPT ![s] = "fanned"]
  /\ event' = [d \in Derived |->
                 IF d[1] = s /\ d[2] <= fan[s] THEN "worker" ELSE event[d]]
  /\ owed' = [d \in Derived |->
                IF d[1] = s /\ d[2] <= fan[s] THEN match[d[2]] ELSE owed[d]]
  /\ UNCHANGED <<queueVars, fan, filterLost, lost, inBuf, outputVars, envVars>>

\* The worker sends its derived events one at a time, in order.
WorkerSend(d) ==
  /\ event[d] = "worker"
  /\ \A e \in Derived : e[1] = d[1] /\ e[2] < d[2] => event[e] # "worker"
  /\ event' = [event EXCEPT ![d] = "outq"]
  /\ UNCHANGED <<queueVars, tracker, stageVars, lost, owed, inBuf, outputVars,
                 envVars>>

-----------------------------------------------------------------------------
(* run_outputs: the batch collector, send_batch, flush_and_ack, shutdown.  *)

Batch == {d \in Derived : event[d] = "batch"}

OutputRecv(d) ==
  /\ opc = "select" /\ event[d] = "outq"
  /\ event' = [event EXCEPT ![d] = "batch"]
  /\ IF Cardinality(Batch) + 1 >= BatchSize
       THEN opc' = "send" /\ after' = "select" /\ turn' = 1
       ELSE UNCHANGED <<opc, after, turn>>
  /\ UNCHANGED <<queueVars, tracker, stageVars, lost, owed, inBuf, point,
                 lastAcked, allDurable, envVars>>

FlushTick ==
  /\ opc = "select"
  /\ opc' = IF Batch # {} THEN "send" ELSE "ack"
  /\ after' = "ack" /\ turn' = 1
  /\ UNCHANGED <<queueVars, tracker, stageVars, eventVars, point, lastAcked,
                 allDurable, envVars>>

\* Every sender is gone: the drainer has stopped, the workers have drained the
\* work queue and their own events, and the output channel is empty.
ChannelClosed ==
  /\ drainer = "stopped"
  /\ \A s \in Seqs : entry[s] \in {"queued", "fanned"}
  /\ \A d \in Derived : event[d] \notin {"worker", "outq"}

OutputClosed ==
  /\ opc = "select" /\ ChannelClosed
  /\ opc' = IF Batch # {} THEN "send" ELSE "close"
  /\ after' = "close" /\ turn' = 1
  /\ UNCHANGED <<queueVars, tracker, stageVars, eventVars, point, lastAcked,
                 allDurable, envVars>>

Matching(o) == {d \in Batch : o \in owed[d]}

\* Outputs in D now hold their events durably (delivered, uploaded or DLQ'd).
Settle(D, o) == [d \in Derived |-> IF d \in D THEN owed[d] \ {o} ELSE owed[d]]

\* output() returned Ok, or was not called because no event matches: a buffering
\* output keeps the events in RAM and may rotate, which uploads its whole buffer.
OutputOk(uploaded) ==
  LET o == turn IN
  /\ opc = "send" /\ o <= NumOutputs
  /\ uploaded => Matching(o) # {}
  /\ IF o \in Buffering /\ ~uploaded
       THEN inBuf' = [inBuf EXCEPT ![o] = @ \cup Matching(o)] /\ owed' = owed
       ELSE /\ inBuf' = [inBuf EXCEPT ![o] = {}]
            /\ owed' = Settle(Matching(o) \cup inBuf[o], o)
  /\ turn' = turn + 1
  /\ UNCHANGED <<queueVars, tracker, stageVars, event, lost, opc, after, point,
                 lastAcked, allDurable, envVars>>

\* output() returned Err: each matching event goes to the DLQ; the ones in
\* `captured' got Ok(true), the others are lost.
OutputErr(captured) ==
  LET o == turn IN
  /\ opc = "send" /\ o <= NumOutputs
  /\ Matching(o) # {} /\ captured \subseteq Matching(o)
  /\ captured # {} => DlqEnabled
  /\ Fault
  /\ owed' = Settle(captured, o)
  /\ lost' = lost \cup (Matching(o) \ captured)
  /\ turn' = turn + 1
  /\ UNCHANGED <<queueVars, tracker, stageVars, event, inBuf, opc, after, point,
                 lastAcked, allDurable, shutdown, drainer, crashes>>

\* After the last output, send_batch completes each event that is not lost,
\* one tracker call at a time.
Complete(d) ==
  /\ opc = "send" /\ turn > NumOutputs /\ event[d] = "batch"
  /\ IF d \in lost
       THEN tracker' = tracker /\ event' = [event EXCEPT ![d] = "lost"]
       ELSE /\ tracker' = complete(tracker, d[1])
            /\ event' = [event EXCEPT ![d] = "done"]
  /\ UNCHANGED <<queueVars, stageVars, owed, inBuf, lost, outputVars, envVars>>

SendDone ==
  /\ opc = "send" /\ turn > NumOutputs /\ Batch = {}
  /\ opc' = after /\ turn' = 1
  /\ UNCHANGED <<queueVars, tracker, stageVars, eventVars, after, point,
                 lastAcked, allDurable, envVars>>

\* flush_and_ack reads the ack point before it flushes the outputs.
AckStart ==
  LET p == ack_point(tracker) IN
  /\ opc = "ack"
  /\ IF p = None \/ p <= lastAcked
       THEN opc' = "select" /\ UNCHANGED point
       ELSE opc' = "flush" /\ point' = p
  /\ turn' = 1
  /\ UNCHANGED <<queueVars, tracker, stageVars, eventVars, after, lastAcked,
                 allDurable, envVars>>

FlushOk ==
  LET o == turn IN
  /\ opc = "flush" /\ o <= NumOutputs
  /\ inBuf' = [inBuf EXCEPT ![o] = {}]
  /\ owed' = Settle(inBuf[o], o)
  /\ turn' = turn + 1
  /\ UNCHANGED <<queueVars, tracker, stageVars, event, lost, opc, after, point,
                 lastAcked, allDurable, envVars>>

\* Faulty variant: a failed flush counts as acknowledged.
FlushErrAcked ==
  /\ opc = "flush" /\ turn <= NumOutputs
  /\ Fault
  /\ opc' = "select" /\ lastAcked' = point
  /\ UNCHANGED <<queueVars, tracker, stageVars, eventVars, after, turn, point,
                 allDurable, shutdown, drainer, crashes>>

\* The events stay buffered (upload_or_restore) and the ack is deferred.
FlushErr ==
  /\ opc = "flush" /\ turn <= NumOutputs
  /\ Fault
  /\ opc' = "select"
  /\ UNCHANGED <<queueVars, tracker, stageVars, eventVars, after, turn, point,
                 lastAcked, allDurable, shutdown, drainer, crashes>>

Larger(a, b) == IF a < b THEN b ELSE a

\* PersistentQueue::ack: both cursors move forward, then the checkpoint is
\* written and the segments below it are collected.  Either may fail, and
\* last_acked follows only when both succeeded.
PqAck(p, result) ==
  /\ ackSeq' = Larger(ackSeq, p)
  /\ readSeq' = Larger(readSeq, Larger(ackSeq, p))
  /\ cpAck' = IF result = "checkpoint_err" THEN cpAck ELSE Larger(ackSeq, p)
  /\ IF result = "ok" THEN lastAcked' = p /\ UNCHANGED faults
                      ELSE UNCHANGED lastAcked /\ Fault
  /\ UNCHANGED writeSeq

FlushDone(result) ==
  /\ opc = "flush" /\ turn > NumOutputs
  /\ PqAck(point, result)
  /\ opc' = "select"
  /\ UNCHANGED <<tracker, stageVars, eventVars, after, turn, point, allDurable,
                 shutdown, drainer, crashes>>

\* flush() and close() of one output at the end of run_outputs.  `drained' says
\* that a later attempt of the two emptied its buffer.
CloseOutput(ok, drained) ==
  LET o == turn IN
  /\ opc = "close" /\ o <= NumOutputs
  /\ ok => drained
  /\ IF ok THEN UNCHANGED <<allDurable, faults>> ELSE allDurable' = FALSE /\ Fault
  /\ IF drained
       THEN inBuf' = [inBuf EXCEPT ![o] = {}] /\ owed' = Settle(inBuf[o], o)
       ELSE UNCHANGED <<inBuf, owed>>
  /\ turn' = turn + 1
  /\ UNCHANGED <<queueVars, tracker, stageVars, event, lost, opc, after, point,
                 lastAcked, shutdown, drainer, crashes>>

\* Faulty variant: the output task ends without a last ack.
FinalAckSkipped(result) ==
  /\ opc = "close" /\ turn > NumOutputs
  /\ opc' = "stopped"
  /\ UNCHANGED <<queueVars, tracker, stageVars, eventVars, after, turn, point,
                 lastAcked, allDurable, envVars>>

\* advance_durable_ack, only if every flush and close succeeded.
FinalAck(result) ==
  LET p == ack_point(tracker) IN
  /\ opc = "close" /\ turn > NumOutputs
  /\ opc' = "stopped"
  /\ IF allDurable /\ p # None /\ p > lastAcked
       THEN PqAck(p, result)
       ELSE UNCHANGED <<queueVars, lastAcked, faults>>
  /\ UNCHANGED <<tracker, stageVars, eventVars, after, turn, point, allDurable,
                 shutdown, drainer, crashes>>

-----------------------------------------------------------------------------
(* The environment: shutdown, crash, restart.                              *)

Shutdown ==
  /\ ~shutdown
  /\ shutdown' = TRUE
  /\ UNCHANGED <<queueVars, tracker, stageVars, eventVars, outputVars, drainer,
                 faults, crashes>>

\* A crash at any point, or a new start after a clean stop: PersistentQueue::open
\* puts both cursors at the checkpoint's ack_seq and everything else is fresh.
Restart ==
  /\ crashes < MaxCrashes
  /\ crashes' = crashes + 1
  /\ readSeq' = cpAck /\ ackSeq' = cpAck
  /\ tracker' = new
  /\ entry' = [s \in Seqs |-> "queued"]
  /\ fan' = [s \in Seqs |-> 0]
  /\ filterLost' = [s \in Seqs |-> FALSE]
  /\ event' = [d \in Derived |-> "none"]
  /\ lost' = {}
  /\ owed' = [d \in Derived |-> {}]
  /\ inBuf' = [o \in Outputs |-> {}]
  /\ opc' = "select" /\ after' = "select" /\ turn' = 1
  /\ point' = 0 /\ lastAcked' = 0 /\ allDurable' = TRUE
  /\ shutdown' = FALSE /\ drainer' = "running"
  /\ UNCHANGED <<writeSeq, cpAck, faults>>

Results == {"ok", "gc_err", "checkpoint_err"}

Next ==
  \/ \E c \in BOOLEAN : Push(c) \/ DrainerStop(c)
  \/ DrainerPop
  \/ \E s \in Seqs :
       \/ DrainerRegister(s) \/ DrainerSend(s) \/ WorkerBlock(s)
       \/ \E k \in 0 .. MaxFanout, f, c \in BOOLEAN : FilterChain(s, k, f, c)
       \/ \E m \in [1 .. fan[s] -> SUBSET Outputs] : WorkerFanout(s, m)
  \/ \E d \in Derived : WorkerSend(d) \/ OutputRecv(d) \/ Complete(d)
  \/ FlushTick \/ OutputClosed
  \/ \E u \in BOOLEAN : OutputOk(u)
  \/ \E C \in SUBSET Batch : OutputErr(C)
  \/ SendDone \/ AckStart \/ FlushOk \/ FlushErr
  \/ \E r \in Results : FlushDone(r) \/ FinalAck(r)
  \/ \E ok, dr \in BOOLEAN : CloseOutput(ok, dr)
  \/ Shutdown \/ Restart

Spec == Init /\ [][Next]_vars

\* Tokio keeps polling every task that can run, and the flush timer keeps
\* ticking.  tokio::select! polls its branches in random order, so a branch that
\* is ready again and again is taken: strong fairness for the receive branch.
DrainerStep ==
  \/ DrainerPop \/ \E c \in BOOLEAN : DrainerStop(c)
  \/ \E s \in Seqs : DrainerRegister(s) \/ DrainerSend(s)

WorkerStep(s) ==
  \/ WorkerBlock(s)
  \/ \E k \in 0 .. MaxFanout, f, c \in BOOLEAN : FilterChain(s, k, f, c)
  \/ \E m \in [1 .. fan[s] -> SUBSET Outputs] : WorkerFanout(s, m)
  \/ \E i \in 1 .. MaxFanout : WorkerSend(<<s, i>>)

RecvStep == OutputClosed \/ \E d \in Derived : OutputRecv(d)

OutputStep ==
  \/ FlushTick \/ RecvStep
  \/ \E d \in Derived : Complete(d)
  \/ \E u \in BOOLEAN : OutputOk(u)
  \/ \E C \in SUBSET Batch : OutputErr(C)
  \/ SendDone \/ AckStart \/ FlushOk \/ FlushErr
  \/ \E r \in Results : FlushDone(r) \/ FinalAck(r)
  \/ \E ok, dr \in BOOLEAN : CloseOutput(ok, dr)

Fairness ==
  /\ WF_vars(DrainerStep)
  /\ \A s \in Seqs : WF_vars(WorkerStep(s))
  /\ WF_vars(OutputStep)
  /\ SF_vars(RecvStep)

LiveSpec == Spec /\ Fairness

-----------------------------------------------------------------------------
(* Properties.                                                             *)

\* Entry s has reached a terminal state in this run: its filter chain lost
\* nothing, and every output an event derived from it matches holds that event
\* durably or had its failure captured in the DLQ.
Terminal(s) ==
  /\ entry[s] = "fanned" /\ ~filterLost[s]
  /\ \A i \in 1 .. fan[s] : owed[<<s, i>>] = {}

\* At-least-once: the durable cursor never passes an entry that is not terminal,
\* whichever call writes the checkpoint and whatever crashed or failed before
\* (flush_and_ack, advance_durable_ack; the guarantee documented on AckState).
AckOnlyTerminal ==
  [][\A s \in Seqs : cpAck <= s /\ s < cpAck' => Terminal(s)]_vars

\* A shutdown during which nothing failed strands nothing: every entry the
\* drainer popped is acknowledged when the output task ends, so that none of
\* them is delivered again by the next run (the final ack of run_outputs).
CleanStopAcksAll ==
  opc = "stopped" /\ faults = 0 => cpAck = readSeq

\* An event derived from an entry up to s was lost in this run: the ack point
\* stays at or below s until a restart replays it.
Pinned(s) ==
  \E r \in 0 .. s : filterLost[r] \/ \E i \in 1 .. MaxFanout : <<r, i>> \in lost

\* Every persisted entry is durably acknowledged in the end, unless an entry up
\* to it was lost or the pipeline is asked to stop: a failed flush, checkpoint or
\* gc and a crash only delay the ack (the periodic flush_and_ack retries).
EventuallyAcked ==
  \A s \in Seqs : (s < writeSeq) ~> (s < cpAck \/ Pinned(s) \/ shutdown)
=============================================================================
