---------------------------- MODULE PipelineRun -----------------------------
(***************************************************************************)
(* Pipeline::run (crates/ferro-stash-core/src/pipeline.rs): how its tasks  *)
(* are wired by bounded channels, how events flow from the inputs to the   *)
(* output task, and how the run winds down.  A channel closes when its     *)
(* last sender is dropped, and every task ends because the channel before  *)
(* it closed, so the order in which senders are dropped decides whether    *)
(* the run ends and what it leaves behind.                                 *)
(*                                                                         *)
(* Tasks: one per input with, in front of a persistent queue, a PQ writer; *)
(* the PQ drainer; the distributor; the filter workers; the output task;   *)
(* and run() itself (`main').  Order within a channel is not modelled: a   *)
(* channel is the set of the events in it.                                 *)
(***************************************************************************)
EXTENDS Naturals, FiniteSets

CONSTANTS
  None,
  Inputs,       \* the input plugins
  Finites,      \* the sets of inputs that may be finite (stdin, file, generator)
  PerInput,     \* bound on the events an input produces
  Workers,      \* the filter workers
  Cap,          \* capacity of every channel (buffer_size, after its clamp)
  FilterBatch,  \* FILTER_BATCH
  BatchSize,    \* BufferConfig::batch_size
  MaxFailures   \* bound on PQ pushes that fail (queue full, I/O error)

\* An event is its number at its input; Copy is the same event a second time.
Events == Inputs \X (1 .. PerInput + PerInput)
Copy(e) == <<e[1], e[2] + PerInput>>

ASSUME RunAssumption ==
  /\ None \notin Inputs \cup Events /\ Finites \subseteq SUBSET Inputs
  /\ PerInput \in Nat /\ MaxFailures \in Nat
  /\ IsFiniteSet(Inputs) /\ IsFiniteSet(Workers) /\ Workers # {}
  /\ Cap \in Nat \ {0} /\ FilterBatch \in Nat \ {0} /\ BatchSize \in Nat

\* A pipeline: whether a persistent queue is configured, whether it exits when
\* its inputs are done (auto_exit_on_inputs_done), and the inputs that return by
\* themselves.
Configs == [pq : BOOLEAN, autoExit : BOOLEAN, finite : Finites]

VARIABLES
  config,      \* the pipeline that runs
  sent,        \* number of events each input has sent
  input,       \* state of each input task
  writerCh,    \* channel from an input to its PQ writer
  fallback,    \* the event a PQ writer could not persist and is sending on
  pq,          \* events in the persistent queue and not popped
  readable,    \* whether pop can read the segment it is at
  drainer,     \* state of the drainer
  dheld,       \* the event the drainer is sending
  inputCh,     \* input -> distributor channel
  heldByDist,  \* the event the distributor is forwarding
  dist,        \* whether the distributor runs
  workCh,      \* distributor -> workers (MPMC)
  wbatch,      \* events each worker has taken
  workers,     \* the workers still running
  outputCh,    \* workers -> output task
  obatch,      \* events in the BatchCollector
  output,      \* whether the output task runs
  handled,     \* events an output was given or a filter dropped
  main,        \* where run() is
  handles,     \* input handles it has not joined
  joining,     \* the handle it has popped and is awaiting
  inputsDone,  \* the inputs_done flag
  shutdown,    \* the shutdown signal
  failures

inputVars  == <<config, sent, input, writerCh, fallback, failures>>
pqVars     == <<pq, readable, drainer, dheld>>
filterVars == <<heldByDist, dist, workCh, wbatch, workers>>
outVars    == <<outputCh, obatch, output, handled>>
mainVars   == <<main, handles, joining, inputsDone, shutdown>>
vars == <<inputVars, pqVars, inputCh, filterVars, outVars, mainVars>>

EventOrNone == Events \cup {None}

TypeOK ==
  /\ config \in Configs
  /\ sent \in [Inputs -> 0 .. PerInput]
  /\ input \in [Inputs -> {"running", "writing", "done"}]
  /\ writerCh \in [Inputs -> SUBSET Events]
  /\ fallback \in [Inputs -> EventOrNone]
  /\ pq \subseteq Events
  /\ readable \in BOOLEAN
  /\ drainer \in {"loop", "send", "empty", "error", "exited"} /\ dheld \in EventOrNone
  /\ inputCh \subseteq Events
  /\ heldByDist \in EventOrNone /\ dist \in BOOLEAN
  /\ workCh \subseteq Events
  /\ wbatch \in [Workers -> SUBSET Events] /\ workers \subseteq Workers
  /\ outputCh \subseteq Events /\ obatch \subseteq Events /\ output \in BOOLEAN
  /\ handled \subseteq Events
  /\ main \in {"select", "wait", "join", "drainer", "distributor", "workers",
               "output", "returned"}
  /\ handles \subseteq Inputs /\ joining \in Inputs \cup {None}
  /\ inputsDone \in BOOLEAN /\ shutdown \in BOOLEAN /\ failures \in Nat
  /\ \A ch \in {inputCh, workCh, outputCh} : Cardinality(ch) <= Cap

Init ==
  /\ config \in Configs
  /\ sent = [i \in Inputs |-> 0]
  /\ input = [i \in Inputs |-> "running"]
  /\ writerCh = [i \in Inputs |-> {}]
  /\ fallback = [i \in Inputs |-> None]
  /\ pq = {} /\ readable = TRUE /\ dheld = None
  /\ drainer = IF config.pq THEN "loop" ELSE "exited"
  /\ inputCh = {} /\ heldByDist = None /\ dist = TRUE /\ workCh = {}
  /\ wbatch = [w \in Workers |-> {}] /\ workers = Workers
  /\ outputCh = {} /\ obatch = {} /\ output = TRUE /\ handled = {}
  /\ main = "select" /\ handles = Inputs /\ joining = None
  /\ inputsDone = FALSE /\ shutdown = FALSE /\ failures = 0

\* Faulty variant: one slot too many.
HasRoomOrFull(ch) == Cardinality(ch) <= Cap

HasRoom(ch) == Cardinality(ch) < Cap

-----------------------------------------------------------------------------
(* Inputs and PQ writers                                                   *)

InputSend(i) ==
  LET e == <<i, sent[i] + 1>> IN
  /\ input[i] = "running" /\ sent[i] < PerInput
  /\ sent' = [sent EXCEPT ![i] = @ + 1]
  /\ IF config.pq
       THEN /\ HasRoom(writerCh[i])
            /\ writerCh' = [writerCh EXCEPT ![i] = @ \cup {e}] /\ UNCHANGED inputCh
       ELSE HasRoom(inputCh) /\ inputCh' = inputCh \cup {e} /\ UNCHANGED writerCh
  /\ UNCHANGED <<config, input, fallback, failures, pqVars, filterVars, outVars, mainVars>>

\* The plugin returns: at the end of its source, or because of the shutdown.
InputReturn(i) ==
  /\ input[i] = "running"
  /\ shutdown \/ (i \in config.finite /\ sent[i] = PerInput)
  /\ input' = [input EXCEPT ![i] = IF config.pq THEN "writing" ELSE "done"]
  /\ UNCHANGED <<config, sent, writerCh, fallback, failures, pqVars, inputCh, filterVars,
                 outVars, mainVars>>

\* Faulty variant: an event the queue refuses goes back into the channel.
WriterPushRetries(i, e, result) ==
  /\ e \in writerCh[i] /\ fallback[i] = None
  /\ IF result = "ok"
       THEN /\ pq' = pq \cup {e} /\ UNCHANGED failures
            /\ writerCh' = [writerCh EXCEPT ![i] = @ \ {e}]
       ELSE failures < MaxFailures /\ failures' = failures + 1 /\ UNCHANGED <<pq, writerCh>>
  /\ UNCHANGED <<config, sent, input, fallback, readable, drainer, dheld, inputCh, filterVars, outVars,
                 mainVars>>

\* Faulty variant: an event the queue refuses is sent and tried again.
WriterPushKeeps(i, e, result) ==
  /\ e \in writerCh[i] /\ fallback[i] = None
  /\ IF result = "ok"
       THEN /\ pq' = pq \cup {e} /\ UNCHANGED <<failures, fallback>>
            /\ writerCh' = [writerCh EXCEPT ![i] = @ \ {e}]
       ELSE /\ failures < MaxFailures /\ failures' = failures + 1
            /\ fallback' = [fallback EXCEPT ![i] = e] /\ UNCHANGED <<pq, writerCh>>
  /\ UNCHANGED <<config, sent, input, readable, drainer, dheld, inputCh, filterVars, outVars,
                 mainVars>>

\* The writer persists an event, or keeps it to send it to the filters itself.  An
\* enqueue that fails in its sync or its checkpoint has written the event before.
WriterPush(i, e, result) ==
  /\ e \in writerCh[i] /\ fallback[i] = None
  /\ writerCh' = [writerCh EXCEPT ![i] = @ \ {e}]
  /\ IF result = "ok"
       THEN pq' = pq \cup {e} /\ UNCHANGED <<failures, fallback>>
       ELSE /\ failures < MaxFailures /\ failures' = failures + 1
            /\ fallback' = [fallback EXCEPT ![i] = e]
            /\ pq' = IF result = "written" THEN pq \cup {Copy(e)} ELSE pq
  /\ UNCHANGED <<config, sent, input, readable, drainer, dheld, inputCh, filterVars, outVars,
                 mainVars>>

WriterFallback(i) ==
  /\ fallback[i] # None /\ HasRoom(inputCh)
  /\ inputCh' = inputCh \cup {fallback[i]}
  /\ fallback' = [fallback EXCEPT ![i] = None]
  /\ UNCHANGED <<config, sent, input, writerCh, failures, pqVars, filterVars, outVars,
                 mainVars>>

\* The writer's channel is closed and drained: the input task ends.
WriterEnd(i) ==
  /\ input[i] = "writing" /\ writerCh[i] = {} /\ fallback[i] = None
  /\ input' = [input EXCEPT ![i] = "done"]
  /\ UNCHANGED <<config, sent, writerCh, fallback, failures, pqVars, inputCh, filterVars,
                 outVars, mainVars>>

-----------------------------------------------------------------------------
(* run_pq_drainer                                                          *)

DrainerUnchanged == UNCHANGED <<inputVars, filterVars, outVars, mainVars>>

DrainerStop ==
  /\ drainer = "loop" /\ shutdown
  /\ drainer' = "exited"
  /\ UNCHANGED <<pq, readable, dheld, inputCh>> /\ DrainerUnchanged

DrainerPop(e) ==
  /\ drainer = "loop" /\ ~shutdown /\ readable /\ e \in pq
  /\ pq' = pq \ {e} /\ dheld' = e /\ drainer' = "send"
  /\ UNCHANGED <<readable, inputCh>> /\ DrainerUnchanged

DrainerSend ==
  /\ drainer = "send" /\ HasRoom(inputCh)
  /\ inputCh' = inputCh \cup {dheld} /\ dheld' = None /\ drainer' = "loop"
  /\ UNCHANGED <<pq, readable>> /\ DrainerUnchanged

\* pop_with_seq returned None ...
DrainerPopNone ==
  /\ drainer = "loop" /\ ~shutdown /\ readable /\ pq = {}
  /\ drainer' = "empty"
  /\ UNCHANGED <<pq, readable, dheld, inputCh>> /\ DrainerUnchanged

\* Faulty variant: inputs_done is never read.
DrainerLoops ==
  /\ drainer = "empty"
  /\ drainer' = "loop"
  /\ UNCHANGED <<pq, readable, dheld, inputCh>> /\ DrainerUnchanged

\* ... and inputs_done is read after it.
DrainerCheckDone ==
  /\ drainer = "empty"
  /\ drainer' = IF inputsDone THEN "exited" ELSE "loop"
  /\ UNCHANGED <<pq, readable, dheld, inputCh>> /\ DrainerUnchanged

\* pop_with_seq returned an error: the drainer sleeps and pops again, and does
\* not read inputs_done.
DrainerPopErr ==
  /\ drainer = "loop" /\ ~shutdown /\ ~readable
  /\ drainer' = "error"
  /\ UNCHANGED <<pq, readable, dheld, inputCh>> /\ DrainerUnchanged

DrainerRetry ==
  /\ drainer = "error"
  /\ drainer' = "loop"
  /\ UNCHANGED <<pq, readable, dheld, inputCh>> /\ DrainerUnchanged

\* A segment that cannot be read: an I/O error that passes, or a corrupt file that
\* stays one until somebody repairs it.
QueueBreaks ==
  /\ config.pq /\ readable /\ readable' = FALSE
  /\ UNCHANGED <<pq, drainer, dheld, inputCh>> /\ DrainerUnchanged

QueueHeals ==
  /\ ~readable /\ readable' = TRUE
  /\ UNCHANGED <<pq, drainer, dheld, inputCh>> /\ DrainerUnchanged

-----------------------------------------------------------------------------
(* The distributor, run_filter_worker and run_outputs                      *)

\* Faulty variant: run() keeps its own sender until it returns.
InputChHeld ==
  /\ main = "returned"
  /\ drainer = "exited"
  /\ \A i \in Inputs : input[i] = "done"

\* Every sender of the input channel has been dropped.
InputChClosed ==
  /\ main \notin {"select", "wait", "join"}
  /\ drainer = "exited"
  /\ \A i \in Inputs : input[i] = "done"

DistRecv(e) ==
  /\ dist /\ heldByDist = None /\ e \in inputCh
  /\ inputCh' = inputCh \ {e} /\ heldByDist' = e
  /\ UNCHANGED <<inputVars, pqVars, dist, workCh, wbatch, workers, outVars,
                 mainVars>>

DistSend ==
  /\ heldByDist # None /\ HasRoom(workCh)
  /\ workCh' = workCh \cup {heldByDist} /\ heldByDist' = None
  /\ UNCHANGED <<inputVars, pqVars, inputCh, dist, wbatch, workers, outVars,
                 mainVars>>

\* Faulty variant: the distributor stops without draining its channel.
DistEndEarly ==
  /\ dist /\ heldByDist = None /\ InputChClosed
  /\ dist' = FALSE
  /\ UNCHANGED <<inputVars, pqVars, inputCh, heldByDist, workCh, wbatch, workers,
                 outVars, mainVars>>

DistEnd ==
  /\ dist /\ heldByDist = None /\ inputCh = {} /\ InputChClosed
  /\ dist' = FALSE
  /\ UNCHANGED <<inputVars, pqVars, inputCh, heldByDist, workCh, wbatch, workers,
                 outVars, mainVars>>

\* try_recv until the queue is empty or the batch is full, or one blocking recv.
WorkerTake(w, B) ==
  /\ w \in workers /\ wbatch[w] = {}
  /\ B # {} /\ B \subseteq workCh /\ Cardinality(B) <= FilterBatch
  /\ workCh' = workCh \ B /\ wbatch' = [wbatch EXCEPT ![w] = B]
  /\ UNCHANGED <<inputVars, pqVars, inputCh, heldByDist, dist, workers, outVars,
                 mainVars>>

\* The filter chain drops the event or passes it on.
WorkerFilter(w, e, dropped) ==
  /\ e \in wbatch[w]
  /\ wbatch' = [wbatch EXCEPT ![w] = @ \ {e}]
  /\ IF dropped
       THEN handled' = handled \cup {e} /\ UNCHANGED outputCh
       ELSE HasRoom(outputCh) /\ outputCh' = outputCh \cup {e} /\ UNCHANGED handled
  /\ UNCHANGED <<inputVars, pqVars, inputCh, heldByDist, dist, workCh, workers,
                 obatch, output, mainVars>>

WorkerEnd(w) ==
  /\ w \in workers /\ wbatch[w] = {} /\ workCh = {} /\ ~dist
  /\ workers' = workers \ {w}
  /\ UNCHANGED <<inputVars, pqVars, inputCh, heldByDist, dist, workCh, wbatch,
                 outVars, mainVars>>

OutputRecv(e) ==
  LET batch == obatch \cup {e} IN
  /\ output /\ e \in outputCh
  /\ outputCh' = outputCh \ {e}
  /\ IF Cardinality(batch) >= BatchSize
       THEN handled' = handled \cup batch /\ obatch' = {}
       ELSE obatch' = batch /\ UNCHANGED handled
  /\ UNCHANGED <<inputVars, pqVars, inputCh, filterVars, output, mainVars>>

OutputTick ==
  /\ output /\ obatch # {}
  /\ handled' = handled \cup obatch /\ obatch' = {}
  /\ UNCHANGED <<inputVars, pqVars, inputCh, filterVars, outputCh, output,
                 mainVars>>

\* Faulty variant: the last, partial batch is not sent.
OutputEndNoBatch ==
  /\ output /\ outputCh = {} /\ workers = {}
  /\ output' = FALSE
  /\ UNCHANGED <<inputVars, pqVars, inputCh, filterVars, outputCh, obatch, handled,
                 mainVars>>

OutputEnd ==
  /\ output /\ outputCh = {} /\ workers = {}
  /\ handled' = handled \cup obatch /\ obatch' = {} /\ output' = FALSE
  /\ UNCHANGED <<inputVars, pqVars, inputCh, filterVars, outputCh, mainVars>>

-----------------------------------------------------------------------------
(* run() itself                                                            *)

MainUnchanged == UNCHANGED <<inputVars, pqVars, inputCh, filterVars, outVars>>

Shutdown ==
  /\ ~shutdown /\ shutdown' = TRUE
  /\ UNCHANGED <<main, handles, joining, inputsDone>> /\ MainUnchanged

\* The handles are popped and awaited one by one.
JoinPop(i) ==
  /\ main \in {"select", "join"} /\ joining = None /\ i \in handles
  /\ joining' = i /\ handles' = handles \ {i}
  /\ UNCHANGED <<main, inputsDone, shutdown>> /\ MainUnchanged

Joined ==
  /\ main \in {"select", "join"} /\ joining # None /\ input[joining] = "done"
  /\ joining' = None
  /\ UNCHANGED <<main, handles, inputsDone, shutdown>> /\ MainUnchanged

\* The shutdown branch of the select cancels the other one, and with it the
\* handle that branch had popped.
SelectShutdown ==
  /\ main = "select" /\ shutdown
  /\ main' = "join" /\ joining' = None
  /\ UNCHANGED <<handles, inputsDone, shutdown>> /\ MainUnchanged

SelectInputsDone ==
  /\ main = "select" /\ handles = {} /\ joining = None
  /\ main' = IF config.autoExit THEN "join" ELSE "wait"
  /\ UNCHANGED <<handles, joining, inputsDone, shutdown>> /\ MainUnchanged

WaitShutdown ==
  /\ main = "wait" /\ shutdown
  /\ main' = "join"
  /\ UNCHANGED <<handles, joining, inputsDone, shutdown>> /\ MainUnchanged

\* Faulty variant: the drainer is not told that the inputs are done.
InputsJoinedQuietly ==
  /\ main = "join" /\ handles = {} /\ joining = None
  /\ main' = "drainer"
  /\ UNCHANGED <<handles, joining, inputsDone, shutdown>> /\ MainUnchanged

\* The inputs are joined: inputs_done is set and input_tx dropped.
InputsJoined ==
  /\ main = "join" /\ handles = {} /\ joining = None
  /\ inputsDone' = TRUE /\ main' = "drainer"
  /\ UNCHANGED <<handles, joining, shutdown>> /\ MainUnchanged

Await(at, ended, next) ==
  /\ main = at /\ ended /\ main' = next
  /\ UNCHANGED <<handles, joining, inputsDone, shutdown>> /\ MainUnchanged

AwaitDrainer     == Await("drainer", drainer = "exited", "distributor")
AwaitDistributor == Await("distributor", ~dist, "workers")
AwaitWorkers     == Await("workers", workers = {}, "output")
AwaitOutput      == Await("output", ~output, "returned")

-----------------------------------------------------------------------------

InputStep(i) ==
  \/ InputReturn(i) \/ WriterFallback(i) \/ WriterEnd(i)
  \/ \E e \in Events, r \in {"ok", "refused", "written"} : WriterPush(i, e, r)

DrainerStep ==
  \/ DrainerStop \/ DrainerSend \/ DrainerPopNone \/ DrainerCheckDone
  \/ DrainerPopErr \/ DrainerRetry
  \/ \E e \in Events : DrainerPop(e)

QueueStep == QueueBreaks \/ QueueHeals

DistStep == DistSend \/ DistEnd \/ \E e \in Events : DistRecv(e)

WorkerStep(w) ==
  \/ WorkerEnd(w)
  \/ \E B \in SUBSET workCh : WorkerTake(w, B)
  \/ \E e \in Events, d \in BOOLEAN : WorkerFilter(w, e, d)

OutputStep == OutputTick \/ OutputEnd \/ \E e \in Events : OutputRecv(e)

MainStep ==
  \/ \E i \in Inputs : JoinPop(i)
  \/ Joined \/ SelectShutdown \/ SelectInputsDone \/ WaitShutdown \/ InputsJoined
  \/ AwaitDrainer \/ AwaitDistributor \/ AwaitWorkers \/ AwaitOutput

Next ==
  \/ \E i \in Inputs : InputSend(i) \/ InputStep(i)
  \/ DrainerStep \/ DistStep \/ OutputStep \/ MainStep
  \/ \E w \in Workers : WorkerStep(w)
  \/ Shutdown \/ QueueStep

Spec == Init /\ [][Next]_vars

\* The runtime polls every task that can make progress, and an input plugin
\* sends what it reads.
Fairness ==
  /\ \A i \in Inputs : WF_vars(InputSend(i)) /\ WF_vars(InputStep(i))
  /\ WF_vars(DrainerStep) /\ WF_vars(DistStep) /\ WF_vars(OutputStep)
  /\ WF_vars(MainStep) /\ \A w \in Workers : WF_vars(WorkerStep(w))

LiveSpec == Spec /\ Fairness

-----------------------------------------------------------------------------
(* Properties                                                              *)

Sent == {e \in Events : e[2] <= sent[e[1]]}

\* When run() has returned, every event an input has sent was handled, or is
\* still in the persistent queue for the next run: winding down drains every
\* channel and every task's hands (the order of drops and awaits in run).
NothingDropped == main = "returned" => Sent \subseteq handled \cup pq

\* The run ends: after a shutdown, and with auto-exit once finite inputs are
\* done, unless the queue stays unreadable: then the drainer tries for ever, and
\* only a shutdown ends the run.  No task waits for a channel that another still
\* holds open.
RunReturns ==
  /\ shutdown ~> main = "returned"
  /\ <>[]readable => (config.autoExit /\ config.finite = Inputs ~> main = "returned")

\* The events that have come as far as a stage, from the outputs back to the inputs.
Handled   == handled
Collected == obatch \cup Handled
Filtered  == outputCh \cup Collected
Taken     == {e \in Events : \E w \in Workers : e \in wbatch[w]} \cup Filtered
Queued    == workCh \cup Taken
Forwarded == (Events \cap {heldByDist}) \cup Queued
Received  == inputCh \cup Forwarded
Offered   == {e \in Events : e = dheld \/ \E i \in Inputs : e = fallback[i]} \cup Received
Persisted == pq \cup Offered
Written   == {e \in Events : \E i \in Inputs : e \in writerCh[i]} \cup Persisted

\* An event that was sent is in exactly one place: a channel, the queue, a task's
\* hand or batch, or handled.  Handing it on never leaves a copy behind, so nothing
\* is filtered or output twice, but for an event the queue wrote although its push
\* failed (every send and take of run).
HeldOnce ==
  /\ Sent \subseteq Written
  /\ \A e \in Written \ Sent : failures > 0 /\ \E x \in Sent \cap Persisted : e = Copy(x)
  /\ \A i \in Inputs : /\ writerCh[i] \cap Persisted = {}
                       /\ fallback[i] # None => fallback[i] \notin Received \cup {dheld}
  /\ \A i, j \in Inputs : i # j =>
       /\ writerCh[i] \cap writerCh[j] = {}
       /\ fallback[i] # None => fallback[i] # fallback[j]
  /\ pq \cap Offered = {}
  /\ dheld # None => dheld \notin Received
  /\ inputCh \cap Forwarded = {}
  /\ heldByDist # None => heldByDist \notin Queued
  /\ workCh \cap Taken = {}
  /\ \A v \in Workers : /\ wbatch[v] \cap Filtered = {}
                        /\ \A w \in Workers \ {v} : wbatch[v] \cap wbatch[w] = {}
  /\ outputCh \cap Collected = {}
  /\ obatch \cap Handled = {}

\* The tasks and handles that have ended, and how far run() and an input have come.
InputRank == [running |-> 0, writing |-> 1, done |-> 2]
MainRank == [select |-> 0, wait |-> 1, join |-> 2, drainer |-> 3, distributor |-> 4,
             workers |-> 5, output |-> 6, returned |-> 7]
Unjoined == handles \cup (Inputs \cap {joining})

\* No event goes back to a stage it has left, and no task to what it has ended ...
NoEventBack ==
  /\ Sent \subseteq Sent' /\ Written \subseteq Written' /\ Persisted \subseteq Persisted'
  /\ Offered \subseteq Offered' /\ Received \subseteq Received'
  /\ Forwarded \subseteq Forwarded' /\ Queued \subseteq Queued'
  /\ Taken \subseteq Taken' /\ Filtered \subseteq Filtered'
  /\ Collected \subseteq Collected' /\ Handled \subseteq Handled'

NoTaskBack ==
  /\ \A i \in Inputs : InputRank[input'[i]] >= InputRank[input[i]]
  /\ MainRank[main'] >= MainRank[main]
  /\ handles' \subseteq handles /\ Unjoined' \subseteq Unjoined
  /\ workers' \subseteq workers
  /\ drainer = "exited" => drainer' = "exited"
  /\ (dist' => dist) /\ (output' => output) /\ (shutdown => shutdown')

\* ... but one event or one task gets further.
GetsFurther ==
  \/ Sent # Sent' \/ Persisted # Persisted' \/ Offered # Offered' \/ Received # Received'
  \/ Forwarded # Forwarded' \/ Queued # Queued' \/ Taken # Taken'
  \/ Filtered # Filtered' \/ Collected # Collected' \/ Handled # Handled'
  \/ input # input' \/ main # main' \/ handles # handles' \/ Unjoined # Unjoined'
  \/ workers # workers' \/ dist # dist' \/ output # output' \/ shutdown # shutdown'
  \/ drainer # "exited" /\ drainer' = "exited"

\* The drainer finds the queue empty or unreadable, or comes back to look again.
Polls == \E found \in {"empty", "error"} : {drainer, drainer'} = {"loop", found}

\* The disk queue becomes unreadable or readable again.
QueueTurns == readable' # readable

\* Every step of the program brings the run nearer to its end: an event or a task
\* gets further, and nothing goes back.  There are finitely many of both, so the run
\* cannot go on for ever; only the drainer may poll a queue that is empty or cannot
\* be read as often as it likes.
WindsDown ==
  [][NoEventBack /\ NoTaskBack /\ (GetsFurther \/ Polls \/ QueueTurns)]_vars

\* A task that can get further: the guards of the steps of Next, without the
\* drainer's polling of an empty or unreadable queue.
InputForward(i) ==
  \/ input[i] = "running" /\ (shutdown \/ (i \in config.finite /\ sent[i] = PerInput))
  \/ /\ input[i] = "running" /\ sent[i] < PerInput
     /\ IF config.pq THEN HasRoom(writerCh[i]) ELSE HasRoom(inputCh)
  \/ writerCh[i] # {} /\ fallback[i] = None
  \/ fallback[i] # None /\ HasRoom(inputCh)
  \/ input[i] = "writing" /\ writerCh[i] = {} /\ fallback[i] = None

DrainerForward ==
  \/ /\ drainer \in {"loop", "empty", "error"}
     /\ shutdown \/ (readable /\ (inputsDone \/ pq # {}))
  \/ drainer = "send" /\ HasRoom(inputCh)

DistForward ==
  \/ dist /\ heldByDist = None /\ (inputCh # {} \/ InputChClosed)
  \/ heldByDist # None /\ HasRoom(workCh)

WorkerForward(w) ==
  \/ w \in workers /\ wbatch[w] = {} /\ (workCh # {} \/ ~dist)
  \/ wbatch[w] # {} /\ HasRoom(outputCh)

OutputForward == output /\ (outputCh # {} \/ workers = {})

MainForward ==
  \/ main \in {"select", "join"} /\ joining = None
  \/ main \in {"select", "join"} /\ joining # None /\ input[joining] = "done"
  \/ main \in {"select", "wait"} /\ shutdown
  \/ main = "drainer" /\ drainer = "exited"
  \/ main = "distributor" /\ ~dist
  \/ main = "workers" /\ workers = {}
  \/ main = "output" /\ ~output

\* Once the run is to end (a shutdown, or auto-exit with finite inputs), some task
\* can get further until run() has returned: no task waits for a channel to have
\* room or to close that only a task waiting for it would drain or close.  What may
\* hold up an auto-exit run for good is a queue that the drainer cannot read.
NeverStuck ==
  (shutdown \/ (config.autoExit /\ config.finite = Inputs)) /\ main # "returned" =>
    \/ \E i \in Inputs : InputForward(i)
    \/ DrainerForward \/ DistForward \/ \E w \in Workers : WorkerForward(w)
    \/ OutputForward \/ MainForward
    \/ ~shutdown /\ ~readable /\ drainer \in {"loop", "empty", "error"}

\* In auto-exit mode the persistent queue is drained before the run ends.
DrainedBeforeExit == main = "returned" /\ ~shutdown => pq = {}
=============================================================================
