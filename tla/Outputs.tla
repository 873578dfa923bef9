------------------------------ MODULE Outputs ------------------------------
(***************************************************************************)
(* The output plugins.  run_outputs calls output() with one batch after    *)
(* the other; a batch whose call fails goes to the dead letter queue as a  *)
(* whole.  Most plugins cut the batch into requests and differ in the size *)
(* of a request, in how often it is tried, and in whether an error ends    *)
(* the call or only that request: their Plan.  The file, s3, pipe and      *)
(* pipeline outputs keep state of their own.                               *)
(***************************************************************************)
EXTENDS Naturals, Sequences, FiniteSets, SequencesExt

CONSTANTS NumEvents,     \* events in a batch
          NumBatches,
          MaxTries,      \* 1 + retry_count, DATADOG_MAX_ATTEMPTS
          Chunk,         \* batch_size of datadog, CW_MAX_BATCH
          MaxBusRetries, \* how often the pipeline output looks for its address
          BusRoom,       \* capacity of the target pipeline's channel
          PipeRoom,      \* lines the child's standard input takes unread
          SizeFile,      \* size_file of s3, in lines
          MaxSinkFaults, \* lost answers and refused requests
          MaxOutages,    \* times the other end goes away
          OutputKinds,
          Refused,       \* events the sink rejects: a mapping, a constraint
          Unencodable,   \* events the codec or template cannot encode
          NoMetric       \* events without a metric for cloudwatch, graphite

ASSUME OutputAssumption ==
  /\ {NumEvents, NumBatches, MaxTries, Chunk, MaxBusRetries, BusRoom, PipeRoom, SizeFile,
      MaxSinkFaults, MaxOutages} \subseteq Nat
  /\ NumEvents > 0 /\ MaxTries > 0 /\ Chunk > 0

OutEvents == 1 .. NumEvents * NumBatches

VARIABLES
  out,      \* the plugin
  opc,      \* "idle", "sending", "closed"
  round,    \* number of the batch
  left,     \* events of the batch the call still has to send
  tried,    \* failed attempts of this request
  failed,   \* first_error is set
  got,      \* how often the sink received each event
  unsure,   \* events of a request whose answer was lost
  oks,      \* events of the batches whose call returned Ok
  dlq,      \* events of the batches whose call failed
  held,     \* BufWriter, s3 buffer, or what the child has not read
  nowhere,  \* written to a file that was deleted
  inbox,    \* events in the target pipeline's channel that it has not read
  conn,     \* cached connection, open file, child, address: none, up, broken
  sinkUp,
  cause,    \* something went wrong since the call began
  sinkFaults, outages

outVars == <<out, opc, round, left, tried, failed, got, unsure, oks, dlq, held, nowhere,
             inbox, conn, sinkUp, cause, sinkFaults, outages>>
callVars == <<opc, left, tried, failed, oks, dlq>>
sinkVars == <<got, unsure, nowhere>>
linkVars == <<inbox, conn, sinkUp, outages>>

OutInit ==
  /\ out \in OutputKinds /\ opc = "idle" /\ round = 0
  /\ left = {} /\ tried = 0 /\ failed = FALSE
  /\ got = [e \in OutEvents |-> 0] /\ unsure = {} /\ oks = {} /\ dlq = {}
  /\ held = <<>> /\ nowhere = {} /\ inbox = 0 /\ conn = "none" /\ sinkUp = TRUE
  /\ cause = FALSE /\ sinkFaults = 0 /\ outages = 0

BatchOf(r) == {(r - 1) * NumEvents + i : i \in 1 .. NumEvents}
Batch == BatchOf(round)
Lines == [i \in 1 .. NumEvents |-> (round - 1) * NumEvents + i]
Least(a, b) == IF a < b THEN a ELSE b

(***************************************************************************)
(* Plans: unit is the number of events in a request, tries how often it is *)
(* sent, onError whether the call stops there, encode when the codec runs. *)
(***************************************************************************)

Plan(unit, tries, onError, encode) ==
  [unit |-> unit, tries |-> tries, onError |-> onError, encode |-> encode]

(* The bulk body is sent again as a whole, to the same host. *)
EsPlan == Plan(NumEvents, MaxTries, "stop", "never")
HttpPlan == Plan(NumEvents, MaxTries, "stop", "never")
HttpFormPlan == Plan(1, MaxTries, "continue", "never")   \* output_form
KafkaPlan == Plan(1, 1, "continue", "first")
RedisListPlan == Plan(NumEvents, 1, "stop", "first")     \* one RPUSH
RedisChannelPlan == Plan(NumEvents, 1, "stop", "first")  \* a pipeline of PUBLISH
SqsPlan == Plan(1, 1, "stop", "each")
SnsPlan == Plan(1, 1, "stop", "each")
RabbitPlan == Plan(1, 1, "stop", "first")
JdbcPlan == Plan(1, 1, "stop", "never")
EmailPlan == Plan(1, 1, "stop", "each")
DatadogPlan == Plan(Chunk, MaxTries, "stop", "never")
CloudwatchPlan == Plan(Chunk, 1, "stop", "skip")         \* build_datum
GraphitePlan == Plan(NumEvents, 1, "stop", "skip")       \* render_event
UdpPlan == Plan(1, 1, "stop", "each")
TcpPlan == Plan(1, 1, "stop", "never")
StdoutPlan == Plan(NumEvents, 1, "stop", "never")
NullPlan == Plan(NumEvents, 1, "stop", "skip")

PlanOf ==
  CASE out = "elasticsearch" -> EsPlan [] out = "http" -> HttpPlan
    [] out = "http_form" -> HttpFormPlan [] out = "kafka" -> KafkaPlan
    [] out = "redis_list" -> RedisListPlan [] out = "redis_channel" -> RedisChannelPlan
    [] out = "sqs" -> SqsPlan [] out = "sns" -> SnsPlan [] out = "rabbitmq" -> RabbitPlan
    [] out = "jdbc" -> JdbcPlan [] out = "email" -> EmailPlan
    [] out = "datadog" -> DatadogPlan [] out = "cloudwatch" -> CloudwatchPlan
    [] out = "graphite" -> GraphitePlan [] out = "udp" -> UdpPlan [] out = "tcp" -> TcpPlan
    [] out = "stdout" -> StdoutPlan [] out = "null" -> NullPlan

Planned == {"elasticsearch", "http", "http_form", "kafka", "redis_list", "redis_channel", "sqs",
            "sns", "rabbitmq", "jdbc", "email", "datadog", "cloudwatch", "graphite", "udp",
            "tcp", "stdout", "null"}

(* No answer tells whether the event arrived.  rabbitmq publishes on a     *)
(* channel that is not in confirm mode.                                    *)
Unacknowledged == {"udp", "tcp", "graphite", "rabbitmq", "redis_channel"}

(* The plugin leaves these events out of its requests. *)
Skipped == IF out = "null" THEN OutEvents
           ELSE IF out \in {"cloudwatch", "graphite"} THEN NoMetric ELSE {}

(* Mutant: redis without its connection manager. *)
KeepsConnectionRedis == out \in {"rabbitmq", "redis_list"}

(* The connection made on first use is kept for good, dead or alive. *)
KeepsConnection == out = "rabbitmq"

(* The next n of the events to send, in their order; the request in hand. *)
NextOf(n) == {e \in left : Cardinality({d \in left : d < e}) < n}
Unit == NextOf(PlanOf.unit)

(***************************************************************************)
(* Answers: what the sink did with a request and what the plugin made of   *)
(* it.  fault: it uses up one of the faults.                               *)
(***************************************************************************)

Answer(applied, verdict, fault) == [applied |-> applied, verdict |-> verdict, fault |-> fault]

(* 2xx, 429 or 5xx, another status, a transport error. *)
HttpAnswers(U) ==
  {IF U \intersect Refused = {} THEN Answer(U, "ok", FALSE) ELSE Answer({}, "fatal", FALSE),
   Answer({}, "again", TRUE), Answer({}, "fatal", TRUE), Answer(U \ Refused, "again", TRUE)}

(* Mutants: only the status is looked at; a failed item is a retry. *)
BulkAnswersUnchecked(U) == {Answer(U \ Refused, "ok", FALSE), Answer({}, "again", TRUE)}
BulkAnswersRetried(U) ==
  {Answer(U \ Refused, IF U \intersect Refused = {} THEN "ok" ELSE "again", FALSE)}

(* A 2xx bulk answer is checked item by item: an item that failed fails    *)
(* the call at once, an answer that does not read as one is a retry.       *)
BulkAnswers(U) ==
  {Answer(U \ Refused, IF U \intersect Refused = {} THEN "ok" ELSE "fatal", FALSE),
   Answer({}, "again", TRUE), Answer({}, "fatal", TRUE), Answer(U \ Refused, "again", TRUE)}

CallAnswers(U) ==
  {IF U \intersect Refused = {} THEN Answer(U, "ok", FALSE) ELSE Answer({}, "fatal", FALSE),
   Answer({}, "fatal", TRUE), Answer(U \ Refused, "fatal", TRUE)}

BlindAnswers(U) ==
  {Answer(U, "ok", FALSE), Answer({}, "ok", TRUE), Answer({}, "fatal", TRUE),
   Answer(U, "fatal", TRUE)}

Answers(U) ==
  CASE out = "stdout" -> {Answer(U, "ok", FALSE)}
    [] ~sinkUp /\ out # "udp" ->
         {Answer({}, IF PlanOf.tries > 1 THEN "again" ELSE "fatal", FALSE)}
    [] KeepsConnection /\ conn = "broken" -> {Answer({}, "fatal", FALSE)}
    [] ~sinkUp /\ out = "udp" -> {Answer({}, "ok", FALSE)}
    [] OTHER ->
         CASE out = "elasticsearch" -> BulkAnswers(U)
           [] out \in {"http", "http_form", "datadog"} -> HttpAnswers(U)
           [] out \in Unacknowledged -> BlindAnswers(U)
           [] OTHER -> CallAnswers(U)

Receive(E) == [e \in OutEvents |-> IF e \in E THEN Least(2, got[e] + 1) ELSE got[e]]

(***************************************************************************)
(* output() of the planned plugins                                         *)
(***************************************************************************)

Done(ok) ==
  /\ opc' = "idle" /\ left' = {} /\ tried' = 0 /\ failed' = FALSE
  /\ oks' = IF ok THEN oks \union Batch ELSE oks
  /\ dlq' = IF ok THEN dlq ELSE dlq \union Batch

(* run_outputs has the next batch. *)
Begin ==
  /\ opc = "idle" /\ round < NumBatches
  /\ round' = round + 1 /\ opc' = "sending"
  /\ left' = BatchOf(round + 1) \ Skipped
  /\ cause' = ~sinkUp
  /\ UNCHANGED <<out, tried, failed, oks, dlq, sinkVars, held, linkVars, sinkFaults>>

(* Does the codec read the request in hand?  With "first" the whole batch  *)
(* is encoded before anything is sent.                                     *)
Encodes ==
  CASE PlanOf.encode = "first" -> Batch \intersect Unencodable = {}
    [] PlanOf.encode = "each" -> Unit \intersect Unencodable = {}
    [] OTHER -> TRUE

(* A codec error, before anything was sent or when the event's turn came.  *)
EncodeFails ==
  /\ opc = "sending" /\ out \in Planned /\ ~Encodes
  /\ Done(FALSE) /\ cause' = TRUE
  /\ UNCHANGED <<out, round, sinkVars, held, linkVars, sinkFaults>>

(* One attempt at the request in hand, its answer, and the next step of    *)
(* the loop: the next request, another attempt after the backoff, or the   *)
(* end of the call.                                                        *)
Request ==
  /\ opc = "sending" /\ out \in Planned /\ left # {} /\ Encodes
  /\ \E a \in Answers(Unit) :
       /\ a.fault => sinkFaults < MaxSinkFaults
       /\ sinkFaults' = sinkFaults + (IF a.fault THEN 1 ELSE 0)
       /\ cause' = (cause \/ a.fault \/ Unit \intersect Refused # {})
       /\ got' = Receive(a.applied)
       /\ unsure' = IF a.fault THEN unsure \union a.applied ELSE unsure
       /\ conn' = IF sinkUp /\ (conn = "none" \/ ~KeepsConnection) THEN "up" ELSE conn
       /\ CASE a.verdict = "again" /\ tried + 1 < PlanOf.tries ->
                 /\ tried' = tried + 1
                 /\ UNCHANGED <<opc, left, failed, oks, dlq>>
            [] a.verdict # "ok" /\ PlanOf.onError = "stop"
               /\ ~(a.verdict = "again" /\ tried + 1 < PlanOf.tries) -> Done(FALSE)
            [] OTHER ->
                 /\ left' = left \ Unit /\ tried' = 0
                 /\ failed' = (failed \/ a.verdict # "ok")
                 /\ UNCHANGED <<opc, oks, dlq>>
  /\ UNCHANGED <<out, round, nowhere, held, inbox, sinkUp, outages>>

Return ==
  /\ opc = "sending" /\ out \in Planned /\ left = {} /\ Encodes
  /\ Done(~failed)
  /\ UNCHANGED <<out, round, sinkVars, held, linkVars, cause, sinkFaults>>

(***************************************************************************)
(* file and csv: the lines go into a BufWriter that is flushed; what a     *)
(* failed write leaves in it goes out with the next flush.  file reopens a *)
(* path that was deleted, csv goes on writing to the deleted file.         *)
(***************************************************************************)

EnsureWriter == out = "file" /\ conn # "up"

(* The directory or the file cannot be created. *)
OpenFails ==
  /\ opc = "sending" /\ ((out = "csv" /\ conn = "none") \/ EnsureWriter)
  /\ sinkFaults < MaxSinkFaults /\ sinkFaults' = sinkFaults + 1 /\ cause' = TRUE
  /\ Done(FALSE)
  /\ UNCHANGED <<out, round, sinkVars, held, linkVars>>

WriteLines ==
  /\ opc = "sending" /\ out \in {"file", "csv"}
  /\ LET lines == (IF EnsureWriter THEN <<>> ELSE held) \o Lines
         here == EnsureWriter \/ conn # "broken"
     IN  \E k \in 0 .. Len(lines) :
           LET w == {lines[i] : i \in 1 .. k} IN
             /\ k < Len(lines) => sinkFaults < MaxSinkFaults
             /\ sinkFaults' = sinkFaults + (IF k < Len(lines) THEN 1 ELSE 0)
             /\ cause' = (cause \/ k < Len(lines))
             /\ got' = IF here THEN Receive(w) ELSE got
             /\ nowhere' = IF here THEN nowhere ELSE nowhere \union w
             /\ held' = SubSeq(lines, k + 1, Len(lines))
             /\ conn' = IF here THEN "up" ELSE conn
             /\ Done(k = Len(lines))
  /\ UNCHANGED <<out, round, unsure, inbox, sinkUp, outages>>

(***************************************************************************)
(* s3: lines are buffered; rotation uploads the buffer, and a failed       *)
(* upload puts it back in front.                                           *)
(***************************************************************************)

Upload(lines, ok) ==
  IF ok THEN got' = Receive(Range(lines)) /\ held' = <<>> /\ UNCHANGED <<sinkFaults, cause>>
  ELSE /\ held' = lines /\ UNCHANGED got
       /\ (sinkUp => sinkFaults < MaxSinkFaults)
       /\ sinkFaults' = sinkFaults + (IF sinkUp THEN 1 ELSE 0) /\ cause' = TRUE

(* should_rotate: the size, or the time, which may have passed. *)
S3Output ==
  /\ opc = "sending" /\ out = "s3"
  /\ IF Batch \intersect Unencodable # {}
     THEN Done(FALSE) /\ cause' = TRUE /\ UNCHANGED <<got, held, sinkFaults>>
     ELSE /\ Done(TRUE)
          /\ \/ \E ok \in BOOLEAN : (ok => sinkUp) /\ Upload(held \o Lines, ok)
             \/ /\ Len(held \o Lines) < SizeFile
                /\ held' = held \o Lines
                /\ UNCHANGED <<got, sinkFaults, cause>>
  /\ UNCHANGED <<out, round, unsure, nowhere, linkVars>>

(* flush, at every tick of run_outputs. *)
S3Flush ==
  /\ opc = "idle" /\ out = "s3" /\ held # <<>>
  /\ \E ok \in BOOLEAN : (ok => sinkUp) /\ Upload(held, ok)
  /\ UNCHANGED <<out, round, callVars, unsure, nowhere, linkVars>>

(***************************************************************************)
(* pipe: a line is written to the child's standard input; a broken pipe    *)
(* starts a new child and writes that line again.  write_all waits without *)
(* limit for a child that does not read.                                   *)
(***************************************************************************)

PipeWrite ==
  /\ opc = "sending" /\ out = "pipe"
  /\ IF left = {}
     THEN Done(TRUE) /\ UNCHANGED <<held, conn, sinkFaults, cause>>
     ELSE \/ \E e \in NextOf(1) :
               /\ conn = "up" => Len(held) < PipeRoom
               /\ conn' = "up"
               /\ held' = (IF conn = "up" THEN held ELSE <<>>) \o <<e>>
               /\ left' = left \ {e}
               /\ UNCHANGED <<opc, tried, failed, oks, dlq, sinkFaults, cause>>
          \/ /\ sinkFaults < MaxSinkFaults      \* no child could be started
             /\ sinkFaults' = sinkFaults + 1 /\ cause' = TRUE
             /\ conn # "up"
             /\ conn' = "none" /\ held' = <<>>
             /\ Done(FALSE)
  /\ UNCHANGED <<out, round, sinkVars, inbox, sinkUp, outages>>

ChildReads ==
  /\ out = "pipe" /\ conn = "up" /\ held # <<>>
  /\ got' = Receive({Head(held)}) /\ held' = Tail(held)
  /\ UNCHANGED <<out, round, callVars, unsure, nowhere, linkVars, cause, sinkFaults>>

(***************************************************************************)
(* pipeline: the event goes to the channel registered for its address on   *)
(* the bus; an address that is not there yet is looked up again.  The send *)
(* waits without limit for room in that channel, under the bus's read      *)
(* lock; it ends with an error when the receiver goes.                     *)
(***************************************************************************)

(* Mutant: waits for the address without end. *)
BusSendForever ==
  /\ opc = "sending" /\ out = "pipeline"
  /\ IF left = {}
     THEN Done(TRUE) /\ UNCHANGED got
     ELSE /\ got' = IF conn = "up" THEN Receive(NextOf(1)) ELSE got
          /\ left' = IF conn = "up" THEN left \ NextOf(1) ELSE left
          /\ tried' = 1 - tried
          /\ UNCHANGED <<opc, failed, oks, dlq>>
  /\ UNCHANGED <<out, round, unsure, nowhere, held, linkVars, cause, sinkFaults>>

BusSend ==
  /\ opc = "sending" /\ out = "pipeline"
  /\ CASE left = {} -> Done(TRUE) /\ UNCHANGED <<got, inbox, cause>>
       [] left # {} /\ conn = "up" ->
            /\ inbox < BusRoom /\ inbox' = inbox + 1
            /\ got' = Receive(NextOf(1))
            /\ left' = left \ NextOf(1) /\ tried' = 0
            /\ UNCHANGED <<opc, failed, oks, dlq, cause>>
       [] left # {} /\ conn = "none" /\ tried < MaxBusRetries ->
            /\ tried' = tried + 1
            /\ UNCHANGED <<opc, left, failed, oks, dlq, got, inbox, cause>>
       [] OTHER -> Done(FALSE) /\ cause' = TRUE /\ UNCHANGED <<got, inbox>>
  /\ UNCHANGED <<out, round, unsure, nowhere, held, conn, sinkUp, outages, sinkFaults>>

TargetReads ==
  /\ inbox > 0 /\ inbox' = inbox - 1
  /\ UNCHANGED <<out, round, callVars, sinkVars, held, conn, sinkUp, outages, cause, sinkFaults>>

Register ==
  /\ out = "pipeline" /\ conn = "none" /\ conn' = "up"
  /\ UNCHANGED <<out, round, callVars, sinkVars, held, inbox, sinkUp, outages, cause, sinkFaults>>

(***************************************************************************)
(* The other end goes away and comes back: the server, the child, the      *)
(* file, the receiver of the bus channel.                                  *)
(***************************************************************************)

Outage ==
  /\ outages < MaxOutages /\ sinkUp /\ opc # "closed"
  /\ outages' = outages + 1 /\ cause' = TRUE
  /\ conn' = IF conn = "up" THEN "broken" ELSE conn
  /\ sinkUp' = (out \in {"file", "csv", "pipe", "pipeline"})
  /\ held' = IF out = "pipe" THEN <<>> ELSE held
  /\ inbox' = 0
  /\ UNCHANGED <<out, round, callVars, sinkVars, sinkFaults>>

SinkBack ==
  /\ ~sinkUp /\ sinkUp' = TRUE
  /\ UNCHANGED <<out, round, callVars, sinkVars, held, inbox, conn, outages, cause, sinkFaults>>

(* Mutant: the default close(), which does nothing. *)
CloseUnflushed ==
  /\ opc = "idle" /\ round = NumBatches /\ opc' = "closed"
  /\ UNCHANGED <<out, round, left, tried, failed, oks, dlq, sinkVars, held, linkVars, cause,
                 sinkFaults>>

(* close(): s3 flushes once more; pipe closes the standard input and waits *)
(* for the child.                                                          *)
Close ==
  /\ opc = "idle" /\ round = NumBatches
  /\ out = "pipe" /\ conn = "up" => held = <<>>
  /\ opc' = "closed"
  /\ IF out = "s3" /\ held # <<>>
     THEN \E ok \in BOOLEAN : (ok => sinkUp) /\ Upload(held, ok)
     ELSE UNCHANGED <<got, held, sinkFaults, cause>>
  /\ UNCHANGED <<out, round, left, tried, failed, oks, dlq, unsure, nowhere, linkVars>>

OutStep == Begin \/ EncodeFails \/ Request \/ Return \/ OpenFails \/ WriteLines \/ S3Output \/ S3Flush
             \/ PipeWrite \/ BusSend \/ Close

OutNext == OutStep \/ ChildReads \/ TargetReads \/ Register \/ Outage \/ SinkBack

(* Tokio runs the output task; nothing makes the child or the target       *)
(* pipeline read.                                                          *)
OutSpec == OutInit /\ [][OutNext]_outVars /\ WF_outVars(OutStep)

(***************************************************************************)
(* Properties                                                              *)
(***************************************************************************)

(* Ok is the truth: whatever was retried, refused item by item, lost on    *)
(* the way or put back into a buffer, an event of a batch for which        *)
(* output() returned Ok is at the sink or still in the plugin's buffer;    *)
(* except where nobody answers, where the plugin leaves the event out,     *)
(* and where the file or the child it was written to has gone.             *)
OkDelivered ==
  \A e \in oks \ Skipped :
    \/ got[e] > 0 \/ e \in Range(held) \/ e \in nowhere
    \/ out \in Unacknowledged \/ (out = "pipe" /\ outages > 0)

(* A sink gets an event twice only if an answer about it was lost: no      *)
(* plugin sends again what it knows to have arrived.                       *)
ResentOnlyIfUnsure == \A e \in OutEvents : got[e] > 1 => e \in unsure

(* After close() nothing is left behind: without faults every event of a   *)
(* successful batch has arrived once, through s3's buffer and the child's  *)
(* standard input too.                                                     *)
DeliveredAtClose ==
  opc = "closed" /\ sinkFaults = 0 /\ outages = 0 => \A e \in oks \ Skipped : got[e] = 1

(* A batch fails only for something that happened in its own call: an      *)
(* outage that is over leaves no plugin in a state in which it fails for   *)
(* good.  rabbitmq keeps the dead channel in its OnceCell and does.        *)
ErrHasCause ==
  opc = "idle" /\ round > 0 /\ Batch \subseteq dlq => cause \/ out = "rabbitmq"

(* output() returns: retries, backoff and the search for an address end,   *)
(* whatever the other end does, but for the two that wait for a reader:    *)
(* the pipeline output while the target's channel is full, and the pipe    *)
(* output while the child's standard input is.  They return if there is    *)
(* room again and again; a target or child that stays stuck holds up the   *)
(* output task for good.                                                   *)
Room ==
  /\ out = "pipeline" => inbox < BusRoom
  /\ out = "pipe" => Len(held) < PipeRoom
OutputReturns == []<>Room => (opc = "sending" ~> opc # "sending")

=============================================================================
