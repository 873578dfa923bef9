---------------------------- MODULE BrokerInputs ----------------------------
(***************************************************************************)
(* The inputs that consume from a message broker: kafka, sqs, rabbitmq and *)
(* redis (list and pub/sub).  A message is taken from the broker, decoded, *)
(* sent into the pipeline's channel, and only then (or, for some, already  *)
(* before) forgotten by the broker.  Which input runs, and whether it acks *)
(* (ack of rabbitmq, delete_after_read of sqs), is chosen initially.       *)
(***************************************************************************)
EXTENDS Naturals, Sequences, FiniteSets, SequencesExt

CONSTANTS NumMessages,  \* messages 1 .. NumMessages are published in order
          Bad,          \* the messages the codec cannot decode
          MaxBatch,     \* max_messages of one ReceiveMessage
          MaxFaults,    \* failed calls to the broker
          MaxRestarts   \* crashes and restarts

ASSUME BrokerAssumption ==
  /\ {NumMessages, MaxBatch, MaxFaults, MaxRestarts} \subseteq Nat
  /\ Bad \subseteq 1 .. NumMessages

Messages == 1 .. NumMessages

BrokerKinds == {"kafka", "sqs", "rabbitmq", "redis", "pubsub"}

VARIABLES
  broker,     \* which input runs
  ack,        \* ack / delete_after_read
  at,         \* where the broker has each message
  stored,     \* kafka: offset handed to the application
  committed,  \* kafka: offset the group has committed
  held,       \* received by the input and not settled
  handed,     \* sent into the pipeline's channel
  pc,         \* where run() is
  shut,       \* the shutdown signal
  open,       \* the receiver of the channel exists
  faults, restarts

brokerVars == <<broker, ack, at, stored, committed, held, handed, pc,
                shut, open, faults, restarts>>
queueVars == <<at, stored, committed>>
envVars == <<broker, ack, shut, open, restarts>>

BrokerInit ==
  /\ broker \in BrokerKinds
  /\ ack \in IF broker \in {"sqs", "rabbitmq"} THEN BOOLEAN ELSE {FALSE}
  /\ at = [m \in Messages |-> "unpublished"]
  /\ stored = 0 /\ committed = 0
  /\ held = <<>> /\ handed = {}
  /\ pc = "start"
  /\ shut = FALSE /\ open = TRUE
  /\ faults = 0 /\ restarts = 0

Queued == {m \in Messages : at[m] = "queued"}

(* The next message in the broker's order. *)
IsNext(m) == m \in Queued /\ \A n \in Queued : m <= n

Fault == faults < MaxFaults /\ faults' = faults + 1

(***************************************************************************)
(* The environment: producers, the broker, the rest of the pipeline.       *)
(***************************************************************************)

(* A pub/sub message reaches the subscriber there is, or nobody. *)
Publish(m) ==
  /\ at[m] = "unpublished"
  /\ \A n \in 1 .. m - 1 : at[n] # "unpublished"
  /\ IF broker = "pubsub"
     THEN /\ at' = [at EXCEPT ![m] = "gone"]
          /\ held' = IF pc \in {"receive", "handle"} THEN Append(held, m) ELSE held
     ELSE at' = [at EXCEPT ![m] = "queued"] /\ UNCHANGED held
  /\ UNCHANGED <<stored, committed, handed, pc, faults, envVars>>

(* sqs: the visibility timeout of a received message runs out. *)
Redeliver(m) ==
  /\ broker = "sqs" /\ at[m] = "out"
  /\ at' = [at EXCEPT ![m] = "queued"]
  /\ UNCHANGED <<stored, committed, held, handed, pc, faults, envVars>>

(* kafka: enable.auto.commit commits the stored offset from time to time. *)
AutoCommit ==
  /\ broker = "kafka" /\ committed < stored
  /\ committed' = stored
  /\ UNCHANGED <<at, stored, held, handed, pc, faults, envVars>>

SignalShutdown ==
  /\ ~shut /\ pc # "stopped"
  /\ shut' = TRUE
  /\ UNCHANGED <<queueVars, held, handed, pc, faults, broker, ack, open, restarts>>

CloseChannel ==
  /\ open /\ pc # "stopped"
  /\ open' = FALSE
  /\ UNCHANGED <<queueVars, held, handed, pc, faults, broker, ack, shut, restarts>>

(* A crash, or the next start.  What the broker does with unsettled        *)
(* messages: rabbitmq puts them back, kafka resumes at the commit.         *)
Restart ==
  /\ restarts < MaxRestarts
  /\ restarts' = restarts + 1
  /\ held' = <<>> /\ pc' = "start"
  /\ stored' = committed
  /\ at' = IF broker = "rabbitmq"
           THEN [m \in Messages |-> IF at[m] = "out" THEN "queued" ELSE at[m]]
           ELSE at
  /\ shut' = FALSE /\ open' = TRUE
  /\ UNCHANGED <<broker, ack, committed, handed, faults>>

(***************************************************************************)
(* Steps of run().  Move only changes where run() is.                      *)
(***************************************************************************)

Move(from, to) ==
  /\ pc = from /\ pc' = to
  /\ UNCHANGED <<queueVars, handed, envVars>>

(* Codec, client, queue URL, consumer, subscription: an error ends run().  *)
(* redis only opens the client here and retries the connection.            *)
KafkaStart ==
  /\ broker = "kafka"
  /\ \/ Move("start", "receive") /\ UNCHANGED <<held, faults>>
     \/ Move("start", "stopped") /\ Fault /\ UNCHANGED held

SqsStart ==
  /\ broker = "sqs"
  /\ \/ Move("start", "receive") /\ UNCHANGED <<held, faults>>
     \/ Move("start", "stopped") /\ Fault /\ UNCHANGED held

RabbitStart ==
  /\ broker = "rabbitmq"
  /\ \/ Move("start", "receive") /\ UNCHANGED <<held, faults>>
     \/ Move("start", "stopped") /\ Fault /\ UNCHANGED held

RedisStart ==
  /\ broker \in {"redis", "pubsub"}
  /\ Move("start", "connect") /\ UNCHANGED <<held, faults>>

(* The select on the error path: sleep, or leave on shutdown. *)
BackoffOrShutdown ==
  /\ \/ Move("backoff", IF broker \in {"redis", "pubsub"} THEN "connect" ELSE "receive")
     \/ shut /\ Move("backoff", "stopped")
  /\ UNCHANGED <<held, faults>>

(* kafka: the message is given out, and its offset stored, before it is    *)
(* decoded and sent.                                                       *)
KafkaRecv ==
  /\ broker = "kafka" /\ pc = "receive"
  /\ \/ /\ stored + 1 \in Messages /\ at[stored + 1] = "queued"
        /\ stored' = stored + 1 /\ held' = <<stored + 1>> /\ pc' = "handle"
        /\ UNCHANGED <<at, committed, handed, faults, envVars>>
     \/ shut /\ Move("receive", "stopped") /\ UNCHANGED <<held, faults>>
     \/ Move("receive", "backoff") /\ Fault /\ UNCHANGED held

(* Mutant: drops the message in hand when the signal is set. *)
KafkaEmitUnlessShut ==
  /\ broker = "kafka" /\ pc = "handle" /\ held' = <<>>
  /\ handed' = IF Head(held) \notin Bad /\ open /\ ~shut THEN handed \union {Head(held)} ELSE handed
  /\ pc' = "receive"
  /\ UNCHANGED <<queueVars, faults, envVars>>

KafkaEmitPayload ==
  LET m == Head(held)
  IN  /\ broker = "kafka" /\ pc = "handle"
      /\ held' = <<>>
      /\ handed' = IF m \notin Bad /\ open THEN handed \union {m} ELSE handed
      /\ pc' = IF m \in Bad \/ open THEN "receive" ELSE "stopped"
      /\ UNCHANGED <<queueVars, faults, envVars>>

(* sqs: up to MaxBatch messages in any order; a receive that shutdown      *)
(* cancels may have made messages invisible all the same.                  *)
SqsReceive ==
  /\ broker = "sqs" /\ pc = "receive"
  /\ \/ \E B \in SUBSET Queued :
          /\ Cardinality(B) \in 1 .. MaxBatch
          /\ at' = [m \in Messages |-> IF m \in B THEN "out" ELSE at[m]]
          /\ \/ held' = SetToSortSeq(B, <) /\ pc' = "handle"
             \/ shut /\ held' = <<>> /\ pc' = "stopped"
          /\ UNCHANGED <<stored, committed, handed, faults, envVars>>
     \/ shut /\ Move("receive", "stopped") /\ UNCHANGED <<held, faults>>
     \/ Move("receive", "backoff") /\ Fault /\ UNCHANGED held

(* Mutant: deletes what did not decode. *)
ShouldDeleteAlways(decodeOk) == ack

(* should_delete *)
ShouldDelete(decodeOk) == ack /\ decodeOk

SqsHandle ==
  /\ broker = "sqs" /\ pc = "handle"
  /\ IF held = <<>> THEN pc' = "receive" /\ UNCHANGED <<handed, held>>
     ELSE LET m == Head(held)
          IN  /\ handed' = IF m \notin Bad /\ open THEN handed \union {m} ELSE handed
              /\ pc' = CASE m \notin Bad /\ ~open -> "stopped"
                         [] ShouldDelete(m \notin Bad) /\ (m \in Bad \/ open) -> "settle"
                         [] OTHER -> "handle"
              /\ held' = IF pc' = "settle" THEN held ELSE Tail(held)
  /\ UNCHANGED <<queueVars, faults, envVars>>

SqsDelete ==
  /\ broker = "sqs" /\ pc = "settle"
  /\ pc' = "handle" /\ held' = Tail(held)
  /\ \/ at' = [at EXCEPT ![Head(held)] = "gone"] /\ UNCHANGED faults
     \/ Fault /\ UNCHANGED at
  /\ UNCHANGED <<stored, committed, handed, envVars>>

(* rabbitmq: the next delivery, an error of the consumer, its end. *)
RabbitNext ==
  /\ broker = "rabbitmq" /\ pc = "receive"
  /\ \/ \E m \in Messages :
          /\ IsNext(m)
          /\ at' = [at EXCEPT ![m] = "out"]
          /\ held' = <<m>> /\ pc' = "handle"
          /\ UNCHANGED <<stored, committed, handed, faults, envVars>>
     \/ shut /\ Move("receive", "stopped") /\ UNCHANGED <<held, faults>>
     \/ Move("receive", "backoff") /\ Fault /\ UNCHANGED held
     \/ Move("receive", "stopped") /\ Fault /\ UNCHANGED held

(* delivery_action *)
DeliveryAction(decodeOk) ==
  CASE ack /\ decodeOk -> "ack" [] ack /\ ~decodeOk -> "nack" [] OTHER -> "leave"

RabbitHandle ==
  LET m == Head(held)
  IN  /\ broker = "rabbitmq" /\ pc = "handle"
      /\ handed' = IF m \notin Bad /\ open THEN handed \union {m} ELSE handed
      /\ pc' = IF m \in Bad \/ open THEN "settle" ELSE "stopped"
      /\ UNCHANGED <<queueVars, held, faults, envVars>>

(* The action on the delivery; if it fails the broker still has it out. *)
RabbitSettle ==
  LET m == Head(held)
      settled == CASE DeliveryAction(m \notin Bad) = "ack" -> "gone"
                   [] DeliveryAction(m \notin Bad) = "nack" -> "deadLettered"
                   [] OTHER -> "out"
  IN  /\ broker = "rabbitmq" /\ pc = "settle"
      /\ pc' = "receive" /\ held' = <<>>
      /\ \/ at' = [at EXCEPT ![m] = settled] /\ UNCHANGED faults
         \/ ack /\ Fault /\ UNCHANGED at
      /\ UNCHANGED <<stored, committed, handed, envVars>>

(* redis list: BLPOP removes the element before its reply arrives; it is   *)
(* never raced against shutdown.                                           *)
RedisConnect ==
  /\ broker = "redis" /\ pc = "connect"
  /\ \/ Move("connect", IF shut THEN "stopped" ELSE "receive") /\ UNCHANGED <<held, faults>>
     \/ ~shut /\ Move("connect", "backoff") /\ Fault /\ UNCHANGED held

RunList ==
  /\ broker = "redis" /\ pc = "receive"
  /\ IF shut
     THEN Move("receive", "stopped") /\ UNCHANGED <<held, faults>>
     ELSE \/ \E m \in Messages :
               /\ IsNext(m)
               /\ at' = [at EXCEPT ![m] = "gone"]
               /\ \/ held' = <<m>> /\ pc' = "handle" /\ UNCHANGED faults
                  \/ held' = <<>> /\ pc' = "backoff" /\ Fault  \* reply lost
               /\ UNCHANGED <<stored, committed, handed, envVars>>
          \/ Move("receive", "backoff") /\ Fault /\ UNCHANGED held

RedisEmitPayload ==
  LET m == Head(held)
  IN  /\ broker \in {"redis", "pubsub"} /\ pc = "handle"
      /\ held' = Tail(held)
      /\ handed' = IF m \notin Bad /\ open THEN handed \union {m} ELSE handed
      /\ pc' = IF m \in Bad \/ open THEN "receive" ELSE "stopped"
      /\ UNCHANGED <<queueVars, faults, envVars>>

(* redis pub/sub: subscribe, take the next message of the stream, or lose  *)
(* the stream and what it has buffered.                                    *)
RunPubsub ==
  /\ broker = "pubsub"
  /\ \/ Move("connect", "receive") /\ held' = <<>> /\ UNCHANGED faults
     \/ Move("connect", "backoff") /\ Fault /\ UNCHANGED held
     \/ held # <<>> /\ Move("receive", "handle") /\ UNCHANGED <<held, faults>>
     \/ Move("receive", "backoff") /\ Fault /\ held' = <<>>
     \/ shut /\ Move("receive", "stopped") /\ UNCHANGED <<held, faults>>

BrokerStep ==
  \/ KafkaStart \/ KafkaRecv \/ KafkaEmitPayload
  \/ SqsStart \/ SqsReceive \/ SqsHandle \/ SqsDelete
  \/ RabbitStart \/ RabbitNext \/ RabbitHandle \/ RabbitSettle
  \/ RedisStart \/ RedisConnect \/ RunList \/ RunPubsub \/ RedisEmitPayload
  \/ BackoffOrShutdown

BrokerNext ==
  \/ \E m \in Messages : Publish(m) \/ Redeliver(m)
  \/ AutoCommit \/ SignalShutdown \/ CloseChannel \/ Restart
  \/ BrokerStep

(***************************************************************************)
(* Properties                                                              *)
(***************************************************************************)

(* The broker will not deliver m again. *)
Forgotten(m) == at[m] = "gone" \/ (broker = "kafka" /\ m <= committed)

(* sqs and rabbitmq settle a message only after its events are in the      *)
(* channel: across failed acks, visibility timeouts, a closed channel and  *)
(* crashes at any step, a message the broker has dropped was handed over;  *)
(* one that does not decode is never acknowledged (should_delete,          *)
(* delivery_action).                                                       *)
AckAfterHandOver ==
  broker \in {"sqs", "rabbitmq"} =>
    \A m \in Messages : Forgotten(m) => m \in handed

(* kafka and the redis list forget a message as it is taken.  Shutdown     *)
(* alone still loses none: run() leaves only between two messages, so a    *)
(* decodable one is handed over or about to be, as long as nothing failed, *)
(* nothing crashed and the channel is open.                                *)
ShutdownLosesNothing ==
  broker \in {"kafka", "redis"} /\ faults = 0 /\ restarts = 0 /\ open =>
    \A m \in Messages \ Bad :
      Forgotten(m) => \/ m \in handed
                      \/ pc = "handle" /\ m = Head(held)

=============================================================================
