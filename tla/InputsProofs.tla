---------------------------- MODULE InputsProofs ----------------------------
(***************************************************************************)
(* Proofs about the inputs, for any number of messages, peers and frames.  *)
(* A broker is told to forget a message only after it was handed over, and *)
(* a shutdown alone loses none; a peer of http and beats is told to forget *)
(* an event only after it was sent.  The position that a polling input     *)
(* saves never gets ahead of what it sent, and in one run it sends nothing *)
(* twice, for any number of records, page size, configuration and faults.  *)
(***************************************************************************)
EXTENDS Inputs, TLAPS, SequenceTheorems

-----------------------------------------------------------------------------
(* Brokers.                                                                *)

\* A message to be settled was handed over, or (rabbitmq) does not decode.
SettleInv ==
  /\ DOMAIN at = Messages
  /\ broker = "sqs" /\ pc = "settle" => Head(held) \in handed
  /\ broker = "rabbitmq" /\ pc = "settle" => Head(held) \in handed \union Bad

BrokerInv == SettleInv /\ AckAfterHandOver

\* Kafka's offset and the removal from the list are never ahead of the message in
\* hand, as long as nothing failed.
TakenInv ==
  /\ faults \in Nat /\ restarts \in Nat /\ stored \in Nat /\ committed \in Nat
  /\ committed <= stored /\ DOMAIN at = Messages
  /\ broker = "kafka" => \A m \in Messages : at[m] # "gone"
  /\ faults = 0 /\ restarts = 0 /\ open =>
       \A m \in Messages \ Bad :
         \/ broker = "kafka" /\ m <= stored
         \/ broker = "redis" /\ at[m] = "gone"
         => m \in handed \/ (pc = "handle" /\ m = Head(held))

-----------------------------------------------------------------------------
(* Peers.                                                                  *)

Answering == lkind \in {"beats", "http"}

FrameKinds == {"line", "blank", "junk", "long", "tail", "many", "part", "cut"}

\* The number of the first event of frame i of the wire, or of the next one sent.
FirstOf(p, i) == IF i <= Len(wire[p]) THEN wire[p][i].first ELSE next[p]

\* What the peer numbers and what the reader counts agree while it is connected.
WireInv(p) ==
  /\ wire[p] \in Seq([what : FrameKinds, first : Nat]) /\ next[p] \in Nat \ {0}
  /\ \A i \in 1 .. Len(wire[p]) :
       /\ FirstOf(p, i + 1) = FirstOf(p, i) + Carries(wire[p][i].what)
       /\ FirstOf(p, i) > 0
       /\ wire[p][i].what \in Whats

\* The frame in hand still holds event n.
Holds(p, n) == \E i \in 1 .. Len(pending[p]) : pending[p][i] = n

\* Event n was sent, or was in the part that was cut off a frame, or is in hand.
Met(p, n) == n \in emitted[p] \/ n \in lost[p] \/ Holds(p, n)

\* A connected reader has met everything before the next frame.
ReadInv(p) ==
  lopen /\ peer[p] = "open" /\ task[p] # "done" =>
    \A n \in 1 .. FirstOf(p, 1) - 1 : Met(p, n)

\* The answer it owes covers only what it has met, and its last event was not cut
\* off; a closed channel takes the frame and the answer away.
AnswerInv(p) ==
  /\ pending[p] \in Seq(Nat) /\ answer[p] \in Nat
  /\ peer[p] = "open" /\ (lopen \/ pending[p] = <<>>) =>
       \A n \in 1 .. answer[p] : Met(p, n)
  /\ lost[p] \subseteq Nat
  /\ answer[p] > 0 => answer[p] \notin lost[p]
  /\ task[p] # "done" => \A n \in lost[p] : n < FirstOf(p, 1)

\* What was acknowledged was sent or cut off, and its last event was sent.
AckedInv(p) ==
  /\ acked[p] \in Nat
  /\ \A n \in 1 .. acked[p] : n \in emitted[p] \/ (n \in lost[p] /\ n < acked[p])

PeerInv(p) ==
  /\ Answering => /\ WireInv(p) /\ ReadInv(p) /\ AnswerInv(p)
                  /\ task[p] \in {"none", "reading", "request", "done"}
  /\ ~ Answering => answer[p] = 0
  /\ AckedInv(p)

OverPeers ==
  /\ DOMAIN peer = Peers /\ DOMAIN wire = Peers /\ DOMAIN next = Peers
  /\ DOMAIN task = Peers /\ DOMAIN pending = Peers /\ DOMAIN answer = Peers
  /\ DOMAIN emitted = Peers /\ DOMAIN lost = Peers /\ DOMAIN acked = Peers

ListenInv == OverPeers /\ \A p \in Peers : PeerInv(p)

-----------------------------------------------------------------------------
(* What a broker forgets was handed over.                                  *)

\* Publishing, redelivery, commits and signals neither settle nor hand over anything.
LEMMA SettledByOthers ==
  ASSUME BrokerInv,
         \/ \E m \in Messages : Publish(m) \/ Redeliver(m)
         \/ AutoCommit \/ SignalShutdown \/ CloseChannel \/ Restart
  PROVE  BrokerInv'
<1> USE DEF BrokerInv, SettleInv, AckAfterHandOver, Forgotten, queueVars, envVars
<1>1. CASE \E m \in Messages : Publish(m)
  BY <1>1 DEF Publish
<1>2. CASE \E m \in Messages : Redeliver(m)
  BY <1>2 DEF Redeliver
<1>3. CASE AutoCommit
  BY <1>3 DEF AutoCommit
<1>4. CASE SignalShutdown
  BY <1>4 DEF SignalShutdown
<1>5. CASE CloseChannel
  BY <1>5 DEF CloseChannel
<1>6. CASE Restart
  BY <1>6 DEF Restart
<1> QED
  BY <1>1, <1>2, <1>3, <1>4, <1>5, <1>6

\* The loops of kafka and redis have no step that settles.
LEMMA SettledByLoops ==
  ASSUME BrokerInv,
         \/ KafkaStart \/ KafkaRecv \/ KafkaEmitPayload \/ SqsStart \/ RabbitStart
         \/ RedisStart \/ RedisConnect \/ RunList \/ RunPubsub \/ RedisEmitPayload
         \/ BackoffOrShutdown
  PROVE  BrokerInv'
<1> USE DEF BrokerInv, SettleInv, AckAfterHandOver, Forgotten, queueVars, envVars
<1>1. CASE \/ KafkaStart \/ SqsStart \/ RabbitStart \/ RedisStart \/ RedisConnect
           \/ BackoffOrShutdown
  <2>1. pc' # "settle" /\ UNCHANGED <<at, handed, broker>>
    BY <1>1 DEF KafkaStart, SqsStart, RabbitStart, RedisStart, RedisConnect,
       BackoffOrShutdown, Move
  <2> QED
    BY <2>1
<1>2. CASE KafkaRecv \/ KafkaEmitPayload \/ RunList \/ RunPubsub \/ RedisEmitPayload
  <2>1. broker \notin {"sqs", "rabbitmq"} /\ broker' = broker
    BY <1>2 DEF KafkaRecv, KafkaEmitPayload, RunList, RunPubsub, RedisEmitPayload, Move
  <2>2. DOMAIN at' = Messages
    BY <1>2 DEF KafkaRecv, KafkaEmitPayload, RunList, RunPubsub, RedisEmitPayload, Move
  <2> QED
    BY <2>1, <2>2
<1> QED
  BY <1>1, <1>2

\* sqs deletes a message once its events are in the channel.
LEMMA SettledBySqs ==
  ASSUME BrokerInv, SqsReceive \/ SqsHandle \/ SqsDelete
  PROVE  BrokerInv'
<1> USE DEF BrokerInv, SettleInv, AckAfterHandOver, Forgotten, queueVars, envVars
<1>1. CASE SqsReceive
  <2>1. pc' # "settle" /\ UNCHANGED <<handed, broker>> /\ DOMAIN at' = Messages
    BY <1>1 DEF SqsReceive, Move
  <2>2. \A m \in Messages : at'[m] = "gone" => at[m] = "gone"
    BY <1>1 DEF SqsReceive, Move
  <2>3. broker = "sqs"
    BY <1>1 DEF SqsReceive
  <2> QED
    BY <2>1, <2>2, <2>3
<1>2. CASE SqsHandle
  <2>1. broker = "sqs" /\ UNCHANGED <<at, broker>> /\ handed \subseteq handed'
    BY <1>2 DEF SqsHandle
  <2>2. ASSUME pc' = "settle" PROVE Head(held') \in handed'
    <3>1. held # <<>> /\ held' = held
      BY <1>2, <2>2 DEF SqsHandle
    <3>2. Head(held) \notin Bad /\ open
      BY <1>2, <2>2 DEF SqsHandle, ShouldDelete
    <3> QED
      BY <1>2, <3>1, <3>2 DEF SqsHandle
  <2> QED
    BY <2>1, <2>2
<1>3. CASE SqsDelete
  <2>1. broker = "sqs" /\ pc' # "settle" /\ UNCHANGED <<handed, broker>>
        /\ DOMAIN at' = Messages /\ Head(held) \in handed
    BY <1>3 DEF SqsDelete
  <2>2. \A m \in Messages : at'[m] = "gone" => at[m] = "gone" \/ m = Head(held)
    BY <1>3 DEF SqsDelete
  <2> QED
    BY <2>1, <2>2
<1> QED
  BY <1>1, <1>2, <1>3

\* rabbitmq acknowledges a delivery that decoded once its events are in the channel.
LEMMA SettledByRabbit ==
  ASSUME BrokerInv, RabbitNext \/ RabbitHandle \/ RabbitSettle
  PROVE  BrokerInv'
<1> USE DEF BrokerInv, SettleInv, AckAfterHandOver, Forgotten, queueVars, envVars
<1>1. CASE RabbitNext
  <2>1. broker = "rabbitmq" /\ pc' # "settle" /\ UNCHANGED <<handed, broker>>
        /\ DOMAIN at' = Messages
    BY <1>1 DEF RabbitNext, Move
  <2>2. \A m \in Messages : at'[m] = "gone" => at[m] = "gone"
    BY <1>1 DEF RabbitNext, Move
  <2> QED
    BY <2>1, <2>2
<1>2. CASE RabbitHandle
  BY <1>2 DEF RabbitHandle
<1>3. CASE RabbitSettle
  <2>1. broker = "rabbitmq" /\ pc' # "settle" /\ UNCHANGED <<handed, broker>>
        /\ DOMAIN at' = Messages /\ Head(held) \in handed \union Bad
    BY <1>3 DEF RabbitSettle
  <2>2. ASSUME NEW m \in Messages, at'[m] = "gone", at[m] # "gone"
        PROVE  m = Head(held) /\ m \notin Bad
    BY <1>3, <2>2 DEF RabbitSettle, DeliveryAction
  <2> QED
    BY <2>1, <2>2
<1> QED
  BY <1>1, <1>2, <1>3

\* No step of an input tells a broker too early to forget a message.
LEMMA SettledStep == BrokerInv /\ [Next]_vars => BrokerInv'
<1> SUFFICES ASSUME BrokerInv, [Next]_vars PROVE BrokerInv'
  OBVIOUS
<1>1. CASE UNCHANGED brokerVars
  BY <1>1 DEF brokerVars, BrokerInv, SettleInv, AckAfterHandOver, Forgotten
<1>2. CASE BrokerNext
  BY <1>2, SettledByOthers, SettledByLoops, SettledBySqs, SettledByRabbit
     DEF BrokerNext, BrokerStep
<1> QED
  BY <1>1, <1>2 DEF Next, Broker, Poll, Listen, vars

\* sqs and rabbitmq settle a message only after its events are in the channel, across
\* failed calls, visibility timeouts, a closed channel and crashes at any step.
THEOREM AckAfterHandOverHolds == Spec => []AckAfterHandOver
<1>1. Init => BrokerInv
  BY DEF Init, BrokerInit, BrokerInv, SettleInv, AckAfterHandOver, Forgotten
<1>2. BrokerInv => AckAfterHandOver
  BY DEF BrokerInv
<1> QED
  BY <1>1, <1>2, SettledStep, PTL DEF Spec

-----------------------------------------------------------------------------
(* A shutdown alone loses nothing.                                         *)

\* What was taken is handed over or in hand: the last conjunct of TakenInv.
Unharmed == faults = 0 /\ restarts = 0 /\ open
Taken(m) == (broker = "kafka" /\ m <= stored) \/ (broker = "redis" /\ at[m] = "gone")
Reached(m) == m \in handed \/ (pc = "handle" /\ m = Head(held))

\* Where the offset, the removals and what is in hand stay, so does the invariant.
LEMMA TakenFrame ==
  ASSUME TakenInv, faults' \in Nat, restarts' \in Nat, stored' \in Nat, committed' \in Nat,
         committed' <= stored', DOMAIN at' = Messages, broker' = broker,
         broker = "kafka" => \A m \in Messages : at'[m] # "gone",
         Unharmed' => Unharmed,
         Unharmed' => \A m \in Messages \ Bad : Taken(m)' => Taken(m) \/ Reached(m)',
         Unharmed' => \A m \in Messages \ Bad : Reached(m) => Reached(m)'
  PROVE  TakenInv'
BY DEF TakenInv, Taken, Reached, Unharmed

\* A failed call ends the promise.
LEMMA Harmed == ASSUME faults \in Nat, Fault PROVE ~ Unharmed' /\ faults' \in Nat
BY DEF Fault, Unharmed

\* The environment takes nothing; a crash ends the promise.
LEMMA TakenByOthers ==
  ASSUME TakenInv,
         \/ \E m \in Messages : Publish(m) \/ Redeliver(m)
         \/ AutoCommit \/ SignalShutdown \/ CloseChannel \/ Restart
  PROVE  TakenInv'
<1> USE DEF queueVars, envVars
<1>0. /\ faults \in Nat /\ restarts \in Nat /\ stored \in Nat /\ committed \in Nat
      /\ committed <= stored /\ DOMAIN at = Messages
      /\ broker = "kafka" => \A m \in Messages : at[m] # "gone"
  BY DEF TakenInv
<1>1. CASE \E m \in Messages : Publish(m)
  <2>1. PICK m \in Messages : Publish(m)
    BY <1>1
  <2>2. /\ UNCHANGED <<stored, committed, handed, pc, faults, broker, restarts, open>>
        /\ DOMAIN at' = Messages
        /\ broker # "pubsub" => held' = held
        /\ \A n \in Messages : broker # "pubsub" /\ at'[n] = "gone" => at[n] = "gone"
    BY <1>0, <2>1 DEF Publish
  <2>3. CASE broker = "pubsub"
    BY <1>0, <2>2, <2>3 DEF TakenInv
  <2>4. CASE broker # "pubsub"
    <3>1. Unharmed' => Unharmed
      BY <2>2 DEF Unharmed
    <3>2. \A n \in Messages : (Taken(n)' => Taken(n)) /\ (Reached(n) => Reached(n)')
      BY <2>2, <2>4 DEF Taken, Reached
    <3> QED
      BY <1>0, <2>2, <2>4, <3>1, <3>2, TakenFrame
  <2> QED
    BY <2>3, <2>4
<1>2. CASE \E m \in Messages : Redeliver(m)
  <2>1. /\ broker = "sqs" /\ DOMAIN at' = Messages
        /\ UNCHANGED <<stored, committed, faults, broker, restarts>>
    BY <1>0, <1>2 DEF Redeliver
  <2> QED
    BY <1>0, <2>1 DEF TakenInv
<1>3. CASE AutoCommit
  <2>1. committed' = stored /\ UNCHANGED <<at, stored, held, handed, pc, faults, envVars>>
    BY <1>3 DEF AutoCommit
  <2> QED
    BY <1>0, <2>1 DEF TakenInv
<1>4. CASE SignalShutdown
  BY <1>0, <1>4 DEF SignalShutdown, TakenInv
<1>5. CASE CloseChannel
  BY <1>0, <1>5 DEF CloseChannel, TakenInv
<1>6. CASE Restart
  <2>1. /\ restarts' = restarts + 1 /\ stored' = committed /\ committed' = committed
        /\ faults' = faults /\ broker' = broker /\ DOMAIN at' = Messages
        /\ broker = "kafka" => at' = at
    BY <1>0, <1>6 DEF Restart
  <2>2. ~ Unharmed'
    BY <1>0, <2>1 DEF Unharmed
  <2> QED
    BY <1>0, <2>1, <2>2 DEF TakenInv, Unharmed
<1> QED
  BY <1>1, <1>2, <1>3, <1>4, <1>5, <1>6

\* sqs and rabbitmq are outside this promise.
LEMMA TakenBySettling ==
  ASSUME TakenInv,
         \/ SqsStart \/ SqsReceive \/ SqsHandle \/ SqsDelete
         \/ RabbitStart \/ RabbitNext \/ RabbitHandle \/ RabbitSettle
  PROVE  TakenInv'
<1> USE DEF queueVars, envVars
<1>0. /\ faults \in Nat /\ restarts \in Nat /\ stored \in Nat /\ committed \in Nat
      /\ committed <= stored /\ DOMAIN at = Messages
  BY DEF TakenInv
<1>1. broker' = broker /\ broker \in {"sqs", "rabbitmq"}
  BY DEF SqsStart, SqsReceive, SqsHandle, SqsDelete, RabbitStart, RabbitNext,
     RabbitHandle, RabbitSettle, Move
<1>2. UNCHANGED <<stored, committed, restarts>>
  BY DEF SqsStart, SqsReceive, SqsHandle, SqsDelete, RabbitStart, RabbitNext,
     RabbitHandle, RabbitSettle, Move
<1>3. DOMAIN at' = Messages
  BY <1>0 DEF SqsStart, SqsReceive, SqsHandle, SqsDelete, RabbitStart, RabbitNext,
     RabbitHandle, RabbitSettle, Move
<1>4. faults' \in Nat
  <2>1. faults' = faults \/ Fault
    BY DEF SqsStart, SqsReceive, SqsHandle, SqsDelete, RabbitStart, RabbitNext,
       RabbitHandle, RabbitSettle, Move
  <2> QED
    BY <1>0, <2>1, Harmed
<1> QED
  BY <1>0, <1>1, <1>2, <1>3, <1>4 DEF TakenInv

\* kafka and redis take one message, hand it over, and only then take the next.
LEMMA TakenByLoops ==
  ASSUME TakenInv,
         \/ KafkaStart \/ KafkaRecv \/ KafkaEmitPayload \/ RedisStart \/ RedisConnect
         \/ RunList \/ RunPubsub \/ RedisEmitPayload \/ BackoffOrShutdown
  PROVE  TakenInv'
<1> USE DEF queueVars, envVars
<1>0. /\ faults \in Nat /\ restarts \in Nat /\ stored \in Nat /\ committed \in Nat
      /\ committed <= stored /\ DOMAIN at = Messages
      /\ broker = "kafka" => \A m \in Messages : at[m] # "gone"
  BY DEF TakenInv
<1>1. CASE KafkaStart \/ RedisStart \/ RedisConnect \/ BackoffOrShutdown
  <2>1. /\ UNCHANGED <<at, stored, committed, handed, broker, restarts, open>>
        /\ pc # "handle"
        /\ faults' = faults \/ Fault
    BY <1>1 DEF KafkaStart, RedisStart, RedisConnect, BackoffOrShutdown, Move
  <2>2. faults' \in Nat /\ (Unharmed' => Unharmed)
    BY <1>0, <2>1, Harmed DEF Unharmed
  <2>3. \A m \in Messages : (Taken(m)' => Taken(m)) /\ (Reached(m) => Reached(m)')
    BY <2>1 DEF Taken, Reached
  <2> QED
    BY <1>0, <2>1, <2>2, <2>3, TakenFrame
<1>2. CASE KafkaRecv
  <2>1. /\ broker = "kafka" /\ broker' = broker /\ pc = "receive"
        /\ UNCHANGED <<at, committed, handed, restarts, open>>
        /\ faults' = faults \/ Fault
    BY <1>2 DEF KafkaRecv, Move
  <2>2. stored' = stored \/ (stored' = stored + 1 /\ held' = <<stored + 1>> /\ pc' = "handle")
    BY <1>2 DEF KafkaRecv, Move
  <2>3. faults' \in Nat /\ (Unharmed' => Unharmed)
    BY <1>0, <2>1, Harmed DEF Unharmed
  <2>4. ASSUME NEW m \in Messages, Taken(m)' PROVE Taken(m) \/ Reached(m)'
    <3>1. m \in Nat /\ m <= stored'
      BY <2>1, <2>4 DEF Taken, Messages
    <3>2. CASE m <= stored
      BY <2>1, <3>2 DEF Taken
    <3>3. CASE m = stored + 1 /\ held' = <<stored + 1>> /\ pc' = "handle"
      BY <3>3 DEF Reached
    <3> QED
      BY <1>0, <2>2, <3>1, <3>2, <3>3
  <2>5. \A m \in Messages : Reached(m) => Reached(m)'
    BY <2>1 DEF Reached
  <2> QED
    BY <1>0, <2>1, <2>2, <2>3, <2>4, <2>5, TakenFrame
<1>3. CASE KafkaEmitPayload
  <2>1. /\ broker' = broker /\ pc = "handle"
        /\ UNCHANGED <<at, stored, committed, faults, restarts, open>>
        /\ handed' = IF Head(held) \notin Bad /\ open THEN handed \union {Head(held)} ELSE handed
    BY <1>3 DEF KafkaEmitPayload
  <2>2. Unharmed' => Unharmed
    BY <2>1 DEF Unharmed
  <2>3. \A m \in Messages : Taken(m)' => Taken(m)
    BY <2>1 DEF Taken
  <2>4. Unharmed' => \A m \in Messages \ Bad : Reached(m) => Reached(m)'
    BY <2>1 DEF Reached, Unharmed
  <2> QED
    BY <1>0, <2>1, <2>2, <2>3, <2>4, TakenFrame
<1>4. CASE RedisEmitPayload
  <2>1. /\ broker' = broker /\ pc = "handle"
        /\ UNCHANGED <<at, stored, committed, faults, restarts, open>>
        /\ handed' = IF Head(held) \notin Bad /\ open THEN handed \union {Head(held)} ELSE handed
    BY <1>4 DEF RedisEmitPayload
  <2>2. Unharmed' => Unharmed
    BY <2>1 DEF Unharmed
  <2>3. \A m \in Messages : Taken(m)' => Taken(m)
    BY <2>1 DEF Taken
  <2>4. Unharmed' => \A m \in Messages \ Bad : Reached(m) => Reached(m)'
    BY <2>1 DEF Reached, Unharmed
  <2> QED
    BY <1>0, <2>1, <2>2, <2>3, <2>4, TakenFrame
<1>5. CASE RunList
  <2>1. /\ broker = "redis" /\ broker' = broker /\ pc = "receive"
        /\ UNCHANGED <<stored, committed, handed, restarts, open>>
        /\ faults' = faults \/ Fault
    BY <1>5 DEF RunList, Move
  <2>2. \/ at' = at
        \/ \E m \in Messages :
             at' = [at EXCEPT ![m] = "gone"] /\ ((held' = <<m>> /\ pc' = "handle") \/ Fault)
    BY <1>5 DEF RunList, Move
  <2>3. faults' \in Nat /\ (Unharmed' => Unharmed)
    BY <1>0, <2>1, Harmed DEF Unharmed
  <2>4. DOMAIN at' = Messages
    BY <1>0, <2>2
  <2>5. ASSUME Unharmed', NEW m \in Messages, Taken(m)' PROVE Taken(m) \/ Reached(m)'
    <3>1. CASE at'[m] = at[m]
      BY <2>1, <2>5, <3>1 DEF Taken
    <3>2. CASE held' = <<m>> /\ pc' = "handle"
      BY <3>2 DEF Reached
    <3>3. ~ Fault
      BY <1>0, <2>5, Harmed
    <3> QED
      BY <1>0, <2>2, <3>1, <3>2, <3>3
  <2>6. \A m \in Messages : Reached(m) => Reached(m)'
    BY <2>1 DEF Reached
  <2> QED
    BY <1>0, <2>1, <2>3, <2>4, <2>5, <2>6, TakenFrame
<1>6. CASE RunPubsub
  <2>1. /\ broker = "pubsub" /\ broker' = broker
        /\ UNCHANGED <<at, stored, committed, restarts>>
        /\ faults' = faults \/ Fault
    BY <1>6 DEF RunPubsub, Move
  <2>2. faults' \in Nat
    BY <1>0, <2>1, Harmed
  <2> QED
    BY <1>0, <2>1, <2>2 DEF TakenInv
<1> QED
  BY <1>1, <1>2, <1>3, <1>4, <1>5, <1>6

\* No step of an input forgets a message it neither handed over nor holds.
LEMMA TakenStep == TakenInv /\ [Next]_vars => TakenInv'
<1> SUFFICES ASSUME TakenInv, [Next]_vars PROVE TakenInv'
  OBVIOUS
<1>1. CASE UNCHANGED brokerVars
  BY <1>1 DEF brokerVars, TakenInv
<1>2. CASE BrokerNext
  BY <1>2, TakenByOthers, TakenByLoops, TakenBySettling DEF BrokerNext, BrokerStep
<1> QED
  BY <1>1, <1>2 DEF Next, Broker, Poll, Listen, vars

\* kafka and the redis list forget a message as it is taken; a shutdown alone, at any
\* point of run(), still loses no message that decodes.
THEOREM ShutdownLosesNothingHolds == Spec => []ShutdownLosesNothing
<1>1. Init => TakenInv
  <2> SUFFICES ASSUME Init PROVE TakenInv
    OBVIOUS
  <2>1. \A m \in Messages : m \in Nat /\ m > 0
    BY BrokerAssumption DEF Messages
  <2> QED
    BY <2>1 DEF Init, BrokerInit, TakenInv
<1>2. TakenInv => ShutdownLosesNothing
  <2> SUFFICES ASSUME TakenInv, broker \in {"kafka", "redis"}, faults = 0, restarts = 0, open,
                      NEW m \in Messages \ Bad, Forgotten(m)
               PROVE  m \in handed \/ (pc = "handle" /\ m = Head(held))
    BY DEF ShutdownLosesNothing
  <2>1. m \in Nat
    BY BrokerAssumption DEF Messages
  <2>2. (broker = "kafka" /\ m <= stored) \/ (broker = "redis" /\ at[m] = "gone")
    BY <2>1 DEF TakenInv, Forgotten
  <2> QED
    BY <2>2 DEF TakenInv
<1> QED
  BY <1>1, <1>2, TakenStep, PTL DEF Spec

-----------------------------------------------------------------------------
(* What a peer is told was sent.                                           *)

PartOf(p) == <<peer[p], wire[p], next[p], task[p], pending[p], answer[p], emitted[p], lost[p],
               acked[p]>>

\* A step that leaves a peer's part alone keeps its invariant, also when the channel
\* closes.
LEMMA PeerFrame ==
  ASSUME NEW p, PeerInv(p), UNCHANGED PartOf(p), lkind' = lkind, lopen' => lopen
  PROVE  PeerInv(p)'
<1> USE DEF PartOf
<1>1. Answering' = Answering /\ Whats' = Whats
  BY DEF Answering, Whats
<1>2. WireInv(p) => WireInv(p)'
  <2>1. \A i : FirstOf(p, i)' = FirstOf(p, i)
    BY DEF FirstOf
  <2>2. \A what : Carries(what)' = Carries(what)
    BY DEF Carries
  <2> QED
    BY <1>1, <2>1, <2>2 DEF WireInv
<1>3. \A n : Met(p, n)' = Met(p, n)
  BY DEF Met, Holds
<1>4. ReadInv(p) => ReadInv(p)'
  BY <1>3 DEF ReadInv, FirstOf
<1>5. AnswerInv(p) => AnswerInv(p)'
  BY <1>3 DEF AnswerInv, FirstOf
<1> QED
  BY <1>1, <1>2, <1>4, <1>5 DEF PeerInv, AckedInv

\* What beats and http make of a complete frame: its events, or the end.
LEMMA DecodeFacts ==
  ASSUME Answering, NEW what \in Whats
  PROVE  /\ Decode(what).n \in Nat /\ Carries(what) \in Nat /\ what \in FrameKinds
         /\ \/ Decode(what).n = Carries(what) /\ what # "cut"
            \/ Decode(what).over /\ Decode(what).n = 0 /\ what \notin {"cut", "part"}
            \/ Decode(what).n + 1 = Carries(what) /\ what = "cut"
<1>1. CASE lkind = "http"
  <2>1. what \in {"line", "blank", "many", "part"}
    BY <1>1 DEF Whats, Datagram
  <2>2. Decode(what) = Frame(Carries(what), FALSE)
    BY <1>1 DEF Decode, HandlePost
  <2>3. Carries(what) \in Nat
    BY <1>1, <2>1 DEF Carries
  <2> QED
    BY <2>1, <2>2, <2>3 DEF Frame, FrameKinds
<1>2. CASE lkind = "beats"
  <2>1. what \in {"line", "blank", "junk", "long", "tail", "many", "cut"}
    BY <1>2 DEF Whats, Datagram
  <2>2. Decode(what) = BeatsFrame(what)
    BY <1>2 DEF Decode
  <2>3. /\ what \in {"line", "blank", "many"} => BeatsFrame(what) = Frame(Carries(what), FALSE)
        /\ what = "cut" => BeatsFrame(what) = Frame(1, FALSE) /\ Carries(what) = 2
        /\ what \in {"junk", "long", "tail"} => BeatsFrame(what) = Frame(0, TRUE)
    BY <1>2 DEF BeatsFrame, InnerFrames, Carries
  <2>4. Carries(what) \in Nat
    BY <1>2, <2>1 DEF Carries
  <2> QED
    BY <2>1, <2>2, <2>3, <2>4 DEF Frame, FrameKinds
<1> QED
  BY <1>1, <1>2 DEF Answering

\* A frame that is sent takes the next event numbers.
LEMMA PeerSends ==
  ASSUME ListenInv, NEW p \in Peers, NEW what \in Whats, PeerSend(p, what)
  PROVE  ListenInv'
<1> USE DEF readVars, listenRunVars
<1>0. OverPeers /\ PeerInv(p)
  BY DEF ListenInv
<1>1. OverPeers'
  BY <1>0 DEF PeerSend, OverPeers
<1>2. ASSUME NEW q \in Peers, q # p PROVE PeerInv(q)'
  <2>1. UNCHANGED PartOf(q)
    BY <1>0, <1>2 DEF PeerSend, PartOf, OverPeers
  <2>2. lkind' = lkind /\ lopen' = lopen
    BY DEF PeerSend
  <2> QED
    BY <2>1, <2>2, PeerFrame DEF ListenInv
<1>3. PeerInv(p)'
  <2>1. /\ lkind' = lkind /\ lopen' = lopen /\ task' = task /\ pending' = pending
        /\ answer' = answer /\ emitted' = emitted /\ lost' = lost /\ acked' = acked
        /\ peer[p] = "open"
    BY DEF PeerSend
  <2>2. Answering' = Answering /\ Whats' = Whats /\ Carries(what)' = Carries(what)
    BY <2>1 DEF Answering, Whats, Carries
  <2>3. CASE Answering
    <3> DEFINE f == [what |-> what, first |-> next[p]]
    <3>1. /\ WireInv(p) /\ ReadInv(p) /\ AnswerInv(p)
          /\ task[p] \in {"none", "reading", "request", "done"}
      BY <1>0, <2>3 DEF PeerInv
    <3>2. wire'[p] = Append(wire[p], f) /\ next'[p] = next[p] + Carries(what)
      BY <1>0, <2>1 DEF PeerSend, OverPeers
    <3>3. Carries(what) \in Nat /\ what \in FrameKinds
      BY <2>3, DecodeFacts
    <3>4. f \in [what : FrameKinds, first : Nat] /\ next[p] \in Nat \ {0}
      BY <3>1, <3>3 DEF WireInv
    <3>5. /\ wire[p] \in Seq([what : FrameKinds, first : Nat])
          /\ wire'[p] \in Seq([what : FrameKinds, first : Nat])
          /\ Len(wire'[p]) = Len(wire[p]) + 1 /\ Len(wire[p]) \in Nat
          /\ \A i \in 1 .. Len(wire[p]) : wire'[p][i] = wire[p][i]
          /\ wire'[p][Len(wire[p]) + 1] = f
      <4>1. wire[p] \in Seq([what : FrameKinds, first : Nat])
        BY <3>1 DEF WireInv
      <4> HIDE DEF f
      <4> QED
        BY <3>2, <3>4, <4>1, AppendProperties, LenProperties
    <3>a. PICK k \in Nat : k = Len(wire[p])
      BY <3>5
    <3>6. /\ \A i \in 1 .. k + 1 : FirstOf(p, i)' = FirstOf(p, i)
          /\ FirstOf(p, k + 2)' = next[p] + Carries(what)
          /\ FirstOf(p, k + 1) = next[p]
      BY <3>2, <3>5, <3>a DEF FirstOf
    <3>7. \A n : Met(p, n)' = Met(p, n)
      BY <2>1 DEF Met, Holds
    <3>b. FirstOf(p, 1)' = FirstOf(p, 1)
      BY <3>6
    <3>8. WireInv(p)'
      <4>1. next'[p] \in Nat \ {0}
        BY <3>2, <3>3, <3>4
      <4>2. ASSUME NEW i \in 1 .. Len(wire'[p])
            PROVE  /\ FirstOf(p, i + 1)' = FirstOf(p, i)' + Carries(wire'[p][i].what)
                   /\ FirstOf(p, i)' > 0 /\ wire'[p][i].what \in Whats
        <5>1. CASE i \in 1 .. k
          <6>1. /\ FirstOf(p, i + 1) = FirstOf(p, i) + Carries(wire[p][i].what)
                /\ FirstOf(p, i) > 0 /\ wire[p][i].what \in Whats
            BY <2>1, <3>1, <3>a, <5>1 DEF WireInv
          <6>2. wire'[p][i] = wire[p][i]
            BY <3>5, <3>a, <5>1
          <6>3. FirstOf(p, i)' = FirstOf(p, i) /\ FirstOf(p, i + 1)' = FirstOf(p, i + 1)
            BY <3>6, <5>1
          <6> QED
            BY <6>1, <6>2, <6>3
        <5>2. CASE i = k + 1
          <6>1. FirstOf(p, i)' = next[p] /\ FirstOf(p, i + 1)' = next[p] + Carries(what)
            BY <3>6, <5>2
          <6>2. wire'[p][i].what = what
            BY <3>5, <3>a, <5>2
          <6> QED
            BY <3>2, <3>4, <6>1, <6>2
        <5> QED
          BY <3>5, <3>a, <4>2, <5>1, <5>2
      <4>3. \A w : Carries(w)' = Carries(w)
        BY <2>1 DEF Carries
      <4> QED
        BY <2>2, <3>5, <4>1, <4>2, <4>3 DEF WireInv
    <3>9. ReadInv(p)'
      <4>1. /\ peer'[p] = "open" => peer[p] = "open"
            /\ lopen' = lopen /\ task' = task
        BY <2>1
      <4> QED
        BY <3>1, <3>7, <3>b, <4>1 DEF ReadInv
    <3>10. AnswerInv(p)'
      BY <2>1, <3>1, <3>7, <3>b DEF AnswerInv
    <3> QED
      BY <1>0, <2>1, <2>2, <2>3, <3>1, <3>8, <3>9, <3>10 DEF PeerInv, AckedInv
  <2>4. CASE ~ Answering
    BY <1>0, <2>1, <2>2, <2>4 DEF PeerInv, AckedInv
  <2> QED
    BY <2>3, <2>4
<1> QED
  BY <1>1, <1>2, <1>3 DEF ListenInv

\* Reading a frame takes its events in hand; nothing in front of them is missing.
LEMMA PeerReads ==
  ASSUME ListenInv, NEW p \in Peers, Read(p)
  PROVE  ListenInv'
<1> USE DEF readVars, listenRunVars
<1>0. OverPeers /\ PeerInv(p)
  BY DEF ListenInv
<1>1. OverPeers'
  BY <1>0 DEF Read, OverPeers
<1>2. ASSUME NEW q \in Peers, q # p PROVE PeerInv(q)'
  <2>1. UNCHANGED PartOf(q)
    BY <1>0, <1>2 DEF Read, PartOf, OverPeers
  <2>2. lkind' = lkind /\ lopen' = lopen
    BY DEF Read
  <2> QED
    BY <2>1, <2>2, PeerFrame DEF ListenInv
<1>3. PeerInv(p)'
  <2>1. /\ lkind' = lkind /\ lopen' = lopen /\ peer' = peer /\ next' = next
        /\ emitted' = emitted /\ acked' = acked /\ lost[p] \subseteq lost'[p]
        /\ task[p] \in {"reading", "request"} /\ pending[p] = <<>> /\ wire[p] # <<>>
    BY <1>0 DEF Read, Waiting, Idle, OverPeers
  <2>2. Answering' = Answering /\ Whats' = Whats /\ \A w : Carries(w)' = Carries(w)
    BY <2>1 DEF Answering, Whats, Carries
  <2>3. CASE Answering
    <3> DEFINE f == Head(wire[p])
    <3> DEFINE n == Decode(f.what).n
    <3>1. /\ WireInv(p) /\ ReadInv(p) /\ AnswerInv(p)
      BY <1>0, <2>3 DEF PeerInv
    <3>2. /\ wire'[p] = Tail(wire[p])
          /\ pending'[p] = [i \in 1 .. n |-> f.first + i - 1]
          /\ answer'[p] = IF n > 0 THEN f.first + n - 1 ELSE 0
          /\ task'[p] = IF f.what = "part" THEN "request"
                        ELSE IF Decode(f.what).over /\ n = 0 THEN "done" ELSE "reading"
          /\ lost'[p] = IF f.what = "cut" THEN lost[p] \union {f.first + n} ELSE lost[p]
      BY <1>0, <2>3 DEF Read, OverPeers, Answering, Over
    <3>3. PICK k \in Nat : k = Len(wire[p]) /\ k > 0
      BY <2>1, <3>1, LenProperties, EmptySeq DEF WireInv
    <3>4. /\ f = wire[p][1]
          /\ Len(wire'[p]) = k - 1 /\ wire'[p] \in Seq([what : FrameKinds, first : Nat])
          /\ \A i \in 1 .. k - 1 : wire'[p][i] = wire[p][i + 1]
      BY <2>1, <3>1, <3>2, <3>3, HeadTailProperties DEF WireInv
    <3>5. ASSUME NEW i \in 1 .. k PROVE FirstOf(p, i)' = FirstOf(p, i + 1)
      <4>1. CASE i <= k - 1
        <5>1. wire'[p][i] = wire[p][i + 1] /\ i + 1 <= k
          BY <3>4, <4>1
        <5> QED
          BY <3>3, <3>4, <4>1, <5>1 DEF FirstOf
      <4>2. CASE i = k
        <5>1. ~ (i <= k - 1) /\ ~ (i + 1 <= k)
          BY <4>2
        <5> QED
          BY <2>1, <3>3, <3>4, <5>1 DEF FirstOf
      <4> QED
        BY <4>1, <4>2
    <3>6. WireInv(p)'
      <4>1. ASSUME NEW i \in 1 .. k - 1
            PROVE  /\ FirstOf(p, i + 1)' = FirstOf(p, i)' + Carries(wire'[p][i].what)
                   /\ FirstOf(p, i)' > 0 /\ wire'[p][i].what \in Whats
        <5>1. PICK j \in 1 .. k : j = i + 1
          BY <3>3
        <5>2. /\ FirstOf(p, j + 1) = FirstOf(p, j) + Carries(wire[p][j].what)
              /\ FirstOf(p, j) > 0 /\ wire[p][j].what \in Whats
          BY <3>1, <3>3 DEF WireInv
        <5>3. FirstOf(p, i)' = FirstOf(p, j) /\ FirstOf(p, j)' = FirstOf(p, j + 1)
          BY <3>5, <5>1
        <5> QED
          BY <3>4, <5>1, <5>2, <5>3
      <4>2. next[p] \in Nat \ {0}
        BY <3>1 DEF WireInv
      <4> QED
        BY <2>1, <2>2, <3>4, <4>1, <4>2 DEF WireInv
    <3>7. /\ FirstOf(p, 1) = f.first /\ FirstOf(p, 2) = f.first + Carries(f.what)
          /\ f.what \in Whats /\ f.first \in Nat /\ f.first > 0
      <4>1. FirstOf(p, 1) = f.first
        BY <3>3, <3>4 DEF FirstOf
      <4>2. 1 \in 1 .. Len(wire[p]) /\ wire[p] \in Seq([what : FrameKinds, first : Nat])
        BY <3>1, <3>3 DEF WireInv
      <4>3. /\ FirstOf(p, 1 + 1) = FirstOf(p, 1) + Carries(wire[p][1].what)
            /\ FirstOf(p, 1) > 0 /\ wire[p][1].what \in Whats
        BY <3>1, <4>2 DEF WireInv
      <4>4. wire[p][1] \in [what : FrameKinds, first : Nat]
        BY <4>2, ElementOfSeq
      <4> QED
        BY <3>4, <4>1, <4>3, <4>4
    <3>8. /\ n \in Nat /\ Carries(f.what) \in Nat
          /\ \/ n = Carries(f.what) /\ f.what # "cut"
             \/ Decode(f.what).over /\ n = 0 /\ f.what \notin {"cut", "part"}
             \/ n + 1 = Carries(f.what) /\ f.what = "cut"
      BY <2>3, <3>7, DecodeFacts
    <3>e. FirstOf(p, 1)' = f.first + Carries(f.what)
      BY <3>3, <3>5, <3>7
    <3> HIDE DEF f, n
    <3>d. n <= Carries(f.what) /\ (f.what = "cut" => f.first + n \in lost'[p])
      BY <3>2, <3>8
    <3>9. /\ pending'[p] \in Seq(Nat) /\ Len(pending'[p]) = n
          /\ \A i \in 1 .. n : pending'[p][i] = f.first + i - 1
      <4>1. \A i \in 1 .. n : f.first + i - 1 \in Nat
        BY <3>7, <3>8
      <4> QED
        BY <3>2, <3>8, <4>1, IsASeq
    <3>10. ASSUME lopen, peer[p] = "open", NEW m \in 1 .. f.first + n - 1
           PROVE  Met(p, m)'
      <4>1. CASE m < f.first
        <5>1. Met(p, m) /\ ~ Holds(p, m)
          BY <2>1, <3>1, <3>7, <3>10, <4>1 DEF ReadInv, Holds
        <5> QED
          BY <2>1, <5>1 DEF Met
      <4>2. CASE m >= f.first
        <5>1. PICK i \in 1 .. n : m = f.first + i - 1
          <6>1. m - f.first + 1 \in 1 .. n
            BY <3>7, <3>8, <4>2
          <6> QED
            BY <3>7, <6>1
        <5>2. pending'[p][i] = m /\ i \in 1 .. Len(pending'[p])
          BY <3>9, <5>1
        <5> QED
          BY <5>2 DEF Met, Holds
      <4> QED
        BY <3>7, <4>1, <4>2
    <3>11. ReadInv(p)'
      <4> SUFFICES ASSUME lopen, peer[p] = "open", task'[p] # "done",
                          NEW m \in 1 .. FirstOf(p, 1)' - 1
                   PROVE  Met(p, m)'
        BY <2>1 DEF ReadInv
      <4>1. n = Carries(f.what) \/ (n + 1 = Carries(f.what) /\ f.what = "cut")
        BY <3>2, <3>8
      <4>2. CASE m \in 1 .. f.first + n - 1
        BY <3>10, <4>2
      <4>3. CASE m = f.first + n /\ f.what = "cut"
        BY <3>d, <4>3 DEF Met
      <4> QED
        BY <3>7, <3>8, <3>e, <4>1, <4>2, <4>3
    <3>12. AnswerInv(p)'
      <4>1. answer'[p] \in Nat
        BY <3>2, <3>7, <3>8
      <4>2. ASSUME peer[p] = "open", lopen \/ pending'[p] = <<>>, NEW m \in 1 .. answer'[p]
            PROVE  Met(p, m)'
        <5>1. n > 0
          BY <3>2, <4>2
        <5>2. pending'[p] # <<>>
          BY <3>9, <5>1
        <5> QED
          BY <2>1, <3>2, <3>10, <4>2, <5>1, <5>2
      <4>3. \A m \in lost[p] : m \in Nat /\ m < f.first
        BY <2>1, <3>1, <3>7 DEF AnswerInv
      <4>4. \A m \in lost'[p] : m \in Nat /\ (m < f.first \/ m = f.first + n)
        BY <3>2, <3>7, <3>8, <4>3
      <4>5. answer'[p] > 0 => answer'[p] \notin lost'[p]
        <5> SUFFICES ASSUME answer'[p] > 0, answer'[p] \in lost'[p] PROVE FALSE
          OBVIOUS
        <5>1. n > 0 /\ answer'[p] = f.first + n - 1
          BY <3>2, <3>8
        <5> QED
          BY <3>7, <3>8, <4>4, <5>1
      <4>6. \A m \in lost'[p] : m < FirstOf(p, 1)'
        <5>1. CASE f.what = "cut"
          BY <3>7, <3>8, <3>e, <4>4, <5>1
        <5>2. CASE f.what # "cut"
          BY <3>2, <3>7, <3>8, <3>e, <4>3, <5>2
        <5> QED
          BY <5>1, <5>2
      <4> QED
        BY <2>1, <3>9, <4>1, <4>2, <4>4, <4>5, <4>6 DEF AnswerInv
    <3>13. task'[p] \in {"none", "reading", "request", "done"}
      BY <2>1, <3>2
    <3>14. AckedInv(p)'
      BY <1>0, <2>1 DEF PeerInv, AckedInv
    <3> QED
      BY <2>1, <2>2, <2>3, <3>6, <3>11, <3>12, <3>13, <3>14 DEF PeerInv
  <2>4. CASE ~ Answering
    <3>1. answer'[p] = 0
      BY <1>0, <2>4 DEF Read, OverPeers, Answering
    <3> QED
      BY <1>0, <2>1, <2>2, <2>4, <3>1 DEF PeerInv, AckedInv
  <2> QED
    BY <2>3, <2>4
<1> QED
  BY <1>1, <1>2, <1>3 DEF ListenInv

\* Sending moves the first event in hand to the sent ones; a closed channel takes the
\* frame and its answer away.
LEMMA PeerGives ==
  ASSUME ListenInv, NEW p \in Peers, SendNext(p)
  PROVE  ListenInv'
<1>0. OverPeers /\ PeerInv(p)
  BY DEF ListenInv
<1>1. OverPeers'
  BY <1>0 DEF SendNext, OverPeers, peerVars
<1>a. /\ lkind' = lkind /\ lopen' = lopen /\ wire' = wire /\ next' = next /\ peer' = peer
      /\ lost' = lost /\ acked' = acked
  BY DEF SendNext, peerVars
<1>b. Answering' = Answering /\ Whats' = Whats /\ \A w : Carries(w)' = Carries(w)
  BY <1>a DEF Answering, Whats, Carries
<1>2. ASSUME NEW q \in Peers, q # p PROVE PeerInv(q)'
  <2>1. /\ pending'[q] = pending[q] /\ answer'[q] = answer[q] /\ emitted'[q] = emitted[q]
    BY <1>0, <1>2 DEF SendNext, OverPeers
  <2>2. CASE Answering
    <3>1. task'[q] = task[q]
      BY <1>0, <1>2, <2>2 DEF SendNext, OverPeers, Answering, Inline, Datagram
    <3> QED
      BY <1>a, <2>1, <3>1, PeerFrame DEF ListenInv, PartOf
  <2>3. CASE ~ Answering
    BY <1>a, <1>b, <2>1, <2>3 DEF ListenInv, PeerInv, AckedInv
  <2> QED
    BY <2>2, <2>3
<1>3. PeerInv(p)'
  <2>1. emitted[p] \subseteq emitted'[p]
    BY <1>0 DEF SendNext, OverPeers
  <2>2. CASE Answering
    <3>1. WireInv(p) /\ ReadInv(p) /\ AnswerInv(p) /\ task[p] = "reading"
      BY <1>0, <2>2 DEF PeerInv, SendNext
    <3>2. WireInv(p)' /\ FirstOf(p, 1)' = FirstOf(p, 1)
      BY <1>a, <1>b, <3>1 DEF WireInv, FirstOf
    <3>3. pending[p] \in Seq(Nat) /\ pending[p] # <<>>
      BY <3>1 DEF AnswerInv, SendNext
    <3>4. CASE lopen
      <4>1. /\ emitted'[p] = emitted[p] \union {Head(pending[p])}
            /\ pending'[p] = Tail(pending[p]) /\ answer' = answer /\ task' = task
        BY <1>0, <3>4 DEF SendNext, OverPeers
      <4>2. PICK k \in Nat : k = Len(pending[p]) /\ k > 0
        BY <3>3, LenProperties, EmptySeq
      <4>3. /\ Head(pending[p]) = pending[p][1] /\ pending'[p] \in Seq(Nat)
            /\ Len(pending'[p]) = k - 1
            /\ \A i \in 1 .. k - 1 : pending'[p][i] = pending[p][i + 1]
        BY <3>3, <4>1, <4>2, HeadTailProperties
      <4>4. ASSUME NEW m, Met(p, m)
            PROVE  Met(p, m)'
        <5> USE DEF Met
        <5>1. CASE m \in emitted[p] \/ m \in lost[p]
          BY <1>a, <4>1, <5>1
        <5>2. CASE Holds(p, m)
          <6>1. PICK i \in 1 .. k : pending[p][i] = m
            BY <4>2, <5>2 DEF Holds
          <6>2. CASE i = 1
            BY <4>1, <4>3, <6>1, <6>2
          <6>3. CASE i # 1
            <7>1. i - 1 \in 1 .. k - 1 /\ (i - 1) + 1 = i
              BY <6>3
            <7>2. pending'[p][i - 1] = m
              BY <4>3, <6>1, <7>1
            <7> QED
              BY <4>3, <7>1, <7>2 DEF Holds
          <6> QED
            BY <6>2, <6>3
        <5> QED
          BY <4>4, <5>1, <5>2
      <4>5. ReadInv(p)'
        BY <1>a, <3>1, <3>2, <3>4, <4>1, <4>4 DEF ReadInv
      <4>6. AnswerInv(p)'
        BY <1>a, <3>1, <3>2, <3>4, <4>1, <4>3, <4>4 DEF AnswerInv
      <4> QED
        BY <1>0, <1>a, <1>b, <2>1, <2>2, <3>1, <3>2, <4>1, <4>5, <4>6 DEF PeerInv, AckedInv
    <3>5. CASE ~ lopen
      <4>1. /\ pending'[p] = <<>> /\ answer'[p] = 0 /\ emitted' = emitted
            /\ task'[p] \in {"done", task[p]}
        BY <1>0, <3>5 DEF SendNext, OverPeers
      <4>2. ReadInv(p)'
        BY <1>a, <3>5 DEF ReadInv
      <4>3. AnswerInv(p)'
        BY <1>a, <3>1, <3>2, <4>1, EmptySeq DEF AnswerInv
      <4> QED
        BY <1>0, <1>a, <1>b, <2>1, <2>2, <3>1, <3>2, <4>1, <4>2, <4>3 DEF PeerInv, AckedInv
    <3> QED
      BY <3>4, <3>5
  <2>3. CASE ~ Answering
    <3>1. answer'[p] = 0
      BY <1>0, <2>3 DEF SendNext, OverPeers, PeerInv
    <3> QED
      BY <1>0, <1>a, <1>b, <2>1, <2>3, <3>1 DEF PeerInv, AckedInv
  <2> QED
    BY <2>2, <2>3
<1> QED
  BY <1>1, <1>2, <1>3 DEF ListenInv

\* The answer is given when nothing of it is in hand any more.
LEMMA PeerAcks ==
  ASSUME ListenInv, NEW p \in Peers, SendAck(p)
  PROVE  ListenInv'
<1> USE DEF listenRunVars, peerVars
<1>0. OverPeers /\ PeerInv(p)
  BY DEF ListenInv
<1>1. OverPeers'
  BY <1>0 DEF SendAck, OverPeers
<1>a. /\ lkind' = lkind /\ lopen' = lopen /\ wire' = wire /\ next' = next /\ peer' = peer
      /\ pending' = pending /\ emitted' = emitted /\ lost' = lost /\ pending[p] = <<>>
  BY DEF SendAck
<1>2. ASSUME NEW q \in Peers, q # p PROVE PeerInv(q)'
  <2>1. UNCHANGED PartOf(q)
    BY <1>0, <1>2 DEF SendAck, PartOf, OverPeers
  <2> QED
    BY <1>a, <2>1, PeerFrame DEF ListenInv
<1>3. PeerInv(p)'
  <2>1. Answering
    BY <1>0 DEF SendAck, PeerInv
  <2>2. /\ WireInv(p) /\ ReadInv(p) /\ AnswerInv(p) /\ task[p] = "reading"
    BY <1>0, <2>1 DEF PeerInv, SendAck
  <2>3. Answering' = Answering /\ Whats' = Whats /\ \A w : Carries(w)' = Carries(w)
    BY <1>a DEF Answering, Whats, Carries
  <2>4. WireInv(p)' /\ FirstOf(p, 1)' = FirstOf(p, 1) /\ \A m : Met(p, m)' = Met(p, m)
    BY <1>a, <2>2, <2>3 DEF WireInv, FirstOf, Met, Holds
  <2>5. answer'[p] = 0 /\ task'[p] \in {"done", "reading"}
    BY <1>0, <2>2 DEF SendAck, OverPeers
  <2>6. ReadInv(p)'
    BY <1>a, <2>2, <2>4, <2>5 DEF ReadInv
  <2>7. AnswerInv(p)'
    BY <1>a, <2>2, <2>4, <2>5 DEF AnswerInv
  <2>8. AckedInv(p)'
    <3>1. CASE peer[p] = "open"
      <4>1. acked'[p] = answer[p]
        BY <1>0, <3>1 DEF SendAck, OverPeers
      <4>2. ~ \E i \in 1 .. Len(pending[p]) : TRUE
        BY <1>a
      <4>3. \A m \in 1 .. answer[p] : m \in emitted[p] \/ m \in lost[p]
        BY <1>a, <2>2, <3>1, <4>2 DEF AnswerInv, Met, Holds
      <4>4. answer[p] \in Nat /\ (answer[p] > 0 => answer[p] \notin lost[p])
        BY <2>2 DEF AnswerInv
      <4>5. \A m \in 1 .. answer[p] : m # answer[p] => m < answer[p]
        BY <4>4
      <4> QED
        BY <1>a, <4>1, <4>3, <4>4, <4>5 DEF AckedInv
    <3>2. CASE peer[p] # "open"
      BY <1>0, <1>a, <3>2 DEF SendAck, PeerInv, AckedInv
    <3> QED
      BY <3>1, <3>2
  <2> QED
    BY <1>a, <2>1, <2>3, <2>4, <2>5, <2>6, <2>7, <2>8 DEF PeerInv
<1> QED
  BY <1>1, <1>2, <1>3 DEF ListenInv

\* A step that changes only whether a peer's connection is open and being read keeps the
\* invariant, unless it opens the connection or starts the reader again.
LEMMA PeerMoves ==
  ASSUME ListenInv, lkind' = lkind, lopen' => lopen, OverPeers',
         UNCHANGED <<next, pending, answer, emitted, lost, acked>>,
         \A p \in Peers :
           /\ Answering => /\ peer'[p] \in {peer[p], "closed"}
                           /\ task'[p] = task[p] \/ task'[p] = "done"
                              \/ (task[p] = "none" /\ task'[p] = "reading")
                           /\ wire'[p] = wire[p] \/ (wire'[p] = <<>> /\ task'[p] = "done")
  PROVE  ListenInv'
<1> SUFFICES ASSUME NEW p \in Peers PROVE PeerInv(p)'
  BY DEF ListenInv
<1>1. PeerInv(p)
  BY DEF ListenInv
<1>2. Answering' = Answering /\ Whats' = Whats /\ \A w : Carries(w)' = Carries(w)
  BY DEF Answering, Whats, Carries
<1>3. CASE ~ Answering
  BY <1>1, <1>2, <1>3 DEF PeerInv, AckedInv
<1>4. CASE Answering
  <2>1. /\ WireInv(p) /\ ReadInv(p) /\ AnswerInv(p)
        /\ task[p] \in {"none", "reading", "request", "done"}
    BY <1>1, <1>4 DEF PeerInv
  <2>2. \A m : Met(p, m)' = Met(p, m)
    BY DEF Met, Holds
  <2>3. WireInv(p)'
    <3>1. CASE wire'[p] = wire[p]
      <4>1. \A i : FirstOf(p, i)' = FirstOf(p, i)
        BY <3>1 DEF FirstOf
      <4>2. peer'[p] = "open" => peer[p] = "open"
        BY <1>4
      <4> QED
        BY <1>2, <2>1, <3>1, <4>1, <4>2 DEF WireInv
    <3>2. CASE wire'[p] = <<>>
      <4>1. ~ \E i \in 1 .. Len(wire'[p]) : TRUE
        BY <3>2
      <4> QED
        BY <2>1, <3>2, <4>1, EmptySeq DEF WireInv
    <3> QED
      BY <1>4, <3>1, <3>2
  <2>4. ReadInv(p)'
    <3> SUFFICES ASSUME lopen', peer'[p] = "open", task'[p] # "done"
                 PROVE  \A n \in 1 .. FirstOf(p, 1)' - 1 : Met(p, n)
      BY <2>2 DEF ReadInv
    <3>1. lopen /\ peer[p] = "open" /\ task[p] # "done" /\ wire'[p] = wire[p]
      BY <1>4, <2>1
    <3>2. FirstOf(p, 1)' = FirstOf(p, 1)
      BY <3>1 DEF FirstOf
    <3> QED
      BY <2>1, <3>1, <3>2 DEF ReadInv
  <2>5. AnswerInv(p)'
    <3>1. task'[p] # "done" => task[p] # "done" /\ FirstOf(p, 1)' = FirstOf(p, 1)
      BY <1>4 DEF FirstOf
    <3> QED
      BY <1>4, <2>1, <2>2, <3>1 DEF AnswerInv
  <2> QED
    BY <1>1, <1>2, <1>4, <2>1, <2>3, <2>4, <2>5 DEF PeerInv, AckedInv
<1> QED
  BY <1>3, <1>4

\* Connections open, end and fail, and the input stops.
LEMMA PeerOthers ==
  ASSUME ListenInv,
         \/ \E p \in Peers : \/ PeerClose(p) \/ ReadError(p) \/ Accept(p) \/ ReadEnd(p)
                             \/ ChildExits(p) \/ Reconnect(p) \/ StopTask(p)
         \/ ListenShutdown \/ ListenCloseChannel \/ StopListening \/ ServeReturns \/ StdinEnds
  PROVE  ListenInv'
<1> USE DEF listenRunVars, peerVars, readVars
<1>0. OverPeers /\ \A p \in Peers : PeerInv(p)
  BY DEF ListenInv
<1>1. CASE \E p \in Peers : PeerClose(p) \/ Accept(p) \/ StopTask(p)
  <2>1. PICK p \in Peers : PeerClose(p) \/ Accept(p) \/ StopTask(p)
    BY <1>1
  <2>2. /\ UNCHANGED <<wire, next, pending, answer, emitted, lost, acked, lkind, lopen>>
        /\ \/ peer' = [peer EXCEPT ![p] = "closed"] /\ task' = task
           \/ peer' = peer /\ task[p] = "none" /\ task' = [task EXCEPT ![p] = "reading"]
           \/ peer' = peer /\ task' = [task EXCEPT ![p] = "done"]
    BY <2>1 DEF PeerClose, Accept, StopTask
  <2>3. OverPeers'
    BY <1>0, <2>2 DEF OverPeers
  <2>4. \A q \in Peers : /\ peer'[q] \in {peer[q], "closed"} /\ wire'[q] = wire[q]
                         /\ task'[q] = task[q] \/ task'[q] = "done"
                            \/ (task[q] = "none" /\ task'[q] = "reading")
    BY <1>0, <2>2 DEF OverPeers
  <2> QED
    BY <2>2, <2>3, <2>4, PeerMoves
<1>2. CASE \E p \in Peers : ReadError(p) \/ ReadEnd(p) \/ Reconnect(p) \/ ChildExits(p)
  <2>1. PICK p \in Peers : ReadError(p) \/ ReadEnd(p) \/ Reconnect(p) \/ ChildExits(p)
    BY <1>2
  <2>2. UNCHANGED <<next, pending, answer, emitted, lost, acked, lkind, lopen>>
    BY <2>1 DEF ReadError, ReadEnd, ChildExits, Reconnect
  <2>3. OverPeers'
    BY <1>0, <2>1 DEF ReadError, ReadEnd, ChildExits, Reconnect, OverPeers
  <2>4. ASSUME Answering, NEW q \in Peers
        PROVE  /\ peer'[q] \in {peer[q], "closed"}
               /\ task'[q] = task[q] \/ task'[q] = "done"
               /\ wire'[q] = wire[q] \/ (wire'[q] = <<>> /\ task'[q] = "done")
    <3>1. Over(p) = "done"
      BY <2>4 DEF Over, Answering
    <3>2. ~ Reconnect(p) /\ ~ ChildExits(p)
      BY <1>0, <2>4 DEF Reconnect, ChildExits, PeerInv
    <3>3. task'[p] = "done" /\ \A r \in Peers : r # p => UNCHANGED <<task[r], wire[r]>>
      BY <1>0, <2>1, <2>4, <3>1, <3>2 DEF ReadError, ReadEnd, OverPeers, Answering
    <3>4. peer' = peer /\ (wire' = wire \/ wire' = [wire EXCEPT ![p] = <<>>])
      BY <2>1, <3>2 DEF ReadError, ReadEnd
    <3> QED
      BY <1>0, <3>3, <3>4 DEF OverPeers
  <2> QED
    BY <2>2, <2>3, <2>4, PeerMoves
<1>3. CASE ListenShutdown \/ ListenCloseChannel \/ StopListening \/ ServeReturns \/ StdinEnds
  <2>1. /\ UNCHANGED <<peer, wire, next, pending, answer, emitted, lost, acked, lkind>>
        /\ lopen' => lopen
        /\ task' = task \/ (lkind \in Inline /\ task' = [p \in Peers |-> "done"])
    BY <1>3 DEF ListenShutdown, ListenCloseChannel, StopListening, ServeReturns, StdinEnds
  <2>2. OverPeers'
    BY <1>0, <2>1 DEF OverPeers
  <2>3. \A q \in Peers : task'[q] = task[q] \/ task'[q] = "done"
    BY <2>1
  <2> QED
    BY <2>1, <2>2, <2>3, PeerMoves
<1> QED
  BY <1>1, <1>2, <1>3

\* No step of an input acknowledges what it has not sent.
LEMMA ListenStepInv == ListenInv /\ [Next]_vars => ListenInv'
<1> SUFFICES ASSUME ListenInv, [Next]_vars PROVE ListenInv'
  OBVIOUS
<1>1. CASE UNCHANGED listenVars
  <2>1. /\ lkind' = lkind /\ lopen' = lopen /\ OverPeers'
        /\ \A p \in Peers : UNCHANGED PartOf(p)
    BY <1>1 DEF listenVars, PartOf, ListenInv, OverPeers
  <2> QED
    BY <2>1, PeerFrame DEF ListenInv
<1>2. CASE ListenNext
  BY <1>2, PeerSends, PeerReads, PeerGives, PeerAcks, PeerOthers DEF ListenNext, ListenStep
<1> QED
  BY <1>1, <1>2 DEF Next, Broker, Poll, Listen, vars

\* No ACK frame of beats and no 2xx of http covers an event that was not sent, also when
\* the channel closes between two events of a frame or the shutdown falls in between;
\* the ACK of a cut frame stops before what the cut took, which only the ACK of a later
\* frame covers.  For any number of peers and frames.
THEOREM AckedWasSentHolds == Spec => []AckedWasSent
<1>1. Init => ListenInv
  <2> SUFFICES ASSUME Init PROVE ListenInv
    OBVIOUS
  <2>1. OverPeers
    BY DEF Init, ListenInit, OverPeers
  <2>2. ASSUME NEW p \in Peers PROVE PeerInv(p)
    <3>1. /\ wire[p] = <<>> /\ next[p] = 1 /\ task[p] = "none" /\ pending[p] = <<>>
          /\ answer[p] = 0 /\ lost[p] = {} /\ acked[p] = 0
      BY DEF Init, ListenInit
    <3>2. FirstOf(p, 1) = 1
      BY <3>1 DEF FirstOf
    <3>3. WireInv(p)
      <4>1. Len(wire[p]) = 0
        BY <3>1, EmptySeq
      <4> QED
        BY <3>1, <4>1, EmptySeq DEF WireInv
    <3>4. ReadInv(p)
      BY <3>2 DEF ReadInv
    <3>5. AnswerInv(p)
      BY <3>1, EmptySeq DEF AnswerInv
    <3> QED
      BY <3>1, <3>3, <3>4, <3>5 DEF PeerInv, AckedInv
  <2> QED
    BY <2>1, <2>2 DEF ListenInv
<1>2. ListenInv => AckedWasSent
  BY DEF ListenInv, PeerInv, AckedInv, AckedWasSent
<1> QED
  BY <1>1, <1>2, ListenStepInv, PTL DEF Spec

-----------------------------------------------------------------------------
(* Polling inputs.                                                         *)

\* The numbers after a, in order.
Run(b, a) == b \in Seq(Nat) /\ \A j \in 1 .. Len(b) : b[j] = a + j

Covered(n) == \A r \in Records : r <= n => r \in ever
NotSentAbove(n) == \A r \in Records : sent[r] > 0 => r <= n
Once == \A r \in Records : sent[r] <= 1

\* Except for s3, which deletes, and a truncated file, the source holds the
\* records 1 .. made in order.
SourceInv ==
  /\ cfg \in PollConfigs
  /\ truncated => cfg.kind = "file"
  /\ made \in Nat /\ made <= NumRecords
  /\ cfg.kind # "s3" /\ ~truncated => Run(content, 0) /\ Len(content) = made
  /\ sent \in [Records -> Nat]

\* s3: what was sent is in seen.
KeyInv ==
  cfg.kind = "s3" => Once /\ \A r \in Records : sent[r] > 0 => r \in seen

\* dead_letter_queue reads once.
EntryInv ==
  cfg.kind = "dlq" =>
    /\ Once
    /\ ppc # "wait"
    /\ ppc = "poll" => NotSentAbove(0)
    /\ ppc = "read" => \E a \in Nat : Run(batch, a) /\ NotSentAbove(a)

\* cloudwatch: what was sent lies before the window of the next poll.
WindowInv ==
  cfg.kind = "cloudwatch" =>
    /\ Once
    /\ cur \in Nat
    /\ ppc = "poll" => \A r \in Records : sent[r] > 0 => r + Interval <= made
    /\ ppc = "read" => \E a \in Nat : /\ Run(batch, a) /\ NotSentAbove(a)
                                      /\ a + Len(batch) <= made
    /\ ppc = "wait" => \A r \in Records : sent[r] > 0 => r + Interval <= cur

\* file: what is below the offset was sent or refused, nothing above it was
\* sent; within a cycle the offset is cur.
LineCovered(n) == \A r \in Records : r <= n => r \in ever \union refused

SincedbInv ==
  cfg.kind = "file" /\ cfg.start = "beginning" /\ ~truncated =>
    /\ Once
    /\ {pos, disk} \subseteq Nat
    /\ pos # NoPos => pos <= made
    /\ disk # NoPos => disk <= made /\ LineCovered(disk)
    /\ IF ppc = "read"
       THEN /\ cur \in Nat /\ batch = <<FileOffset>>
            /\ FileOffset <= cur /\ cur <= made
            /\ LineCovered(cur) /\ NotSentAbove(cur)
       ELSE LineCovered(FileOffset) /\ NotSentAbove(FileOffset)

\* jdbc: sql_last_value, or in a cycle that has sent rows the greatest of them.
Top == IF best > 0 THEN best ELSE pos

RowsInv ==
  cfg.kind = "jdbc" /\ cfg.track /\ StableOrder =>
    {pos, disk, cur, best} \subseteq Nat /\ Covered(disk) /\ Once

\* In the order of the tracked column the rows up to Top are sent, the batch
\* follows them, and the next page follows the batch.
TrackedInv ==
  cfg.kind = "jdbc" /\ cfg.track /\ cfg.order = "tracked" /\ ppc # "stopped" =>
    /\ Covered(Top) /\ NotSentAbove(Top)
    /\ ppc = "poll" => Top = pos + cur /\ (~cfg.paged => cur = 0)
    /\ ppc = "read" => /\ Run(batch, Top)
                       /\ more => cfg.paged /\ Top + Len(batch) = pos + cur
    /\ ppc = "wait" => best = 0

\* In the opposite order (and without pages) the batch holds the rows just
\* above sql_last_value, the greatest first.
DescendingInv ==
  cfg.kind = "jdbc" /\ cfg.track /\ cfg.order # "tracked" /\ ~cfg.paged /\ ppc # "stopped" =>
    /\ ppc \in {"poll", "save", "wait"} => batch = <<>>
    /\ ppc \in {"poll", "wait"} => best = 0
    /\ more = FALSE
    /\ Covered(pos)
    /\ best > 0 => best > pos
    /\ batch \in Seq(Nat)
    /\ \A j \in 1 .. Len(batch) : batch[j] = pos + Len(batch) - j + 1
    /\ \A r \in Records :
         /\ sent[r] > 0 => r <= pos \/ (pos + Len(batch) < r /\ r <= best)
         /\ r <= best => r \in ever \/ (pos < r /\ r <= pos + Len(batch))

\* elasticsearch: in a search, the cursor of the last hit sent, or the file's.
Cursor == IF best > 0 THEN best ELSE disk

HitsInv ==
  cfg.kind = "elasticsearch" /\ cfg.track =>
    /\ {disk, cur, best} \subseteq Nat
    /\ Covered(disk)
    /\ ppc \in {"page", "read", "save"} => Covered(Cursor) /\ (best > 0 => best > disk)
    /\ ppc \in {"page", "read"} => \E k \in Nat : seen = 1 .. k
    /\ ppc = "page" => cur = best
    /\ ppc = "read" => Run(batch, Cursor) /\ batch # <<>> /\ cur = Cursor + Len(batch)

PositionInv ==
  /\ SourceInv /\ KeyInv /\ EntryInv /\ WindowInv /\ SincedbInv
  /\ RowsInv /\ TrackedInv /\ DescendingInv /\ HitsInv

\* No configuration tracks a field that two documents may share: a cursor that
\* is saved between the two passes the second.
PollSound ==
  \A c \in PollConfigs : c.kind = "elasticsearch" /\ c.track => ~c.ties

\* The first element and the rest of a run.
LEMMA RunTail ==
  ASSUME NEW b, NEW a \in Nat, Run(b, a), b # <<>>
  PROVE  Head(b) = a + 1 /\ Run(Tail(b), a + 1) /\ Len(Tail(b)) = Len(b) - 1
  <1>1. b \in Seq(Nat) /\ Len(b) \in Nat /\ Len(b) > 0
    BY DEF Run
  <1>2. Head(b) = b[1] /\ Tail(b) \in Seq(Nat) /\ Len(Tail(b)) = Len(b) - 1
        /\ \A j \in 1 .. Len(b) - 1 : Tail(b)[j] = b[j + 1]
    BY <1>1
  <1>3. ASSUME NEW j \in 1 .. Len(b) - 1 PROVE b[j + 1] = a + 1 + j
    BY <1>1 DEF Run
  <1> QED
    BY <1>1, <1>2, <1>3 DEF Run

\* A part of a run.
LEMMA RunPart ==
  ASSUME NEW b, NEW a \in Nat, Run(b, a), NEW m \in Nat, NEW n \in Nat, n <= Len(b)
  PROVE  /\ Run(SubSeq(b, m + 1, n), a + m)
         /\ Len(SubSeq(b, m + 1, n)) = IF n > m THEN n - m ELSE 0
  <1>1. b \in Seq(Nat) /\ Len(b) \in Nat
    BY DEF Run
  <1>2. /\ SubSeq(b, m + 1, n) \in Seq(Nat)
        /\ Len(SubSeq(b, m + 1, n)) = IF n > m THEN n - m ELSE 0
        /\ \A j \in 1 .. Len(SubSeq(b, m + 1, n)) : SubSeq(b, m + 1, n)[j] = b[m + j]
    <2>1. CASE n > m
      <3>1. m + 1 \in 1 .. Len(b) /\ n \in 1 .. Len(b) /\ m + 1 <= n + 1
        BY <1>1, <2>1
      <3>2. /\ SubSeq(b, m + 1, n) \in Seq(Nat)
            /\ Len(SubSeq(b, m + 1, n)) = n - (m + 1) + 1
            /\ \A j \in 1 .. n - (m + 1) + 1 : SubSeq(b, m + 1, n)[j] = b[(m + 1) + j - 1]
        BY <1>1, <3>1, SubSeqProperties
      <3>3. n - (m + 1) + 1 = n - m /\ \A j \in 1 .. n - m : (m + 1) + j - 1 = m + j
        OBVIOUS
      <3> QED
        BY <2>1, <3>2, <3>3
    <2>2. CASE ~(n > m)
      BY <1>1, <2>2
    <2> QED
      BY <2>1, <2>2
  <1>3. ASSUME NEW j \in 1 .. Len(SubSeq(b, m + 1, n))
        PROVE  SubSeq(b, m + 1, n)[j] = a + m + j
    <2>1. m + j \in 1 .. Len(b) /\ j \in Nat
      BY <1>1, <1>2
    <2>2. b[m + j] = a + (m + j)
      BY <2>1 DEF Run
    <2> QED
      BY <1>2, <2>1, <2>2
  <1> QED
    BY <1>2, <1>3 DEF Run

\* The first page of a run; it is empty only if the run is.
LEMMA RunPage ==
  ASSUME NEW b, NEW a \in Nat, Run(b, a)
  PROVE  /\ Run(FirstPage(b), a)
         /\ Len(FirstPage(b)) <= Len(b)
         /\ b # <<>> => FirstPage(b) # <<>>
  <1> DEFINE n == IF Len(b) < PageSize THEN Len(b) ELSE PageSize
  <1>1. b \in Seq(Nat) /\ Len(b) \in Nat /\ (b # <<>> => Len(b) > 0)
    BY DEF Run
  <1>2. n \in Nat /\ n <= Len(b) /\ (b # <<>> => n > 0)
    BY <1>1, PollAssumption
  <1>3. FirstPage(b) = SubSeq(b, 0 + 1, n)
    BY DEF FirstPage
  <1> HIDE DEF n
  <1>4. Run(SubSeq(b, 0 + 1, n), a + 0)
        /\ Len(SubSeq(b, 0 + 1, n)) = IF n > 0 THEN n - 0 ELSE 0
    BY <1>2, RunPart
  <1>5. a + 0 = a
    OBVIOUS
  <1>6. Run(SubSeq(b, 0 + 1, n), a)
    BY <1>4, <1>5
  <1>7. Len(SubSeq(b, 0 + 1, n)) = n
    BY <1>2, <1>4
  <1>8. SubSeq(b, 0 + 1, n) \in Seq(Nat)
    BY <1>6 DEF Run
  <1>9. b # <<>> => SubSeq(b, 0 + 1, n) # <<>>
    BY <1>2, <1>7, <1>8
  <1> QED
    BY <1>2, <1>3, <1>6, <1>7, <1>9

\* What a poll between two bounds gets.
LEMMA SliceRun ==
  ASSUME Run(content, 0), NEW a \in Nat, NEW b \in Nat, b <= Len(content)
  PROVE  /\ Run(Slice(a + 1 .. b), a)
         /\ Len(Slice(a + 1 .. b)) = IF b > a THEN b - a ELSE 0
  <1>1. CASE b > a
    <2>1. b \in a + 1 .. b
      BY <1>1
    <2>2. Min(a + 1 .. b) = a + 1 /\ Max(a + 1 .. b) = b
      BY <1>1 DEF Min, Max
    <2>3. Slice(a + 1 .. b) = SubSeq(content, a + 1, b)
      BY <2>1, <2>2 DEF Slice
    <2>4. 0 + a = a
      OBVIOUS
    <2>5. Run(SubSeq(content, a + 1, b), 0 + a)
          /\ Len(SubSeq(content, a + 1, b)) = IF b > a THEN b - a ELSE 0
      BY RunPart
    <2> QED
      BY <2>3, <2>4, <2>5
  <1>2. CASE ~(b > a)
    <2>1. a + 1 .. b = {}
      BY <1>2
    <2>2. Slice(a + 1 .. b) = <<>>
      BY <2>1 DEF Slice
    <2>3. Run(<<>>, a) /\ Len(<<>>) = 0
      BY DEF Run
    <2> QED
      BY <1>2, <2>2, <2>3
  <1> QED
    BY <1>1, <1>2

\* A send counts once for the record sent, if the channel takes it.
LEMMA SendFacts ==
  ASSUME SourceInv, NEW r, Send(r)
  PROVE  /\ sent' \in [Records -> Nat]
         /\ \A q \in Records : q # r => sent'[q] = sent[q]
         /\ r \in Records /\ sent[r] = 0 => sent'[r] <= 1
         /\ ever \subseteq ever' /\ refused \subseteq refused'
         /\ popen => r \in ever'
         /\ ~popen => sent' = sent /\ r \in refused'
  <1>1. CASE popen
    <2>1. sent' = [sent EXCEPT ![r] = Twice(@)] /\ ever' = ever \union {r} /\ refused' = refused
      BY <1>1 DEF Send
    <2>2. \A n \in Nat : Twice(n) \in Nat /\ (n = 0 => Twice(n) <= 1)
      BY DEF Twice
    <2>3. sent \in [Records -> Nat]
      BY DEF SourceInv
    <2> QED
      BY <1>1, <2>1, <2>2, <2>3
  <1>2. CASE ~popen
    BY <1>2 DEF Send, SourceInv
  <1> QED
    BY <1>1, <1>2

\* Which input an action belongs to, and what no action of a run changes.
LEMMA Kinds ==
  /\ FileOpen \/ FileReadLine \/ SaveSincedb \/ WriteSincedb => cfg.kind = "file"
  /\ S3List \/ S3Object \/ S3Delete \/ S3NextPage => cfg.kind = "s3"
  /\ JdbcQuery \/ EmitRow \/ JdbcNextPage \/ PersistLastValue => cfg.kind = "jdbc"
  /\ CloudwatchPoll \/ CloudwatchEmit => cfg.kind = "cloudwatch"
  /\ DlqReadAll \/ DlqSend => cfg.kind = "dlq"
  /\ EsOpenPit \/ EsPage \/ EsHit \/ EsSave => cfg.kind = "elasticsearch"
  /\ PollAll \/ PollAllSend => cfg.kind \in {"exec", "http_poller", "esql"}
  /\ TimerSend \/ TimerWait => cfg.kind \in {"heartbeat", "generator"}
  <1>1. FileOpen \/ FileReadLine \/ SaveSincedb \/ WriteSincedb => cfg.kind = "file"
    BY DEF FileOpen, FileReadLine, SaveSincedb, WriteSincedb
  <1>2. S3List \/ S3Object \/ S3Delete \/ S3NextPage => cfg.kind = "s3"
    BY DEF S3List, S3Object, S3Delete, S3NextPage
  <1>3. JdbcQuery \/ EmitRow \/ JdbcNextPage \/ PersistLastValue => cfg.kind = "jdbc"
    BY DEF JdbcQuery, EmitRow, JdbcNextPage, PersistLastValue
  <1>4. CloudwatchPoll \/ CloudwatchEmit => cfg.kind = "cloudwatch"
    BY DEF CloudwatchPoll, CloudwatchEmit
  <1>5. DlqReadAll \/ DlqSend => cfg.kind = "dlq"
    BY DEF DlqReadAll, DlqSend
  <1>6. EsOpenPit \/ EsPage \/ EsHit \/ EsSave => cfg.kind = "elasticsearch"
    BY DEF EsOpenPit, EsPage, EsHit, EsSave
  <1>7. PollAll \/ PollAllSend => cfg.kind \in {"exec", "http_poller", "esql"}
    BY DEF PollAll, PollAllSend
  <1>8. TimerSend \/ TimerWait => cfg.kind \in {"heartbeat", "generator"}
    BY DEF TimerSend, TimerWait
  <1> QED
    BY <1>1, <1>2, <1>3, <1>4, <1>5, <1>6, <1>7, <1>8

\* What every step of an input leaves alone or only adds to.
LEMMA StepFrame ==
  ASSUME SourceInv, PollStep
  PROVE  /\ cfg' = cfg /\ made' = made /\ truncated' = truncated
         /\ cfg.kind # "s3" => content' = content
         /\ sent' \in [Records -> Nat]
         /\ ever \subseteq ever' /\ refused \subseteq refused'
  <1> DEFINE P == /\ cfg' = cfg /\ made' = made /\ truncated' = truncated
                  /\ cfg.kind # "s3" => content' = content
                  /\ sent' \in [Records -> Nat]
                  /\ ever \subseteq ever' /\ refused \subseteq refused'
  <1>0. sent \in [Records -> Nat]
    BY DEF SourceInv
  <1>1. Wait \/ FileOpen \/ SaveSincedb \/ WriteSincedb => P
    BY <1>0 DEF Wait, FileOpen, SaveSincedb, WriteSincedb, sourceVars, sendVars, runVars
  <1>2. ASSUME FileReadLine PROVE P
    <2>1. (\E r : Send(r)) \/ UNCHANGED sendVars
      BY <1>2 DEF FileReadLine
    <2> QED
      BY <1>0, <1>2, <2>1, SendFacts DEF FileReadLine, sourceVars, sendVars, runVars
  <1>3. S3List \/ S3Delete \/ S3NextPage => P
    BY <1>0 DEF S3List, S3Delete, S3NextPage, sourceVars, sendVars, runVars
  <1>4. ASSUME S3Object PROVE P
    <2>1. (\E r : Send(r)) \/ UNCHANGED sendVars
      BY <1>4 DEF S3Object
    <2> QED
      BY <1>0, <1>4, <2>1, SendFacts DEF S3Object, sourceVars, sendVars, runVars
  <1>5. JdbcQuery \/ JdbcNextPage \/ PersistLastValue => P
    BY <1>0 DEF JdbcQuery, JdbcNextPage, PersistLastValue, sourceVars, sendVars, runVars
  <1>6. ASSUME EmitRow PROVE P
    <2>1. \E r : Send(r)
      BY <1>6 DEF EmitRow
    <2> QED
      BY <1>6, <2>1, SendFacts DEF EmitRow, sourceVars, runVars
  <1>7. ASSUME CloudwatchEmit PROVE P
    <2>1. (\E r : Send(r)) \/ UNCHANGED sendVars
      BY <1>7 DEF CloudwatchEmit
    <2> QED
      BY <1>0, <1>7, <2>1, SendFacts DEF CloudwatchEmit, sourceVars, sendVars, runVars
  <1>8. ASSUME DlqSend PROVE P
    <2>1. (\E r : Send(r)) \/ UNCHANGED sendVars
      BY <1>8 DEF DlqSend
    <2> QED
      BY <1>0, <1>8, <2>1, SendFacts DEF DlqSend, sourceVars, sendVars, runVars
  <1>9. CloudwatchPoll \/ DlqReadAll \/ EsOpenPit \/ EsPage \/ EsSave \/ PollAll => P
    BY <1>0 DEF CloudwatchPoll, DlqReadAll, EsOpenPit, EsPage, EsSave, PollAll,
                sourceVars, sendVars, runVars
  <1>10. ASSUME EsHit PROVE P
    <2>1. \E r : Send(r)
      BY <1>10 DEF EsHit
    <2> QED
      BY <1>10, <2>1, SendFacts DEF EsHit, sourceVars, runVars
  <1>11. ASSUME PollAllSend PROVE P
    <2>1. (\E r : Send(r)) \/ UNCHANGED sendVars
      BY <1>11 DEF PollAllSend
    <2> QED
      BY <1>0, <1>11, <2>1, SendFacts DEF PollAllSend, sourceVars, sendVars, runVars
  <1>12. ASSUME TimerSend PROVE P
    <2>1. (\E r : Send(r)) \/ UNCHANGED sendVars
      BY <1>12 DEF TimerSend
    <2> QED
      BY <1>0, <1>12, <2>1, SendFacts DEF TimerSend, sourceVars, sendVars, runVars
  <1>13. TimerWait => P
    BY <1>0 DEF TimerWait, sourceVars, sendVars, runVars
  <1> HIDE DEF P
  <1>14. P
    BY <1>1, <1>2, <1>3, <1>4, <1>5, <1>6, <1>7, <1>8, <1>9, <1>10, <1>11, <1>12, <1>13
       DEF PollStep
  <1> QED
    BY <1>14 DEF P

\* The source keeps its order.
LEMMA SourceStep == SourceInv /\ PollNext => SourceInv'
  <1> SUFFICES ASSUME SourceInv, PollNext PROVE SourceInv'
    OBVIOUS
  <1>0. /\ cfg \in PollConfigs /\ made \in Nat /\ made <= NumRecords
        /\ truncated => cfg.kind = "file"
        /\ sent \in [Records -> Nat] /\ NumRecords \in Nat
    BY PollAssumption DEF SourceInv
  <1>1. CASE Produce
    <2>1. /\ cfg' = cfg /\ truncated' = truncated /\ sent' = sent
          /\ made' = made + 1 /\ made + 1 <= NumRecords
          /\ content' = Append(content, made + 1)
      BY <1>0, <1>1 DEF Produce, runVars, sendVars
    <2>2. ASSUME cfg.kind # "s3", ~truncated
          PROVE  Run(Append(content, made + 1), 0) /\ Len(Append(content, made + 1)) = made + 1
      <3>1. content \in Seq(Nat) /\ Len(content) = made /\ \A j \in 1 .. made : content[j] = 0 + j
        BY <2>2 DEF SourceInv, Run
      <3>2. /\ Append(content, made + 1) \in Seq(Nat)
            /\ Len(Append(content, made + 1)) = made + 1
            /\ Append(content, made + 1)[made + 1] = made + 1
            /\ \A j \in 1 .. made : Append(content, made + 1)[j] = content[j]
        BY <1>0, <3>1
      <3>3. ASSUME NEW j \in 1 .. made + 1 PROVE Append(content, made + 1)[j] = 0 + j
        BY <1>0, <3>1, <3>2
      <3> QED
        BY <3>2, <3>3 DEF Run
    <2> QED
      BY <1>0, <2>1, <2>2 DEF SourceInv
  <1>2. CASE Truncate
    BY <1>0, <1>2 DEF Truncate, SourceInv, runVars, sendVars
  <1>3. CASE PollShutdown \/ PollCloseChannel
    BY <1>3 DEF PollShutdown, PollCloseChannel, SourceInv, sourceVars, sendVars, Run
  <1>4. CASE PollRestart
    <2>1. cfg' = cfg /\ made' = made /\ truncated' = truncated /\ content' = content
          /\ sent' \in [Records -> Nat]
      BY <1>4 DEF PollRestart, sourceVars
    <2> QED
      BY <2>1 DEF SourceInv, Run
  <1>5. CASE PollStep
    <2>1. /\ cfg' = cfg /\ made' = made /\ truncated' = truncated
          /\ cfg.kind # "s3" => content' = content
          /\ sent' \in [Records -> Nat]
      BY <1>5, StepFrame
    <2> QED
      BY <2>1 DEF SourceInv, Run
  <1> QED
    BY <1>1, <1>2, <1>3, <1>4, <1>5 DEF PollNext

\* What the environment leaves alone.
LEMMA EnvFrame ==
  ASSUME Produce \/ Truncate \/ PollShutdown \/ PollCloseChannel
  PROVE  UNCHANGED <<cfg, pos, disk, cur, best, more, batch, seen, sent, ever, refused, ppc>>
  BY DEF Produce, Truncate, PollShutdown, PollCloseChannel, cycleVars, sendVars, runVars

\* s3: a key that is sent was not in seen, and is from then on.
LEMMA KeyStep == SourceInv /\ KeyInv /\ PollNext => KeyInv'
  <1> SUFFICES ASSUME SourceInv, KeyInv, PollNext, cfg.kind = "s3" PROVE KeyInv'
    BY StepFrame, EnvFrame DEF PollNext, PollRestart, KeyInv
  <1> DEFINE P == \A r \in Records : sent[r] <= 1 /\ (sent[r] > 0 => r \in seen)
  <1>0. P /\ sent \in [Records -> Nat]
    BY DEF KeyInv, SourceInv, Once
  <1>1. P' => KeyInv'
    BY DEF KeyInv, Once
  <1>2. CASE Produce \/ Truncate \/ PollShutdown \/ PollCloseChannel
    BY <1>0, <1>1, <1>2, EnvFrame
  <1>3. CASE PollRestart
    <2>1. \A r \in Records : sent'[r] = 0
      BY <1>3 DEF PollRestart
    <2> QED
      BY <1>1, <2>1
  <1>4. CASE Wait \/ S3List \/ S3Delete \/ S3NextPage
    <2>1. sent' = sent /\ seen' = seen
      BY <1>4 DEF Wait, S3List, S3Delete, S3NextPage, sendVars
    <2> QED
      BY <1>0, <1>1, <2>1
  <1>5. CASE S3Object
    <2> DEFINE k == Head(batch)
    <2>1. \/ sent' = sent /\ seen \subseteq seen'
          \/ /\ k \notin seen /\ Send(k)
             /\ seen' = IF popen THEN seen \union {k} ELSE seen
      BY <1>5 DEF S3Object, sendVars
    <2> HIDE DEF k
    <2>2. CASE sent' = sent /\ seen \subseteq seen'
      BY <1>0, <1>1, <2>2
    <2>3. CASE /\ k \notin seen /\ Send(k)
               /\ seen' = IF popen THEN seen \union {k} ELSE seen
      <3>1. /\ \A q \in Records : q # k => sent'[q] = sent[q]
            /\ k \in Records /\ sent[k] = 0 => sent'[k] <= 1
            /\ ~popen => sent' = sent
        BY <2>3, SendFacts
      <3>2. k \in Records => sent[k] = 0
        BY <1>0, <2>3
      <3>3. CASE popen
        <4>1. seen' = seen \union {k}
          BY <2>3, <3>3
        <4> QED
          BY <1>0, <1>1, <3>1, <3>2, <4>1
      <3>4. CASE ~popen
        BY <1>0, <1>1, <2>3, <3>1, <3>4
      <3> QED
        BY <3>3, <3>4
    <2> QED
      BY <2>1, <2>2, <2>3
  <1> QED
    BY <1>2, <1>3, <1>4, <1>5, Kinds DEF PollNext, PollStep

\* A send of the head of a run: what was sent is the run's beginning.
LEMMA SendHead ==
  ASSUME SourceInv, Once, NEW a \in Nat, NotSentAbove(a), Send(a + 1)
  PROVE  Once' /\ NotSentAbove(a + 1)' /\ (~popen => NotSentAbove(a)')
  <1>1. /\ \A q \in Records : q # a + 1 => sent'[q] = sent[q]
        /\ a + 1 \in Records /\ sent[a + 1] = 0 => sent'[a + 1] <= 1
        /\ ~popen => sent' = sent
    BY SendFacts
  <1>2. \A r \in Records : r \in Nat /\ sent[r] \in Nat
    BY DEF Records, SourceInv
  <1>3. a + 1 \in Records => sent[a + 1] = 0
    BY <1>2 DEF NotSentAbove
  <1>4. \A r \in Records : sent'[r] <= 1
    BY <1>1, <1>3 DEF Once
  <1>5. \A r \in Records : sent'[r] > 0 => r <= a + 1
    BY <1>1, <1>2 DEF NotSentAbove
  <1>6. ~popen => \A r \in Records : sent'[r] > 0 => r <= a
    BY <1>1 DEF NotSentAbove
  <1> QED
    BY <1>4, <1>5, <1>6 DEF Once, NotSentAbove

\* dead_letter_queue: entries are read once and sent in order.
LEMMA EntryStep == SourceInv /\ EntryInv /\ PollNext => EntryInv'
  <1> SUFFICES ASSUME SourceInv, EntryInv, PollNext, cfg.kind = "dlq" PROVE EntryInv'
    BY StepFrame, EnvFrame DEF PollNext, PollRestart, EntryInv
  <1>0. Once
    BY DEF EntryInv
  <1>1. CASE Produce \/ Truncate \/ PollShutdown \/ PollCloseChannel
    BY <1>1, EnvFrame DEF EntryInv, Once, NotSentAbove, Run
  <1>2. CASE PollRestart
    BY <1>2 DEF PollRestart
  <1>3. CASE Wait
    BY <1>3 DEF Wait, EntryInv
  <1>4. CASE DlqReadAll
    <2>1. sent' = sent /\ ppc = "poll"
          /\ \/ ppc' = "read" /\ batch' = content
             \/ ppc' = "stopped"
      BY <1>4 DEF DlqReadAll, sendVars
    <2>2. Run(content, 0)
      BY DEF SourceInv
    <2>3. NotSentAbove(0) /\ 0 \in Nat
      BY <2>1 DEF EntryInv
    <2>4. Once' /\ NotSentAbove(0)'
      BY <1>0, <2>1, <2>3 DEF Once, NotSentAbove
    <2>5. ppc' = "read" => Run(batch, 0)'
      BY <2>1, <2>2 DEF Run
    <2> QED
      BY <2>1, <2>3, <2>4, <2>5 DEF EntryInv
  <1>5. CASE DlqSend
    <2>1. CASE ppc' = "stopped" /\ sent' = sent
      BY <1>0, <2>1 DEF EntryInv, Once
    <2>2. CASE ~(ppc' = "stopped" /\ sent' = sent)
      <3>1. /\ ppc = "read" /\ batch # <<>>
            /\ Send(Head(batch)) /\ batch' = Tail(batch)
            /\ ppc' = IF popen THEN "read" ELSE "stopped"
        BY <1>5, <2>2 DEF DlqSend, sendVars
      <3>2. PICK a \in Nat : Run(batch, a) /\ NotSentAbove(a)
        BY <3>1 DEF EntryInv
      <3>3. Send(a + 1) /\ Run(Tail(batch), a + 1) /\ a + 1 \in Nat
        BY <3>1, <3>2, RunTail
      <3>4. Once' /\ NotSentAbove(a + 1)'
        BY <1>0, <3>2, <3>3, SendHead
      <3>5. Run(batch, a + 1)'
        BY <3>1, <3>3 DEF Run
      <3> QED
        BY <3>1, <3>3, <3>4, <3>5 DEF EntryInv
    <2> QED
      BY <2>1, <2>2
  <1> QED
    BY <1>1, <1>2, <1>3, <1>4, <1>5, Kinds DEF PollNext, PollStep

\* cloudwatch: the windows of two polls do not overlap.
LEMMA WindowStep == SourceInv /\ WindowInv /\ PollNext => WindowInv'
  <1> SUFFICES ASSUME SourceInv, WindowInv, PollNext, cfg.kind = "cloudwatch" PROVE WindowInv'
    BY StepFrame, EnvFrame DEF PollNext, PollRestart, WindowInv
  <1>0. Once /\ cur \in Nat /\ Interval \in Nat /\ Interval > 0 /\ made \in Nat
        /\ NumRecords \in Nat
    BY PollAssumption DEF WindowInv, SourceInv
  <1>1. CASE Produce \/ Truncate \/ PollShutdown \/ PollCloseChannel
    <2>1. UNCHANGED <<cfg, cur, batch, sent, ppc>>
      BY <1>1, EnvFrame
    <2>2. made' \in Nat /\ made' >= made
      BY <1>0, <1>1 DEF Produce, Truncate, PollShutdown, PollCloseChannel, sourceVars
    <2>3. ppc = "poll" => \A r \in Records : sent[r] > 0 => r + Interval <= made'
      BY <1>0, <2>2 DEF WindowInv, Records
    <2>4. ppc = "read" => \E a \in Nat : /\ Run(batch, a) /\ NotSentAbove(a)
                                         /\ a + Len(batch) <= made'
      <3> SUFFICES ASSUME ppc = "read"
                   PROVE  \E a \in Nat : /\ Run(batch, a) /\ NotSentAbove(a)
                                         /\ a + Len(batch) <= made'
        OBVIOUS
      <3>1. PICK a \in Nat : Run(batch, a) /\ NotSentAbove(a) /\ a + Len(batch) <= made
        BY DEF WindowInv
      <3>2. Len(batch) \in Nat
        BY <3>1 DEF Run
      <3>3. a + Len(batch) <= made'
        BY <1>0, <2>2, <3>1, <3>2
      <3> QED
        BY <3>1, <3>3
    <2> QED
      BY <1>0, <2>1, <2>3, <2>4 DEF WindowInv, Once, NotSentAbove, Run
  <1>2. CASE PollRestart
    BY <1>2 DEF PollRestart
  <1>3. CASE Wait
    <2>1. /\ sent' = sent /\ cfg' = cfg /\ made' = made /\ ppc = "wait"
          /\ \/ ppc' = "poll" /\ made >= cur
             \/ ppc' = "stopped"
          /\ cur' = IF ppc' = "poll" THEN 0 ELSE cur
      BY <1>3 DEF Wait, sendVars, runVars, sourceVars
    <2>2. ppc' = "poll" => \A r \in Records : sent[r] > 0 => r + Interval <= made
      BY <1>0, <2>1 DEF WindowInv, Records
    <2> QED
      BY <1>0, <2>1, <2>2 DEF WindowInv, Once
  <1>4. CASE CloudwatchPoll
    <2>1. /\ sent' = sent /\ cur' = cur /\ made' = made /\ ppc = "poll" /\ ppc' = "read"
          /\ \/ batch' = Slice({i \in DOMAIN content : content[i] + Interval > made})
             \/ batch' = <<>>
      BY <1>4 DEF CloudwatchPoll, sendVars, sourceVars
    <2>2. PICK a \in Nat : a = IF made > Interval THEN made - Interval ELSE 0
      <3>1. CASE made > Interval
        BY <1>0, <3>1
      <3>2. CASE ~(made > Interval)
        BY <3>2
      <3> QED
        BY <3>1, <3>2
    <2>3. NotSentAbove(a)
      BY <1>0, <2>1, <2>2 DEF WindowInv, NotSentAbove, Records
    <2>4. a <= made
      BY <1>0, <2>2
    <2>5. Run(content, 0) /\ Len(content) = made
          /\ DOMAIN content = 1 .. made /\ \A i \in 1 .. made : content[i] = i
      <3>1. Run(content, 0) /\ Len(content) = made /\ ~truncated
        BY DEF SourceInv
      <3> QED
        BY <1>0, <3>1 DEF Run
    <2>6. {i \in DOMAIN content : content[i] + Interval > made} = a + 1 .. made
      BY <1>0, <2>2, <2>5
    <2>7. Run(Slice(a + 1 .. made), a)
          /\ Len(Slice(a + 1 .. made)) = IF made > a THEN made - a ELSE 0
      <3>1. made <= Len(content)
        BY <1>0, <2>5
      <3> QED
        BY <1>0, <2>5, <3>1, SliceRun
    <2>8. Run(<<>>, a) /\ Len(<<>>) = 0
      BY DEF Run
    <2>9. Run(batch', a) /\ a + Len(batch') <= made
      <3>1. CASE batch' = <<>>
        BY <1>0, <2>4, <2>8, <3>1
      <3>2. CASE batch' = Slice(a + 1 .. made)
        <4>1. a + (IF made > a THEN made - a ELSE 0) <= made
          BY <1>0, <2>4
        <4> QED
          BY <2>7, <3>2, <4>1
      <3> QED
        BY <2>1, <2>6, <3>1, <3>2
    <2> QED
      BY <1>0, <2>1, <2>3, <2>9 DEF WindowInv, Once, NotSentAbove, Run
  <1>5. CASE CloudwatchEmit
    <2>1. ppc = "read" /\ made' = made
      BY <1>5 DEF CloudwatchEmit, sourceVars
    <2>2. PICK a \in Nat : Run(batch, a) /\ NotSentAbove(a) /\ a + Len(batch) <= made
      BY <2>1 DEF WindowInv
    <2>3. Len(batch) \in Nat
      BY <2>2 DEF Run
    <2>4. CASE batch = <<>>
      <3>1. cur' = made + Interval /\ ppc' = "wait" /\ sent' = sent
        BY <1>5, <2>4 DEF CloudwatchEmit, sendVars
      <3>2. \A r \in Records : sent[r] > 0 => r + Interval <= made + Interval
        BY <1>0, <2>2, <2>3 DEF NotSentAbove, Records
      <3> QED
        BY <1>0, <3>1, <3>2 DEF WindowInv, Once
    <2>5. CASE batch # <<>>
      <3>1. /\ Send(Head(batch)) /\ batch' = Tail(batch) /\ cur' = cur
            /\ ppc' = IF popen THEN "read" ELSE "stopped"
        BY <1>5, <2>5 DEF CloudwatchEmit
      <3>2. /\ Send(a + 1) /\ Run(Tail(batch), a + 1) /\ a + 1 \in Nat
            /\ Len(Tail(batch)) = Len(batch) - 1
        BY <2>2, <2>5, <3>1, RunTail
      <3>3. Once' /\ NotSentAbove(a + 1)'
        BY <1>0, <2>2, <3>2, SendHead
      <3>4. Run(batch, a + 1)' /\ a + 1 + Len(batch') <= made
        <4>1. a + 1 + (Len(batch) - 1) = a + Len(batch)
          BY <2>3
        <4> QED
          BY <2>2, <3>1, <3>2, <4>1 DEF Run
      <3> QED
        BY <1>0, <2>1, <3>1, <3>2, <3>3, <3>4 DEF WindowInv
    <2> QED
      BY <2>4, <2>5
  <1> QED
    BY <1>1, <1>2, <1>3, <1>4, <1>5, Kinds DEF PollNext, PollStep

\* A send of the line after n.
LEMMA SendLine ==
  ASSUME SourceInv, Once, NEW n \in Nat, NotSentAbove(n), LineCovered(n), Send(n + 1)
  PROVE  Once' /\ NotSentAbove(n + 1)' /\ LineCovered(n + 1)'
  <1>1. Once' /\ NotSentAbove(n + 1)'
    BY SendHead
  <1>2. ever \subseteq ever' /\ refused \subseteq refused'
        /\ (popen => n + 1 \in ever') /\ (~popen => n + 1 \in refused')
    BY SendFacts
  <1>3. n + 1 \in ever' \union refused'
    BY <1>2
  <1>4. \A r \in Records : r <= n + 1 => r <= n \/ r = n + 1
    BY DEF Records
  <1>5. \A r \in Records : r <= n + 1 => r \in ever' \union refused'
    BY <1>2, <1>3, <1>4 DEF LineCovered
  <1> QED
    BY <1>1, <1>5 DEF LineCovered

\* file: the offset follows the lines read, and the sincedb the offset.
LEMMA SincedbStep == SourceInv /\ SincedbInv /\ PollNext => SincedbInv'
  <1> SUFFICES ASSUME SourceInv, SincedbInv, PollNext PROVE SincedbInv'
    OBVIOUS
  <1>a. cfg' = cfg /\ (truncated => truncated')
    <2>1. Produce \/ Truncate \/ PollShutdown \/ PollCloseChannel \/ PollRestart
          => cfg' = cfg /\ (truncated => truncated')
      BY DEF Produce, Truncate, PollShutdown, PollCloseChannel, PollRestart,
             sourceVars, runVars
    <2>2. PollStep => cfg' = cfg /\ (truncated => truncated')
      BY StepFrame
    <2> QED
      BY <2>1, <2>2 DEF PollNext
  <1> SUFFICES ASSUME cfg.kind = "file", cfg.start = "beginning", ~truncated, ~truncated'
               PROVE  SincedbInv'
    BY <1>a DEF SincedbInv
  <1> DEFINE Fits(p) == p \in Nat /\ (p # NoPos => p <= made)
             From(p) == IF p # NoPos THEN p ELSE 0
             Body == /\ Once /\ Fits(pos) /\ Fits(disk)
                     /\ disk # NoPos => LineCovered(disk)
                     /\ IF ppc = "read"
                        THEN /\ cur \in Nat /\ batch = <<From(pos)>>
                             /\ From(pos) <= cur /\ cur <= made
                             /\ LineCovered(cur) /\ NotSentAbove(cur)
                        ELSE LineCovered(From(pos)) /\ NotSentAbove(From(pos))
  <1>0. /\ made \in Nat /\ NumRecords \in Nat /\ made <= NumRecords /\ NoPos \in Nat
        /\ Run(content, 0) /\ Len(content) = made
        /\ \A r \in Records : r \in Nat /\ sent[r] \in Nat /\ r > 0
    BY PollAssumption DEF SourceInv, NoPos, Records
  <1>1. FileOffset = From(pos) /\ FileOffset' = From(pos')
    BY <1>a DEF FileOffset
  <1>2. Body
    BY <1>1 DEF SincedbInv
  <1>3. Body' => SincedbInv'
    BY <1>1, <1>a DEF SincedbInv
  <1>4. From(pos) \in Nat /\ From(pos) <= made
    BY <1>0, <1>2
  <1>5. CASE Produce \/ PollShutdown \/ PollCloseChannel
    <2>1. UNCHANGED <<pos, disk, cur, batch, sent, ever, refused, ppc>>
      BY <1>5, EnvFrame
    <2>2. made' \in Nat /\ made' >= made
      BY <1>0, <1>5 DEF Produce, PollShutdown, PollCloseChannel, sourceVars
    <2>3. \A n \in Nat : n <= made => n <= made'
      BY <1>0, <2>2
    <2> QED
      BY <1>2, <1>3, <2>1, <2>3 DEF Once, LineCovered, NotSentAbove
  <1>6. CASE Truncate
    BY <1>6 DEF Truncate
  <1>7. CASE PollRestart
    <2>1. /\ pos' = disk /\ disk' = disk /\ ppc' = "poll" /\ made' = made
          /\ ever' = ever /\ refused' = refused /\ \A r \in Records : sent'[r] = 0
      BY <1>7 DEF PollRestart, LoadPosition, sourceVars
    <2>2. Once' /\ NotSentAbove(From(disk))'
      BY <1>0, <1>2, <2>1 DEF Once, NotSentAbove
    <2>3. LineCovered(From(disk))
      BY <1>0, <1>2 DEF LineCovered
    <2> QED
      BY <1>2, <1>3, <2>1, <2>2, <2>3 DEF LineCovered, NotSentAbove
  <1>8. CASE Wait
    <2>1. UNCHANGED <<made, pos, disk, sent, ever, refused>> /\ ppc = "wait" /\ ppc' # "read"
      BY <1>8 DEF Wait, sourceVars, sendVars
    <2> QED
      BY <1>2, <1>3, <2>1 DEF Once, LineCovered, NotSentAbove
  <1>9. CASE FileOpen
    <2>1. /\ UNCHANGED <<made, pos, disk, sent, ever, refused>> /\ ppc = "poll"
          /\ \/ /\ cur' = IF FileOffset > Len(content) THEN 0 ELSE FileOffset
                /\ batch' = <<FileOffset>> /\ ppc' = "read"
             \/ ppc' = "save"
      BY <1>9 DEF FileOpen, sourceVars, sendVars
    <2>2. ppc' = "read" => cur' = From(pos) /\ batch' = <<From(pos)>>
      BY <1>0, <1>1, <1>4, <2>1
    <2> QED
      BY <1>2, <1>3, <1>4, <2>1, <2>2 DEF Once, LineCovered, NotSentAbove
  <1>10. CASE FileReadLine
    <2>0. /\ UNCHANGED <<made, disk, batch>> /\ ppc = "read"
          /\ cur \in Nat /\ batch = <<From(pos)>> /\ From(pos) <= cur /\ cur <= made
          /\ LineCovered(cur) /\ NotSentAbove(cur) /\ Once
      BY <1>2, <1>10 DEF FileReadLine, sourceVars
    <2>a. ever \subseteq ever' /\ refused \subseteq refused'
      BY <1>10, StepFrame DEF PollStep
    <2>b. disk' # NoPos => LineCovered(disk)'
      BY <1>2, <2>0, <2>a DEF LineCovered
    <2>c. PICK n \in Nat : n = cur
      BY <2>0
    <2>d. PICK o \in Nat : o = From(pos)
      BY <1>4
    <2>e. n <= made /\ o <= n /\ LineCovered(n) /\ NotSentAbove(n) /\ batch = <<o>>
      BY <2>0, <2>c, <2>d
    <2>1. CASE cur < Len(content) /\ Send(content[cur + 1]) /\ cur' = cur + 1
               /\ IF popen THEN ppc' = "read" /\ UNCHANGED pos
                           ELSE ppc' = "save" /\ pos' = cur + 1
      <3>1. Send(n + 1) /\ n + 1 <= made
        <4>1. n + 1 \in 1 .. Len(content) /\ n + 1 <= made
          BY <1>0, <2>c, <2>1
        <4>2. content[n + 1] = 0 + (n + 1)
          BY <1>0, <4>1 DEF Run
        <4>3. content[cur + 1] = n + 1
          BY <2>c, <4>2
        <4> QED
          BY <2>1, <4>1, <4>3
      <3>2. Once' /\ NotSentAbove(n + 1)' /\ LineCovered(n + 1)'
        BY <2>0, <2>e, <3>1, SendLine
      <3>3. cur' = n + 1
        BY <2>1, <2>c
      <3>4. CASE popen
        <4>1. ppc' = "read" /\ pos' = pos /\ From(pos') = o /\ o <= n + 1
          BY <2>1, <2>d, <2>e, <3>4
        <4> QED
          BY <1>2, <1>3, <2>0, <2>b, <2>e, <3>1, <3>2, <3>3, <4>1
      <3>5. CASE ~popen
        <4>1. ppc' = "save" /\ pos' = n + 1 /\ n + 1 # NoPos
          BY <1>0, <2>1, <2>c, <3>1, <3>5 DEF NoPos
        <4>2. From(pos') = n + 1
          BY <4>1
        <4> QED
          BY <1>2, <1>3, <2>0, <2>b, <3>1, <3>2, <4>1, <4>2
      <3> QED
        BY <3>4, <3>5
    <2>2. CASE /\ pos' = (IF cur # batch[1] THEN cur ELSE pos)
               /\ ppc' = "save" /\ UNCHANGED <<cur, sendVars>>
      <3>1. batch[1] = o /\ n # NoPos
        BY <1>0, <2>e DEF NoPos
      <3>2. From(pos') = n /\ Fits(pos')
        BY <1>2, <2>c, <2>d, <2>e, <2>2, <3>1
      <3>3. Once' /\ LineCovered(n)' /\ NotSentAbove(n)'
        BY <2>0, <2>2, <2>e DEF Once, LineCovered, NotSentAbove, sendVars
      <3> QED
        BY <1>2, <1>3, <2>0, <2>b, <2>2, <3>2, <3>3
    <2> QED
      BY <1>10, <2>1, <2>2 DEF FileReadLine
  <1>11. CASE SaveSincedb
    <2>1. /\ UNCHANGED <<made, pos, sent, ever, refused>>
          /\ disk' = NoPos \/ disk' = disk
          /\ ppc # "read" /\ ppc' # "read"
      BY <1>11 DEF SaveSincedb, sourceVars, sendVars
    <2> QED
      BY <1>0, <1>2, <1>3, <2>1 DEF Once, LineCovered, NotSentAbove
  <1>12. CASE WriteSincedb
    <2>1. /\ UNCHANGED <<made, pos, sent, ever, refused>>
          /\ disk' = pos \/ disk' = disk
          /\ ppc # "read" /\ ppc' # "read"
      BY <1>12 DEF WriteSincedb, sourceVars, sendVars
    <2> QED
      BY <1>0, <1>2, <1>3, <2>1 DEF Once, LineCovered, NotSentAbove
  <1> QED
    BY <1>5, <1>6, <1>7, <1>8, <1>9, <1>10, <1>11, <1>12, Kinds DEF PollNext, PollStep

\* The rows above a position.
LEMMA AfterRun ==
  ASSUME NEW k \in Nat, made \in Nat, Run(content, 0), Len(content) = made
  PROVE  /\ Run(After(k), k)
         /\ Len(After(k)) = IF made > k THEN made - k ELSE 0
  <1>1. DOMAIN content = 1 .. made /\ \A i \in 1 .. made : content[i] = i
    BY DEF Run
  <1>2. {i \in DOMAIN content : content[i] > k} = k + 1 .. made
    BY <1>1
  <1>3. made <= Len(content)
    OBVIOUS
  <1>4. /\ Run(Slice(k + 1 .. made), k)
        /\ Len(Slice(k + 1 .. made)) = IF made > k THEN made - k ELSE 0
    BY <1>3, SliceRun
  <1> QED
    BY <1>2, <1>4 DEF After

\* jdbc, the steps that send and save nothing.
LEMMA RowsFrame ==
  ASSUME cfg.kind = "jdbc",
         Produce \/ Truncate \/ PollShutdown \/ PollCloseChannel \/ Wait
  PROVE  /\ UNCHANGED <<cfg, pos, disk, best, more, batch, sent, ever>>
         /\ \/ ppc' = ppc /\ cur' = cur
            \/ ppc = "wait" /\ ppc' = "poll" /\ cur' = 0
            \/ ppc = "wait" /\ ppc' = "stopped" /\ cur' = cur
  <1>1. CASE Wait
    BY <1>1 DEF Wait, sendVars, runVars
  <1>2. CASE Produce \/ Truncate \/ PollShutdown \/ PollCloseChannel
    BY <1>2, EnvFrame
  <1> QED
    BY <1>1, <1>2

\* jdbc in the order of the tracked column: the rows are sent one after the
\* other, over pages and over cycles.
LEMMA TrackedStep ==
  ASSUME SourceInv, RowsInv, TrackedInv, PollNext, cfg' = cfg,
         cfg.kind = "jdbc", cfg.track, cfg.order = "tracked"
  PROVE  RowsInv' /\ TrackedInv'
  <1>0. /\ {pos, disk, cur, best} \subseteq Nat /\ Covered(disk) /\ Once
        /\ made \in Nat /\ NumRecords \in Nat /\ PageSize \in Nat /\ PageSize > 0
        /\ Run(content, 0) /\ Len(content) = made
        /\ sent \in [Records -> Nat]
        /\ \A r \in Records : r \in Nat /\ r > 0
    BY PollAssumption DEF SourceInv, RowsInv, StableOrder, Records
  <1>1. RowsInv' <=> ({pos, disk, cur, best} \subseteq Nat /\ Covered(disk) /\ Once)'
    BY DEF RowsInv, StableOrder
  <1>2. ppc # "stopped" =>
          /\ Covered(Top) /\ NotSentAbove(Top)
          /\ ppc = "poll" => Top = pos + cur /\ (~cfg.paged => cur = 0)
          /\ ppc = "read" => /\ Run(batch, Top)
                             /\ more => cfg.paged /\ Top + Len(batch) = pos + cur
          /\ ppc = "wait" => best = 0
    BY DEF TrackedInv
  <1>3. TrackedInv' <=>
          (ppc # "stopped" =>
             /\ Covered(Top) /\ NotSentAbove(Top)
             /\ ppc = "poll" => Top = pos + cur /\ (~cfg.paged => cur = 0)
             /\ ppc = "read" => /\ Run(batch, Top)
                                /\ more => cfg.paged /\ Top + Len(batch) = pos + cur
             /\ ppc = "wait" => best = 0)'
    BY DEF TrackedInv
  <1>4. PICK t \in Nat : t = Top
    BY <1>0 DEF Top
  <1>5. CASE Produce \/ Truncate \/ PollShutdown \/ PollCloseChannel \/ Wait
    <2>1. /\ UNCHANGED <<cfg, pos, disk, best, more, batch, sent, ever>>
          /\ \/ ppc' = ppc /\ cur' = cur
             \/ ppc = "wait" /\ ppc' = "poll" /\ cur' = 0
             \/ ppc = "wait" /\ ppc' = "stopped" /\ cur' = cur
      BY <1>5, RowsFrame
    <2>2. Top' = Top
      BY <2>1 DEF Top
    <2>3. RowsInv'
      BY <1>0, <1>1, <2>1 DEF Covered, Once
    <2>4. ppc' = "poll" /\ ppc = "wait" => Top = pos + 0
      BY <1>0, <1>2 DEF Top
    <2> QED
      BY <1>2, <1>3, <2>1, <2>2, <2>3, <2>4 DEF Covered, NotSentAbove, Run
  <1>6. CASE PollRestart
    <2>1. /\ pos' = 0 \/ pos' = disk
          /\ disk' = disk /\ cur' = 0 /\ best' = 0 /\ ppc' = "poll" /\ ever' = ever
          /\ \A r \in Records : sent'[r] = 0
      BY <1>6 DEF PollRestart, LoadPosition
    <2>2. RowsInv'
      BY <1>0, <1>1, <2>1 DEF Covered, Once
    <2>3. Top' = pos' /\ pos' \in Nat /\ pos' + 0 = pos'
      BY <1>0, <2>1 DEF Top
    <2>4. NotSentAbove(Top)'
      BY <2>1 DEF NotSentAbove
    <2>5. Covered(Top)'
      BY <1>0, <2>1, <2>3 DEF Covered
    <2> QED
      BY <1>3, <2>1, <2>2, <2>3, <2>4, <2>5
  <1>7. CASE JdbcQuery
    <2>1. UNCHANGED <<made, content, pos, disk, best, sent, ever>> /\ ppc = "poll"
      BY <1>7 DEF JdbcQuery, sourceVars, sendVars
    <2>2. Top' = Top /\ Top = pos + cur /\ (~cfg.paged => cur = 0)
      BY <1>2, <2>1 DEF Top
    <2>3. Covered(Top)' /\ NotSentAbove(Top)'
      BY <1>2, <2>1, <2>2 DEF Covered, NotSentAbove
    <2> DEFINE n == IF cur + PageSize < Len(Rows) THEN cur + PageSize ELSE Len(Rows)
               page == IF cfg.paged THEN SubSeq(Rows, cur + 1, n) ELSE Rows
    <2>a. \/ UNCHANGED <<batch, more, cur>> /\ ppc' = "save"
          \/ /\ batch' = page /\ more' = (cfg.paged /\ Len(page) = PageSize)
             /\ cur' = cur + PageSize /\ ppc' = "read"
      BY <1>7 DEF JdbcQuery
    <2>4. CASE UNCHANGED <<batch, more, cur>> /\ ppc' = "save"
      <3>1. RowsInv'
        BY <1>0, <1>1, <2>1, <2>4 DEF Covered, Once
      <3> QED
        BY <1>3, <2>3, <2>4, <3>1
    <2>5. CASE /\ batch' = page /\ more' = (cfg.paged /\ Len(page) = PageSize)
               /\ cur' = cur + PageSize /\ ppc' = "read"
      <3>1. /\ batch' = page /\ cur' = cur + PageSize /\ ppc' = "read"
            /\ more' => cfg.paged /\ Len(batch') = PageSize
        BY <2>5
      <3>2. Rows = After(pos)
        BY DEF Rows
      <3>3. Run(Rows, pos) /\ Len(Rows) \in Nat
        <4>1. Run(After(pos), pos)
          BY <1>0, AfterRun
        <4> QED
          BY <3>2, <4>1 DEF Run
      <3>4. n \in Nat /\ n <= Len(Rows)
        BY <1>0, <3>3
      <3>b. page = IF cfg.paged THEN SubSeq(Rows, cur + 1, n) ELSE Rows
        OBVIOUS
      <3> HIDE DEF n, page
      <3>5. /\ Run(SubSeq(Rows, cur + 1, n), pos + cur)
            /\ Len(SubSeq(Rows, cur + 1, n)) = IF n > cur THEN n - cur ELSE 0
        BY <1>0, <3>3, <3>4, RunPart
      <3>6. RowsInv'
        BY <1>0, <1>1, <2>1, <3>1 DEF Covered, Once
      <3>7. Run(batch', pos + cur)
        <4>1. CASE cfg.paged
          BY <3>1, <3>5, <3>b, <4>1
        <4>2. CASE ~cfg.paged
          <5>1. pos + cur = pos
            BY <1>0, <2>2, <4>2
          <5> QED
            BY <3>1, <3>3, <3>b, <4>2, <5>1
        <4> QED
          BY <4>1, <4>2
      <3>8. Run(batch, Top)'
        BY <2>2, <3>7 DEF Run
      <3>9. more' => cfg.paged /\ Top' + Len(batch') = pos' + cur'
        <4>1. pos + cur + PageSize = pos + (cur + PageSize)
          BY <1>0
        <4> QED
          BY <2>1, <2>2, <3>1, <4>1
      <3> QED
        BY <1>3, <2>3, <3>1, <3>6, <3>8, <3>9
    <2> QED
      BY <2>4, <2>5, <2>a
  <1>8. CASE EmitRow
    <2>1. /\ ppc = "read" /\ batch # <<>> /\ Send(Head(batch))
          /\ best' = IF Head(batch) > best THEN Head(batch) ELSE best
          /\ batch' = Tail(batch)
          /\ ppc' = IF popen THEN "read" ELSE "stopped"
          /\ UNCHANGED <<pos, disk, cur, more>>
      BY <1>8 DEF EmitRow
    <2>2. Run(batch, t) /\ NotSentAbove(t) /\ Covered(t)
      BY <1>2, <1>4, <2>1
    <2>3. /\ Head(batch) = t + 1 /\ Run(Tail(batch), t + 1) /\ Len(Tail(batch)) = Len(batch) - 1
          /\ Len(batch) \in Nat /\ Send(t + 1)
      <3>1. Head(batch) = t + 1 /\ Run(Tail(batch), t + 1) /\ Len(Tail(batch)) = Len(batch) - 1
        BY <2>1, <2>2, RunTail
      <3>2. Len(batch) \in Nat
        BY <2>2 DEF Run
      <3> QED
        BY <2>1, <3>1, <3>2
    <2>4. best' = t + 1
      BY <1>0, <1>4, <2>1, <2>3 DEF Top
    <2>5. Once' /\ NotSentAbove(t + 1)'
      BY <1>0, <2>2, <2>3, SendHead
    <2>6. ever \subseteq ever' /\ (popen => t + 1 \in ever')
      BY <2>3, SendFacts
    <2>7. RowsInv'
      BY <1>0, <1>1, <2>1, <2>4, <2>5, <2>6 DEF Covered
    <2>8. Top' = t + 1
      <3>1. t + 1 > 0
        OBVIOUS
      <3> QED
        BY <2>4, <3>1 DEF Top
    <2>9. CASE popen
      <3>1. \A r \in Records : r <= t + 1 => r <= t \/ r = t + 1
        BY <1>0
      <3>2. Covered(t + 1)'
        BY <2>2, <2>6, <2>9, <3>1 DEF Covered
      <3>3. Run(batch, t + 1)'
        BY <2>1, <2>3 DEF Run
      <3>4. more' => cfg.paged /\ (t + 1) + Len(batch') = pos' + cur'
        BY <1>0, <1>2, <1>4, <2>1, <2>3
      <3> QED
        BY <1>3, <2>1, <2>5, <2>7, <2>8, <2>9, <3>2, <3>3, <3>4
    <2>10. CASE ~popen
      BY <1>3, <2>1, <2>7, <2>10
    <2> QED
      BY <2>9, <2>10
  <1>9. CASE JdbcNextPage
    <2>1. /\ UNCHANGED <<pos, disk, cur, best, more, batch, sent, ever>>
          /\ ppc = "read" /\ batch = <<>> /\ ppc' = IF more THEN "poll" ELSE "save"
      BY <1>9 DEF JdbcNextPage, cycleVars, sendVars
    <2>2. Top' = Top /\ (more => Top + 0 = pos + cur /\ cfg.paged)
      BY <1>2, <2>1 DEF Top
    <2>3. RowsInv'
      BY <1>0, <1>1, <2>1 DEF Covered, Once
    <2> QED
      BY <1>2, <1>3, <1>4, <2>1, <2>2, <2>3 DEF Covered, NotSentAbove
  <1>10. CASE PersistLastValue
    <2>1. /\ ppc = "save" /\ ppc' = "wait" /\ best' = 0 /\ pos' = Top
          /\ disk' = (IF best > 0 THEN best ELSE disk) \/ disk' = disk
          /\ UNCHANGED <<cur, sent, ever>>
      BY <1>10 DEF PersistLastValue, Top, sendVars
    <2>2. Covered(Top) /\ NotSentAbove(Top) /\ Covered(disk')
      BY <1>0, <1>2, <2>1 DEF Top
    <2>3. Top' = Top
      BY <2>1 DEF Top
    <2>4. RowsInv'
      BY <1>0, <1>1, <1>4, <2>1, <2>2 DEF Covered, Once
    <2> QED
      BY <1>3, <2>1, <2>2, <2>3, <2>4 DEF Covered, NotSentAbove
  <1> QED
    BY <1>5, <1>6, <1>7, <1>8, <1>9, <1>10, Kinds DEF PollNext, PollStep

\* jdbc in the opposite order: a cycle sends the rows above sql_last_value
\* from the greatest down, and the position moves when the last was sent.
LEMMA DescendingStep ==
  ASSUME SourceInv, RowsInv, DescendingInv, PollNext, cfg' = cfg,
         cfg.kind = "jdbc", cfg.track, cfg.order # "tracked", ~cfg.paged
  PROVE  RowsInv' /\ DescendingInv'
  <1> DEFINE Apart == \A r \in Records :
                        /\ sent[r] > 0 => r <= pos \/ (pos + Len(batch) < r /\ r <= best)
                        /\ r <= best => r \in ever \/ (pos < r /\ r <= pos + Len(batch))
             Falls == \A j \in 1 .. Len(batch) : batch[j] = pos + Len(batch) - j + 1
             Body == /\ ppc \in {"poll", "save", "wait"} => batch = <<>>
                     /\ ppc \in {"poll", "wait"} => best = 0
                     /\ more = FALSE
                     /\ Covered(pos)
                     /\ best > 0 => best > pos
                     /\ batch \in Seq(Nat)
                     /\ Falls
                     /\ Apart
  <1>0. /\ pos \in Nat /\ disk \in Nat /\ cur \in Nat /\ best \in Nat /\ Covered(disk) /\ Once
        /\ made \in Nat /\ NumRecords \in Nat /\ PageSize \in Nat /\ PageSize > 0
        /\ Run(content, 0) /\ Len(content) = made
        /\ sent \in [Records -> Nat]
        /\ \A r \in Records : r \in Nat /\ r > 0
    <2>1. StableOrder
      BY DEF StableOrder
    <2>2. {pos, disk, cur, best} \subseteq Nat /\ Covered(disk) /\ Once
      BY <2>1 DEF RowsInv
    <2>3. /\ made \in Nat /\ sent \in [Records -> Nat]
          /\ Run(content, 0) /\ Len(content) = made
      BY DEF SourceInv
    <2>4. NumRecords \in Nat /\ PageSize \in Nat /\ PageSize > 0
      BY PollAssumption
    <2>5. \A r \in Records : r \in Nat /\ r > 0
      BY DEF Records
    <2> QED
      BY <2>2, <2>3, <2>4, <2>5
  <1>1. RowsInv' <=> ({pos, disk, cur, best} \subseteq Nat /\ Covered(disk) /\ Once)'
    BY DEF RowsInv, StableOrder
  <1>2. ppc # "stopped" => Body
    BY DEF DescendingInv
  <1>3. (ppc' # "stopped" => Body') => DescendingInv'
    BY DEF DescendingInv
  <1>5. CASE Produce \/ Truncate \/ PollShutdown \/ PollCloseChannel \/ Wait
    <2>1. /\ UNCHANGED <<cfg, pos, disk, best, more, batch, sent, ever>>
          /\ \/ ppc' = ppc /\ cur' = cur
             \/ ppc = "wait" /\ ppc' = "poll" /\ cur' = 0
             \/ ppc = "wait" /\ ppc' = "stopped" /\ cur' = cur
      BY <1>5, RowsFrame
    <2>2. RowsInv'
      BY <1>0, <1>1, <2>1 DEF Covered, Once
    <2>3. Body /\ ppc' # "stopped" => Body'
      <3>1. ppc' # "stopped" => ppc' = ppc \/ (ppc = "wait" /\ ppc' = "poll")
        BY <2>1
      <3> QED
        BY <2>1, <3>1 DEF Covered
    <2>4. ppc' # "stopped" => ppc # "stopped"
      BY <2>1
    <2> QED
      BY <1>2, <1>3, <2>2, <2>3, <2>4
  <1>6. CASE PollRestart
    <2>1. /\ pos' = 0 \/ pos' = disk
          /\ disk' = disk /\ cur' = 0 /\ best' = 0 /\ ppc' = "poll" /\ ever' = ever
          /\ batch' = <<>> /\ more' = FALSE
          /\ \A r \in Records : sent'[r] = 0
      BY <1>6 DEF PollRestart, LoadPosition
    <2>2. RowsInv'
      BY <1>0, <1>1, <2>1 DEF Covered, Once
    <2>3. Covered(pos)'
      BY <1>0, <2>1 DEF Covered
    <2>4. Apart' /\ Falls'
      BY <1>0, <2>1
    <2> QED
      BY <1>3, <2>1, <2>2, <2>3, <2>4
  <1>7. CASE JdbcQuery
    <2>1. UNCHANGED <<pos, disk, best, sent, ever>> /\ ppc = "poll"
      BY <1>7 DEF JdbcQuery, sendVars
    <2>2. Body /\ batch = <<>> /\ best = 0 /\ Len(batch) = 0
      BY <1>2, <2>1
    <2>3. RowsInv'
      <3>1. cur' \in Nat
        BY <1>0, <1>7 DEF JdbcQuery
      <3> QED
        BY <1>0, <1>1, <2>1, <3>1 DEF Covered, Once
    <2> DEFINE page == IF cfg.paged
                       THEN SubSeq(Rows, cur + 1, IF cur + PageSize < Len(Rows)
                                                  THEN cur + PageSize ELSE Len(Rows))
                       ELSE Rows
    <2>4. \/ UNCHANGED <<batch, more, cur>> /\ ppc' = "save"
          \/ batch' = page /\ more' = (cfg.paged /\ Len(page) = PageSize) /\ ppc' = "read"
      BY <1>7 DEF JdbcQuery
    <2>5. CASE UNCHANGED <<batch, more, cur>> /\ ppc' = "save"
      BY <1>3, <2>1, <2>2, <2>3, <2>5 DEF Covered
    <2>6. CASE batch' = page /\ more' = (cfg.paged /\ Len(page) = PageSize) /\ ppc' = "read"
      <3> DEFINE q == After(pos)
      <3>1. batch' = Reverse(q)
        BY <2>6 DEF Rows
      <3>2. more' = FALSE
        BY <2>6
      <3> HIDE DEF q
      <3>3. Run(q, pos)
        BY <1>0, AfterRun DEF q
      <3>4. q \in Seq(Nat) /\ Len(q) \in Nat /\ \A j \in 1 .. Len(q) : q[j] = pos + j
        BY <3>3 DEF Run
      <3>5. \A j \in 1 .. Len(q) : (Len(q) - j) + 1 \in 1 .. Len(q)
        BY <3>4
      <3>6. Reverse(q) \in Seq(Nat) /\ Len(Reverse(q)) = Len(q)
            /\ \A j \in 1 .. Len(q) : Reverse(q)[j] = q[(Len(q) - j) + 1]
        BY <3>4, <3>5 DEF Reverse
      <3>7. \A j \in 1 .. Len(q) : Reverse(q)[j] = pos + Len(q) - j + 1
        <4> TAKE j \in 1 .. Len(q)
        <4>1. q[(Len(q) - j) + 1] = pos + ((Len(q) - j) + 1)
          BY <3>4, <3>5
        <4>2. pos + ((Len(q) - j) + 1) = pos + Len(q) - j + 1
          BY <1>0, <3>4
        <4> QED
          BY <3>6, <4>1, <4>2
      <3>8. batch' \in Seq(Nat) /\ Falls'
        BY <2>1, <3>1, <3>6, <3>7
      <3>9. \A r \in Records : sent[r] > 0 => r <= pos
        BY <1>0, <2>2
      <3>10. Apart'
        BY <1>0, <2>1, <2>2, <3>9
      <3> QED
        BY <1>3, <2>1, <2>2, <2>3, <2>6, <3>2, <3>8, <3>10 DEF Covered
    <2> QED
      BY <2>4, <2>5, <2>6
  <1>8. CASE EmitRow
    <2>1. /\ ppc = "read" /\ batch # <<>> /\ Send(Head(batch))
          /\ best' = IF Head(batch) > best THEN Head(batch) ELSE best
          /\ batch' = Tail(batch)
          /\ ppc' = IF popen THEN "read" ELSE "stopped"
          /\ UNCHANGED <<pos, disk, cur, more>>
      BY <1>8 DEF EmitRow
    <2>2. Body
      BY <1>2, <2>1
    <2>3. PICK n \in Nat : n = Len(batch) - 1
      BY <2>1, <2>2
    <2>4. Len(batch) = n + 1 /\ batch[1] = Head(batch) /\ 1 \in 1 .. Len(batch)
      BY <2>1, <2>2, <2>3
    <2>5. Head(batch) = pos + n + 1
      <3>1. batch[1] = pos + Len(batch) - 1 + 1
        BY <2>2, <2>4
      <3> QED
        BY <1>0, <2>4, <3>1
    <2>6. PICK h \in Nat : h = pos + n + 1
      BY <1>0
    <2>7. Send(h) /\ Head(batch) = h
      BY <2>1, <2>5, <2>6
    <2>8. /\ batch' \in Seq(Nat) /\ Len(batch') = n
          /\ \A j \in 1 .. n : batch'[j] = batch[j + 1]
      BY <2>1, <2>2, <2>4
    <2>9. Falls'
      <3> SUFFICES ASSUME NEW j \in 1 .. n PROVE batch'[j] = pos + n - j + 1
        BY <2>1, <2>8
      <3>1. j + 1 \in 1 .. Len(batch)
        BY <2>4
      <3>2. batch[j + 1] = pos + Len(batch) - (j + 1) + 1
        BY <2>2, <3>1
      <3> QED
        BY <1>0, <2>4, <2>8, <3>2
    <2>10. \A r \in Records : sent[r] > 0 => r <= pos \/ (h < r /\ r <= best)
      BY <1>0, <2>2, <2>4, <2>6
    <2>11. \A r \in Records : r <= best => r \in ever \/ (pos < r /\ r <= h)
      BY <1>0, <2>2, <2>4, <2>6
    <2>12. best' \in Nat /\ best' >= best /\ best' >= h /\ (best' = best \/ best' = h)
      BY <1>0, <2>1, <2>7
    <2>13. /\ sent' \in [Records -> Nat]
           /\ \A q \in Records : q # h => sent'[q] = sent[q]
           /\ h \in Records /\ sent[h] = 0 => sent'[h] <= 1
           /\ ever \subseteq ever' /\ (popen => h \in ever')
      BY <2>7, SendFacts
    <2>14. h \in Records => sent[h] = 0
      BY <1>0, <2>6, <2>10
    <2>15. Once'
      BY <1>0, <2>13, <2>14 DEF Once
    <2>16. RowsInv'
      BY <1>0, <1>1, <2>1, <2>12, <2>13, <2>15 DEF Covered
    <2>17. ASSUME popen PROVE Body'
      <3>1. \A r \in Records : sent'[r] > 0 => r <= pos \/ (pos + n < r /\ r <= best')
        <4> TAKE r \in Records
        <4>1. CASE r = h
          BY <1>0, <2>6, <2>12, <4>1
        <4>2. CASE r # h
          <5>1. sent'[r] = sent[r]
            BY <2>13, <4>2
          <5> QED
            BY <1>0, <2>6, <2>10, <2>12, <5>1
        <4> QED
          BY <4>1, <4>2
      <3>2. \A r \in Records : r <= best' => r \in ever' \/ (pos < r /\ r <= pos + n)
        <4> SUFFICES ASSUME NEW r \in Records, r <= best', r \notin ever'
                     PROVE  pos < r /\ r <= pos + n
          OBVIOUS
        <4>1. r \notin ever /\ r # h /\ r \in Nat
          BY <1>0, <2>13, <2>17
        <4>2. ~(r <= pos)
          BY <2>2, <4>1 DEF Covered
        <4>3. r <= h
          BY <1>0, <2>11, <2>12, <4>1
        <4> QED
          BY <1>0, <2>6, <4>1, <4>2, <4>3
      <3>3. Apart'
        BY <2>1, <2>8, <3>1, <3>2
      <3>4. Covered(pos)'
        BY <2>1, <2>2, <2>13 DEF Covered
      <3>5. best' > pos
        BY <1>0, <2>6, <2>12
      <3>6. ppc' = "read"
        BY <2>1, <2>17
      <3> QED
        BY <2>1, <2>2, <2>8, <2>9, <3>3, <3>4, <3>5, <3>6
    <2>18. ~popen => ppc' = "stopped"
      BY <2>1
    <2> QED
      BY <1>3, <2>16, <2>17, <2>18
  <1>9. CASE JdbcNextPage
    <2>1. /\ UNCHANGED <<pos, disk, cur, best, more, batch, sent, ever>>
          /\ ppc = "read" /\ batch = <<>> /\ ppc' = IF more THEN "poll" ELSE "save"
      BY <1>9 DEF JdbcNextPage, cycleVars, sendVars
    <2>2. Body /\ ppc' = "save"
      BY <1>2, <2>1
    <2>3. RowsInv'
      BY <1>0, <1>1, <2>1 DEF Covered, Once
    <2> QED
      BY <1>3, <2>1, <2>2, <2>3 DEF Covered
  <1>10. CASE PersistLastValue
    <2>1. /\ ppc = "save" /\ ppc' = "wait" /\ best' = 0
          /\ pos' = IF best > 0 THEN best ELSE pos
          /\ disk' = (IF best > 0 THEN best ELSE disk) \/ disk' = disk
          /\ UNCHANGED <<cur, more, batch, sent, ever>>
      BY <1>10 DEF PersistLastValue, sendVars
    <2>2. Body /\ batch = <<>> /\ Len(batch) = 0
      BY <1>2, <2>1
    <2>3. Covered(best)
      BY <1>0, <2>2 DEF Covered
    <2>4. \A r \in Records : sent[r] > 0 => r <= pos'
      BY <1>0, <2>1, <2>2
    <2>5. Apart' /\ Falls'
      BY <1>0, <2>1, <2>2, <2>4
    <2>6. Covered(pos)' /\ Covered(disk)'
      BY <1>0, <2>1, <2>2, <2>3 DEF Covered
    <2>7. RowsInv'
      BY <1>0, <1>1, <2>1, <2>6 DEF Once
    <2>8. ~(best' > 0)
      BY <2>1
    <2> QED
      BY <1>3, <2>1, <2>2, <2>5, <2>6, <2>7, <2>8
  <1> QED
    BY <1>5, <1>6, <1>7, <1>8, <1>9, <1>10, Kinds DEF PollNext, PollStep

\* elasticsearch: the hits of a page follow the cursor, and the cursor moves
\* over a hit when it was sent.
LEMMA HitsStep ==
  ASSUME SourceInv, HitsInv, PollNext, cfg' = cfg,
         cfg.kind = "elasticsearch", cfg.track, ~cfg.ties
  PROVE  HitsInv'
  <1> DEFINE Body == /\ disk \in Nat /\ cur \in Nat /\ best \in Nat
                     /\ Covered(disk)
                     /\ ppc \in {"page", "read", "save"} =>
                          Covered(Cursor) /\ (best > 0 => best > disk)
                     /\ ppc \in {"page", "read"} => \E k \in Nat : seen = 1 .. k
                     /\ ppc = "page" => cur = best
                     /\ ppc = "read" => Run(batch, Cursor) /\ batch # <<>>
                                        /\ cur = Cursor + Len(batch)
  <1>0. /\ made \in Nat /\ NumRecords \in Nat
        /\ Run(content, 0) /\ Len(content) = made
        /\ sent \in [Records -> Nat]
        /\ \A r \in Records : r \in Nat /\ r > 0
    BY PollAssumption DEF SourceInv, Records
  <1>1. \A r : Value(r) = r
    BY DEF Value
  <1>2. Body
    BY DEF HitsInv
  <1>3. Body' => HitsInv'
    BY DEF HitsInv
  <1>4. PICK c \in Nat : c = Cursor
    BY <1>2 DEF Cursor
  <1>5. CASE Produce \/ Truncate \/ PollShutdown \/ PollCloseChannel \/ Wait
    <2>1. UNCHANGED <<disk, best, batch, seen, ever>>
      BY <1>5, EnvFrame DEF Wait, sendVars
    <2>2. \/ ppc' = ppc /\ cur' = cur
          \/ ppc' \in {"poll", "stopped"} /\ cur' \in Nat
      BY <1>2, <1>5, EnvFrame DEF Wait
    <2>3. Cursor' = Cursor
      BY <2>1 DEF Cursor
    <2>4. CASE ppc' = ppc /\ cur' = cur
      BY <1>2, <1>3, <2>1, <2>3, <2>4 DEF Covered, Run
    <2>5. CASE ppc' \in {"poll", "stopped"} /\ cur' \in Nat
      BY <1>2, <1>3, <2>1, <2>5 DEF Covered
    <2> QED
      BY <2>2, <2>4, <2>5
  <1>6. CASE PollRestart
    BY <1>2, <1>3, <1>6 DEF PollRestart, Covered
  <1>7. CASE EsOpenPit
    <2>1. /\ UNCHANGED <<disk, ever>> /\ cur' = 0 /\ best' = 0 /\ ppc' = "page"
          /\ seen' = Range(content) \/ seen' = Records
      BY <1>7 DEF EsOpenPit, sendVars
    <2>2. Range(content) = 1 .. made
      <3>1. DOMAIN content = 1 .. made /\ \A i \in 1 .. made : content[i] = i
        BY <1>0 DEF Run
      <3> QED
        BY <3>1 DEF Range
    <2>3. \E k \in Nat : seen' = 1 .. k
      BY <1>0, <2>1, <2>2 DEF Records
    <2>4. Cursor' = disk
      BY <2>1 DEF Cursor
    <2> QED
      BY <1>2, <1>3, <2>1, <2>3, <2>4 DEF Covered
  <1>8. CASE EsPage
    <2>1. ppc = "page" /\ UNCHANGED <<disk, ever>>
      BY <1>8 DEF EsPage, sendVars
    <2>2. PICK k \in Nat : seen = 1 .. k
      BY <1>2, <2>1
    <2>3. Covered(c) /\ cur = best /\ (best > 0 => best > disk)
      BY <1>2, <1>4, <2>1
    <2>4. Run(EsHits, c)
      <3> DEFINE I == {i \in DOMAIN content : content[i] \in seen /\ content[i] > cur
                                              /\ (cfg.track => Value(content[i]) > disk)}
      <3>1. EsHits = FirstPage(Slice(I))
        BY DEF EsHits
      <3>2. DOMAIN content = 1 .. made /\ \A i \in 1 .. made : content[i] = i
        BY <1>0 DEF Run
      <3>3. PICK m \in Nat : m <= made /\ m <= k /\ \A i \in Nat : i <= made /\ i <= k => i <= m
        <4>1. CASE made <= k
          BY <1>0, <4>1
        <4>2. CASE ~(made <= k)
          BY <1>0, <4>2
        <4> QED
          BY <4>1, <4>2
      <3>4. \A i \in 1 .. made : i > c <=> i > cur /\ i > disk
        BY <1>2, <1>4, <2>3 DEF Cursor
      <3>5. I = {i \in 1 .. made : i \in 1 .. k /\ i > cur /\ i > disk}
        BY <1>1, <2>2, <3>2
      <3>6. I = c + 1 .. m
        <4>1. \A i \in 1 .. made : i \in 1 .. k /\ i > cur /\ i > disk <=> i <= m /\ i > c
          <5> TAKE i \in 1 .. made
          <5>1. i \in Nat /\ (i > c <=> i > cur /\ i > disk)
            BY <1>0, <3>4
          <5>2. i \in 1 .. k <=> i <= m
            <6>1. i \in Nat /\ 1 <= i /\ i <= made
              BY <1>0
            <6>2. i <= k => i <= m
              BY <3>3, <6>1
            <6>3. i <= m => i <= k
              BY <3>3, <6>1
            <6> QED
              BY <6>1, <6>2, <6>3
          <5> QED
            BY <5>1, <5>2
        <4>2. I = {i \in 1 .. made : i <= m /\ i > c}
          BY <3>5, <4>1
        <4>3. {i \in 1 .. made : i <= m /\ i > c} = c + 1 .. m
          BY <1>0, <3>3
        <4> QED
          BY <4>2, <4>3
      <3> HIDE DEF I
      <3>7. Run(Slice(c + 1 .. m), c)
        <4>1. m <= Len(content)
          BY <1>0, <3>3
        <4> QED
          BY <1>0, <4>1, SliceRun
      <3>8. Run(FirstPage(Slice(c + 1 .. m)), c)
        BY <3>7, RunPage
      <3> QED
        BY <3>1, <3>6, <3>8
    <2>5. CASE ppc' = "read"
      <3>1. /\ batch' = EsHits /\ EsHits # <<>> /\ cur' = Last(EsHits)
            /\ best' = best /\ seen' = seen
        BY <1>8, <2>5 DEF EsPage
      <3>2. Len(EsHits) \in Nat /\ Len(EsHits) > 0 /\ EsHits[Len(EsHits)] = c + Len(EsHits)
        BY <2>4, <3>1 DEF Run
      <3>3. cur' = c + Len(EsHits) /\ c + Len(EsHits) \in Nat
        BY <3>1, <3>2 DEF Last
      <3>4. Cursor' = c
        BY <1>4, <2>1, <3>1 DEF Cursor
      <3>5. Run(batch', c)
        BY <2>4, <3>1
      <3>6. Covered(c)'
        BY <2>1, <2>3 DEF Covered
      <3>7. Covered(disk)' /\ (best' > 0 => best' > disk') /\ disk' \in Nat /\ best' \in Nat
        BY <1>2, <2>1, <2>3, <3>1 DEF Covered
      <3>8. \E j \in Nat : seen' = 1 .. j
        BY <2>2, <3>1
      <3>9. Covered(Cursor)' /\ Run(batch, Cursor)' /\ cur' = Cursor' + Len(batch')
            /\ batch' # <<>> /\ cur' \in Nat
        BY <3>1, <3>3, <3>4, <3>5, <3>6 DEF Covered, Run
      <3> QED
        BY <1>3, <2>5, <3>7, <3>8, <3>9
    <2>6. CASE ppc' # "read"
      <3>1. \/ ppc' = "save" /\ best' = best /\ cur' = cur
            \/ ppc' \in {"stopped", "wait"} /\ best' = 0 /\ cur' = cur
        BY <1>8, <2>6 DEF EsPage
      <3>2. CASE ppc' = "save" /\ best' = best /\ cur' = cur
        <4>1. Cursor' = c
          BY <1>4, <2>1, <3>2 DEF Cursor
        <4>2. Covered(Cursor)' /\ Covered(disk)'
          BY <1>2, <2>1, <2>3, <4>1 DEF Covered
        <4> QED
          BY <1>2, <1>3, <2>1, <2>3, <3>2, <4>2
      <3>3. CASE ppc' \in {"stopped", "wait"} /\ best' = 0 /\ cur' = cur
        BY <1>2, <1>3, <2>1, <3>3 DEF Covered
      <3> QED
        BY <3>1, <3>2, <3>3
    <2> QED
      BY <2>5, <2>6
  <1>9. CASE EsHit
    <2>1. /\ ppc = "read" /\ Send(Head(batch))
          /\ best' = (IF popen THEN Head(batch) ELSE best)
          /\ batch' = Tail(batch)
          /\ ppc' = CASE ~popen -> "save"
                      [] popen /\ Tail(batch) # <<>> -> "read"
                      [] OTHER -> IF more THEN "page" ELSE "save"
          /\ UNCHANGED <<disk, cur, seen>>
      BY <1>1, <1>9 DEF EsHit
    <2>2. /\ Run(batch, c) /\ batch # <<>> /\ cur = c + Len(batch) /\ Covered(c)
          /\ best > 0 => best > disk
      BY <1>2, <1>4, <2>1
    <2>3. /\ Head(batch) = c + 1 /\ Run(Tail(batch), c + 1) /\ Len(Tail(batch)) = Len(batch) - 1
      BY <2>2, RunTail
    <2>4. Len(batch) \in Nat /\ Tail(batch) \in Seq(Nat)
      BY <2>2, <2>3 DEF Run
    <2>5. ever \subseteq ever' /\ (popen => c + 1 \in ever')
      BY <2>1, <2>3, SendFacts
    <2>6. Covered(disk)' /\ disk' \in Nat /\ cur' \in Nat
      BY <1>2, <2>1, <2>5 DEF Covered
    <2>7. CASE ~popen
      <3>1. ppc' = "save" /\ best' = best
        BY <2>1, <2>7
      <3>2. Cursor' = c
        BY <1>4, <2>1, <3>1 DEF Cursor
      <3>3. Covered(Cursor)'
        BY <2>2, <2>5, <3>2 DEF Covered
      <3> QED
        BY <1>2, <1>3, <2>1, <2>2, <2>6, <3>1, <3>3
    <2>8. CASE popen
      <3>1. best' = c + 1 /\ c + 1 > 0
        BY <2>1, <2>3, <2>8
      <3>2. Cursor' = c + 1
        BY <3>1 DEF Cursor
      <3>3. c >= disk
        BY <1>2, <1>4, <2>2 DEF Cursor
      <3>4. best' \in Nat /\ best' > disk'
        <4>1. c + 1 > disk /\ c + 1 \in Nat
          BY <1>2, <3>3
        <4> QED
          BY <2>1, <3>1, <4>1
      <3>5. Covered(c + 1)'
        <4>1. \A r \in Records : r <= c + 1 => r <= c \/ r = c + 1
          BY <1>0
        <4> QED
          BY <2>2, <2>5, <2>8, <4>1 DEF Covered
      <3>6. Covered(Cursor)'
        BY <3>2, <3>5 DEF Covered
      <3>7. \E k \in Nat : seen' = 1 .. k
        BY <1>2, <2>1
      <3>8. ppc' = "read" => Run(batch, Cursor)' /\ batch' # <<>> /\ cur' = Cursor' + Len(batch')
        <4>1. ppc' = "read" => Tail(batch) # <<>>
          BY <2>1, <2>8
        <4>2. Run(batch', c + 1)
          BY <2>1, <2>3
        <4>3. cur' = (c + 1) + Len(batch')
          BY <2>1, <2>2, <2>3, <2>4
        <4> QED
          BY <2>1, <3>2, <4>1, <4>2, <4>3 DEF Run
      <3>9. ppc' = "page" => cur' = best'
        <4>1. ppc' = "page" => Tail(batch) = <<>>
          BY <2>1, <2>8
        <4>2. Tail(batch) = <<>> => Len(batch) = 1
          <5> SUFFICES ASSUME Tail(batch) = <<>> PROVE Len(batch) = 1
            OBVIOUS
          <5>1. Len(<<>>) = 0
            OBVIOUS
          <5>2. Len(Tail(batch)) = 0
            BY <5>1, Zenon
          <5>3. Len(batch) - 1 = 0
            BY <2>3, <5>2, Zenon
          <5> QED
            BY <2>4, <5>3
        <4> QED
          BY <2>1, <2>2, <3>1, <4>1, <4>2
      <3> QED
        BY <1>3, <2>6, <3>4, <3>6, <3>7, <3>8, <3>9
    <2> QED
      BY <2>7, <2>8
  <1>10. CASE EsSave
    <2>1. /\ ppc = "save" /\ best' = 0 /\ cur' = cur /\ ppc' \in {"stopped", "wait"}
          /\ disk' = Cursor \/ disk' = disk
          /\ ever' = ever
      BY <1>10 DEF EsSave, Cursor, sendVars
    <2>2. Covered(c) /\ disk' \in Nat
      BY <1>2, <1>4, <2>1
    <2>3. Covered(disk)'
      BY <1>2, <1>4, <2>1, <2>2 DEF Covered
    <2> QED
      BY <1>2, <1>3, <2>1, <2>2, <2>3
  <1> QED
    BY <1>5, <1>6, <1>7, <1>8, <1>9, <1>10, Kinds DEF PollNext, PollStep

\* One step of the inputs keeps the positions right.
LEMMA PositionStep == ASSUME PollSound PROVE PositionInv /\ [Next]_vars => PositionInv'
  <1> SUFFICES ASSUME PositionInv, [Next]_vars PROVE PositionInv'
    OBVIOUS
  <1>1. CASE UNCHANGED pollVars
    BY <1>1 DEF pollVars, PositionInv, SourceInv, KeyInv, EntryInv, WindowInv, SincedbInv,
                RowsInv, TrackedInv, DescendingInv, HitsInv, Run, Covered, NotSentAbove,
                Once, LineCovered, Top, Cursor, FileOffset, StableOrder
  <1>2. CASE PollNext
    <2>1. SourceInv /\ RowsInv /\ TrackedInv /\ DescendingInv /\ HitsInv
      BY DEF PositionInv
    <2>2. cfg' = cfg /\ cfg \in PollConfigs
      <3>1. PollRestart => cfg' = cfg
        BY DEF PollRestart
      <3> QED
        BY <1>2, <2>1, <3>1, StepFrame, EnvFrame DEF PollNext, SourceInv
    <2>3. SourceInv' /\ KeyInv' /\ EntryInv' /\ WindowInv' /\ SincedbInv'
      BY <1>2, SourceStep, KeyStep, EntryStep, WindowStep, SincedbStep DEF PositionInv
    <2>4. RowsInv' /\ TrackedInv' /\ DescendingInv'
      <3>1. CASE ~(cfg.kind = "jdbc" /\ cfg.track /\ StableOrder)
        BY <2>2, <3>1 DEF RowsInv, TrackedInv, DescendingInv, StableOrder
      <3>2. CASE cfg.kind = "jdbc" /\ cfg.track /\ cfg.order = "tracked"
        <4>1. RowsInv' /\ TrackedInv'
          BY <1>2, <2>1, <2>2, <3>2, TrackedStep
        <4>2. DescendingInv'
          BY <2>2, <3>2 DEF DescendingInv
        <4> QED
          BY <4>1, <4>2
      <3>3. CASE cfg.kind = "jdbc" /\ cfg.track /\ cfg.order # "tracked" /\ ~cfg.paged
        <4>1. RowsInv' /\ DescendingInv'
          BY <1>2, <2>1, <2>2, <3>3, DescendingStep
        <4>2. TrackedInv'
          BY <2>2, <3>3 DEF TrackedInv
        <4> QED
          BY <4>1, <4>2
      <3> QED
        BY <3>1, <3>2, <3>3 DEF StableOrder
    <2>5. HitsInv'
      <3>1. CASE cfg.kind = "elasticsearch" /\ cfg.track
        BY <1>2, <2>1, <2>2, <3>1, HitsStep DEF PollSound
      <3>2. CASE ~(cfg.kind = "elasticsearch" /\ cfg.track)
        BY <2>2, <3>2 DEF HitsInv
      <3> QED
        BY <3>1, <3>2
    <2> QED
      BY <2>3, <2>4, <2>5 DEF PositionInv
  <1>3. PollNext \/ UNCHANGED pollVars
    BY DEF Next, Broker, Poll, Listen, vars
  <1> QED
    BY <1>1, <1>2, <1>3

\* At the start nothing was read or sent.
LEMMA PositionInit == Init => PositionInv
  <1> SUFFICES ASSUME PollInit PROVE PositionInv
    BY DEF Init
  <1>1. /\ cfg \in PollConfigs /\ made = 0 /\ content = <<>> /\ truncated = FALSE
        /\ pos = (IF cfg.kind = "file" THEN NoPos ELSE 0) /\ disk = pos
        /\ cur = 0 /\ best = 0 /\ more = FALSE /\ batch = <<>> /\ ppc = "poll"
        /\ sent = [r \in Records |-> 0]
    BY DEF PollInit
  <1>2. NumRecords \in Nat /\ NoPos \in Nat /\ NoPos = NumRecords + 1
    BY PollAssumption DEF NoPos
  <1>3. \A r \in Records : r \in Nat /\ r > 0 /\ sent[r] = 0
    BY <1>1 DEF Records
  <1>4. \A a \in Nat : NotSentAbove(a)
    BY <1>3 DEF NotSentAbove
  <1>5. Covered(0) /\ LineCovered(0) /\ Once /\ Run(<<>>, 0) /\ Len(<<>>) = 0
    BY <1>3 DEF Covered, LineCovered, Once, Run
  <1>6. SourceInv
    BY <1>1, <1>2, <1>5 DEF SourceInv
  <1>7. KeyInv /\ EntryInv /\ WindowInv
    BY <1>1, <1>3, <1>4, <1>5 DEF KeyInv, EntryInv, WindowInv
  <1>8. SincedbInv
    <2>1. cfg.start = "beginning" /\ cfg.kind = "file" => FileOffset = 0
      BY <1>1 DEF FileOffset
    <2> QED
      BY <1>1, <1>2, <1>4, <1>5, <2>1 DEF SincedbInv
  <1>9. cfg.kind = "jdbc" => Top = 0 /\ Cursor = 0 /\ pos = 0 /\ disk = 0
    BY <1>1 DEF Top, Cursor
  <1>10. RowsInv /\ TrackedInv
    BY <1>1, <1>4, <1>5, <1>9 DEF RowsInv, TrackedInv
  <1>11. DescendingInv
    BY <1>1, <1>3, <1>5, <1>9 DEF DescendingInv
  <1>12. HitsInv
    BY <1>1, <1>5 DEF HitsInv
  <1> QED
    BY <1>6, <1>7, <1>8, <1>10, <1>11, <1>12 DEF PositionInv

LEMMA PositionInvariance == ASSUME PollSound PROVE Spec => []PositionInv
  BY PositionInit, PositionStep, PTL DEF Spec

\* The position that survives a restart never gets ahead of what was sent,
\* whatever fails and wherever a crash falls: the save comes after the sends
\* (file.rs 276, jdbc.rs 187, elasticsearch.rs 526).
THEOREM PositionCoversHolds == ASSUME PollSound PROVE Spec => []PositionCovers
  <1>1. PositionInv => PositionCovers
    <2> SUFFICES ASSUME PositionInv,
                        \/ cfg.kind = "file" /\ cfg.start = "beginning" /\ ~truncated /\ disk # NoPos
                        \/ cfg.kind = "jdbc" /\ cfg.track /\ StableOrder
                        \/ cfg.kind = "elasticsearch" /\ cfg.track,
                        NEW i \in DOMAIN content
                 PROVE  LET r == content[i]
                        IN  r \in ever \/ Position(r) > disk \/ (cfg.kind = "file" /\ r \in refused)
      BY DEF PositionCovers, Range
    <2>1. Run(content, 0) /\ Len(content) = made /\ made \in Nat /\ made <= NumRecords
          /\ NumRecords \in Nat /\ cfg \in PollConfigs
      BY PollAssumption DEF PositionInv, SourceInv
    <2>2. content[i] = i /\ i \in Nat /\ i \in Records
      BY <2>1 DEF Run, Records
    <2>3. Position(i) = i
      BY PollSound, <2>1 DEF Position, Value, PollSound
    <2>4. CASE cfg.kind = "file" /\ cfg.start = "beginning" /\ ~truncated /\ disk # NoPos
      <3>1. disk \in Nat /\ LineCovered(disk)
        BY <2>4 DEF PositionInv, SincedbInv
      <3> QED
        BY <2>2, <2>3, <2>4, <3>1 DEF LineCovered
    <2>5. CASE \/ cfg.kind = "jdbc" /\ cfg.track /\ StableOrder
               \/ cfg.kind = "elasticsearch" /\ cfg.track
      <3>1. disk \in Nat /\ Covered(disk)
        BY <2>5 DEF PositionInv, RowsInv, HitsInv
      <3> QED
        BY <2>2, <2>3, <3>1 DEF Covered
    <2> QED
      BY <2>4, <2>5
  <1> QED
    BY <1>1, PositionInvariance, PTL

\* Within one run no record is sent twice: s3 records a key before the delete
\* that may fail (s3.rs 367), the windows of cloudwatch do not overlap
\* (cloudwatch.rs 188), pages of jdbc do not (jdbc.rs 264), and file goes on
\* where it stopped (file.rs 265).
THEOREM SentOncePerRunHolds == ASSUME PollSound PROVE Spec => []SentOncePerRun
  <1>1. PositionInv => SentOncePerRun
    BY DEF PositionInv, KeyInv, EntryInv, WindowInv, SincedbInv, RowsInv, SentOncePerRun, Once
  <1> QED
    BY <1>1, PositionInvariance, PTL

=============================================================================
