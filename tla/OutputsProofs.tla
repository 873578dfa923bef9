--------------------------- MODULE OutputsProofs ---------------------------
(***************************************************************************)
(* Proofs about the output plugins, for any number of batches, events,     *)
(* retries and faults and any set of events the sink refuses: that Ok is   *)
(* the truth, that nothing known to have arrived is sent again, that       *)
(* nothing is left behind after close(), and that a call fails only for    *)
(* what happened in it.                                                    *)
(***************************************************************************)
EXTENDS Outputs, TLAPS, FiniteSetTheorems, SequenceTheorems

-----------------------------------------------------------------------------
(* The invariant.                                                          *)

\* The events of the first r batches, and those whose call has returned.
Before(r) == {e \in OutEvents : e <= r * NumEvents}
Returned == IF opc = "sending" THEN Before(round - 1) ELSE Before(round)

OutTypes ==
  /\ round \in 0 .. NumBatches /\ opc \in {"idle", "sending", "closed"}
  /\ tried \in Nat /\ failed \in BOOLEAN /\ cause \in BOOLEAN /\ sinkUp \in BOOLEAN
  /\ got \in [OutEvents -> Nat] /\ held \in Seq(OutEvents)
  /\ conn \in {"none", "up", "broken"} /\ sinkFaults \in Nat /\ outages \in Nat

\* The call in hand works on its batch, has a cause for what went wrong, and only
\* calls that have returned are answered for.
CallInv ==
  /\ opc = "sending" => round >= 1 /\ left \subseteq Batch \ Skipped
  /\ opc = "sending" /\ out \in {"file", "csv", "s3"} => left = Batch
  /\ opc # "sending" => left = {} /\ ~failed
  /\ out \notin Planned => ~failed
  /\ oks \subseteq Returned /\ dlq \subseteq Returned
  /\ opc = "sending" /\ (failed \/ ~sinkUp) => cause \/ out = "rabbitmq"
  /\ opc = "idle" /\ round > 0 /\ Batch \subseteq dlq => cause \/ out = "rabbitmq"

\* Nothing breaks without an outage, and nothing is unsure without a fault.
LinkInv ==
  /\ outages = 0 => sinkUp /\ conn # "broken" /\ nowhere = {}
  /\ out = "pipe" /\ conn # "up" => held = <<>>
  /\ out \in Planned \union {"pipeline"} => held = <<>>
  /\ sinkFaults = 0 => unsure = {}

\* An event is received again only if it is unsure: what is still to send or to come,
\* and what is held, was not received.
OnceInv ==
  /\ \A e \in OutEvents : got[e] > 1 => e \in unsure
  /\ \A e \in OutEvents \ Before(round) : got[e] = 0 /\ e \notin Range(held)
  /\ \A e \in left : IF out \in Planned THEN got[e] = 0 \/ e \in unsure
                                        ELSE got[e] = 0 /\ e \notin Range(held)
  /\ IsInjective(held) /\ \A e \in Range(held) : got[e] = 0

\* Where an event of a successful call is, or what took it away.
Arrived(e) ==
  \/ got[e] > 0
  \/ out \in {"s3", "pipe"} /\ e \in Range(held)
  \/ e \in nowhere
  \/ out \in Unacknowledged /\ (sinkFaults > 0 \/ outages > 0)
  \/ out = "pipe" /\ outages > 0

DeliverInv ==
  /\ \A e \in oks \ Skipped : Arrived(e)
  /\ opc = "sending" /\ ~failed /\ out \in Planned \union {"pipe", "pipeline"}
       => \A e \in (Batch \ Skipped) \ left : Arrived(e)
  /\ opc = "closed" /\ sinkFaults = 0 /\ outages = 0 /\ out \in {"s3", "pipe"} => held = <<>>

OutInv == OutTypes /\ CallInv /\ LinkInv /\ OnceInv /\ DeliverInv

-----------------------------------------------------------------------------
(* Batches and sequences of events.                                        *)

\* The batches follow each other: one is what the first r have over the first r - 1.
LEMMA Rounds ==
  ASSUME NEW r \in 1 .. NumBatches
  PROVE  /\ BatchOf(r) \subseteq OutEvents /\ BatchOf(r) # {}
         /\ Before(r) = Before(r - 1) \union BatchOf(r)
         /\ BatchOf(r) \intersect Before(r - 1) = {}
<1>1. NumEvents \in Nat /\ NumEvents > 0 /\ NumBatches \in Nat
  BY OutputAssumption
<1>2. PICK a \in Nat : a = (r - 1) * NumEvents
  <2>1. \A x, y \in Nat : x * y \in Nat
    OBVIOUS
  <2> QED
    BY <1>1, <2>1
<1>3. r * NumEvents = a + NumEvents
  <2>1. \A x, y \in Int : (x - 1) * y = x * y - y
    OBVIOUS
  <2>2. PICK b \in Int : b = r * NumEvents
    BY <1>1
  <2> QED
    BY <1>1, <1>2, <2>1, <2>2
<1>4. PICK m \in Nat : m = NumEvents * NumBatches /\ a + NumEvents <= m
  <2>1. PICK d \in Nat : NumBatches = r + d
    BY <1>1
  <2>2. NumEvents * NumBatches = r * NumEvents + NumEvents * d
    <3>1. \A x, y, z \in Int : x * (y + z) = y * x + x * z
      OBVIOUS
    <3> QED
      BY <1>1, <2>1, <3>1
  <2>3. PICK c \in Nat : c = NumEvents * d
    <3>1. \A x, y \in Nat : x * y \in Nat
      OBVIOUS
    <3> QED
      BY <1>1, <3>1
  <2> QED
    BY <1>1, <1>3, <2>2, <2>3
<1>5. BatchOf(r) = {a + i : i \in 1 .. NumEvents} /\ OutEvents = 1 .. m
  BY <1>2, <1>4 DEF BatchOf, OutEvents
<1>6. /\ Before(r) = {e \in 1 .. m : e <= a + NumEvents}
      /\ Before(r - 1) = {e \in 1 .. m : e <= a}
  BY <1>2, <1>3, <1>5 DEF Before
<1>7. BatchOf(r) = {e \in 1 .. m : a < e /\ e <= a + NumEvents}
  <2>1. ASSUME NEW i \in 1 .. NumEvents
        PROVE  a + i \in 1 .. m /\ a < a + i /\ a + i <= a + NumEvents
    BY <1>1, <1>4
  <2>2. ASSUME NEW e \in 1 .. m, a < e, e <= a + NumEvents
        PROVE  e - a \in 1 .. NumEvents /\ e = a + (e - a)
    BY <1>1, <2>2
  <2> QED
    BY <1>5, <2>1, <2>2
<1>8. a + 1 \in BatchOf(r)
  BY <1>1, <1>4, <1>7
<1>9. BatchOf(r) \subseteq OutEvents
  BY <1>5, <1>7
<1>10. BatchOf(r) \intersect Before(r - 1) = {}
  BY <1>6, <1>7
<1>11. Before(r) = Before(r - 1) \union BatchOf(r)
  <2>1. \A e \in 1 .. m : e <= a + NumEvents <=> e <= a \/ (a < e /\ e <= a + NumEvents)
    BY <1>1
  <2> QED
    BY <1>6, <1>7, <2>1
<1> QED
  BY <1>8, <1>9, <1>10, <1>11

\* What joining two sequences without repetitions and without a common event gives.
LEMMA Joined ==
  ASSUME NEW S, NEW p \in Seq(S), NEW q \in Seq(S), IsInjective(p), IsInjective(q),
         Range(p) \intersect Range(q) = {}
  PROVE  /\ p \o q \in Seq(S) /\ IsInjective(p \o q)
         /\ Range(p \o q) = Range(p) \union Range(q)
<1>1. PICK m \in Nat : m = Len(p) /\ DOMAIN p = 1 .. m
  BY LenProperties
<1>2. PICK n \in Nat : n = Len(q) /\ DOMAIN q = 1 .. n
  BY LenProperties
<1>3. PICK r : r = p \o q
  OBVIOUS
<1>4. /\ r \in Seq(S) /\ Len(r) = m + n
      /\ \A i \in 1 .. m + n : r[i] = IF i <= m THEN p[i] ELSE q[i - m]
  BY <1>1, <1>2, <1>3, ConcatProperties
<1>5. DOMAIN r = 1 .. m + n
  BY <1>4, LenProperties
<1>6. ASSUME NEW i \in 1 .. m + n
      PROVE  \/ i \in 1 .. m /\ r[i] = p[i] /\ r[i] \in Range(p)
             \/ i - m \in 1 .. n /\ r[i] = q[i - m] /\ r[i] \in Range(q)
  <2>1. CASE i <= m
    BY <1>1, <1>4, <2>1 DEF Range
  <2>2. CASE ~ (i <= m)
    <3>1. i - m \in 1 .. n
      BY <2>2
    <3> QED
      BY <1>2, <1>4, <2>2, <3>1 DEF Range
  <2> QED
    BY <2>1, <2>2
<1>7. IsInjective(r)
  <2> SUFFICES ASSUME NEW i \in 1 .. m + n, NEW j \in 1 .. m + n, r[i] = r[j] PROVE i = j
    BY <1>5 DEF IsInjective
  <2>1. CASE i \in 1 .. m /\ r[i] = p[i] /\ r[i] \in Range(p)
    <3>1. j \in 1 .. m /\ r[j] = p[j]
      BY <1>6, <2>1
    <3> QED
      BY <1>1, <2>1, <3>1 DEF IsInjective
  <2>2. CASE i - m \in 1 .. n /\ r[i] = q[i - m] /\ r[i] \in Range(q)
    <3>1. j - m \in 1 .. n /\ r[j] = q[j - m]
      BY <1>6, <2>2
    <3>2. i - m = j - m
      BY <1>2, <2>2, <3>1 DEF IsInjective
    <3> QED
      BY <3>2
  <2> QED
    BY <1>6, <2>1, <2>2
<1> QED
  BY <1>3, <1>4, <1>7, RangeConcatenation

\* Cutting a sequence without repetitions in two.
LEMMA CutInTwo ==
  ASSUME NEW S, NEW s \in Seq(S), IsInjective(s), NEW n \in Nat, n = Len(s),
         NEW k \in 0 .. n
  PROVE  /\ SubSeq(s, k + 1, n) \in Seq(S) /\ IsInjective(SubSeq(s, k + 1, n))
         /\ {s[i] : i \in 1 .. k} \union Range(SubSeq(s, k + 1, n)) = Range(s)
         /\ {s[i] : i \in 1 .. k} \intersect Range(SubSeq(s, k + 1, n)) = {}
         /\ k = n => SubSeq(s, k + 1, n) = <<>>
<1>1. DOMAIN s = 1 .. n
  BY LenProperties
<1>2. PICK m \in 1 .. n + 1 : m = k + 1
  OBVIOUS
<1>13. PICK rest : rest = SubSeq(s, k + 1, n)
  OBVIOUS
<1>14. PICK front : front = {s[i] : i \in 1 .. k}
  OBVIOUS
<1>3. \A i \in m .. n : s[i] \in S
  BY <1>1, <1>2, ElementOfSeq
<1>4. /\ rest \in Seq(S) /\ Len(rest) = n - k
      /\ \A i \in 1 .. n - k : rest[i] = s[k + i]
  <2>1. rest = SubSeq(s, m, n)
    BY <1>2, <1>13
  <2>2. /\ rest \in Seq(S) /\ Len(rest) = IF m <= n THEN n - m + 1 ELSE 0
        /\ \A i \in 1 .. n - m + 1 : rest[i] = s[m + i - 1]
    BY <1>3, <2>1, SubSeqProperties
  <2>3. n - m + 1 = n - k /\ Len(rest) = n - k
    BY <1>2, <2>2
  <2>4. ASSUME NEW i \in 1 .. n - k PROVE rest[i] = s[k + i]
    <3>1. m + i - 1 = k + i
      BY <1>2
    <3> QED
      BY <2>2, <2>3, <3>1
  <2> QED
    BY <2>2, <2>3, <2>4
<1>5. DOMAIN rest = 1 .. n - k
  BY <1>4, LenProperties
<1>6. \A i \in 1 .. n - k : k + i \in 1 .. n /\ k + i \notin 1 .. k
  BY <1>1
<1>7. \A i \in 1 .. n : i \in 1 .. k \/ (i - k \in 1 .. n - k /\ rest[i - k] = s[i])
  <2> SUFFICES ASSUME NEW i \in 1 .. n, i \notin 1 .. k
               PROVE  i - k \in 1 .. n - k /\ rest[i - k] = s[i]
    OBVIOUS
  <2>1. i - k \in 1 .. n - k /\ k + (i - k) = i
    BY <1>1
  <2> QED
    BY <1>4, <2>1
<1>8. IsInjective(rest)
  <2> SUFFICES ASSUME NEW i \in 1 .. n - k, NEW j \in 1 .. n - k, rest[i] = rest[j] PROVE i = j
    BY <1>5 DEF IsInjective
  <2>1. k + i = k + j
    BY <1>1, <1>4, <1>6 DEF IsInjective
  <2> QED
    BY <2>1
<1>9. \A i \in 1 .. k : i \in 1 .. n
  BY <1>1
<1>10. front \union Range(rest) = Range(s)
  <2>1. Range(rest) = {rest[i] : i \in 1 .. n - k} /\ Range(s) = {s[i] : i \in 1 .. n}
    BY <1>1, <1>5 DEF Range
  <2> QED
    BY <1>4, <1>6, <1>7, <1>9, <1>14, <2>1
<1>11. front \intersect Range(rest) = {}
  <2> SUFFICES ASSUME NEW i \in 1 .. k, NEW j \in 1 .. n - k, s[i] = rest[j] PROVE FALSE
    BY <1>5, <1>14 DEF Range
  <2>1. i = k + j
    BY <1>1, <1>4, <1>6, <1>9 DEF IsInjective
  <2> QED
    BY <1>6, <2>1
<1>12. k = n => rest = <<>>
  BY <1>4, EmptySeq
<1> QED
  BY <1>4, <1>8, <1>10, <1>11, <1>12, <1>13, <1>14

\* The lines of a batch are its events, each once.
LEMMA LinesFacts ==
  ASSUME round \in 1 .. NumBatches
  PROVE  Lines \in Seq(OutEvents) /\ IsInjective(Lines) /\ Range(Lines) = Batch
<1>1. NumEvents \in Nat
  BY OutputAssumption
<1>2. PICK a \in Int : a = (round - 1) * NumEvents
  <2>1. \A x, y \in Int : x * y \in Int
    OBVIOUS
  <2> QED
    BY <1>1, <2>1
<1>3. Lines = [i \in 1 .. NumEvents |-> a + i] /\ Batch = {a + i : i \in 1 .. NumEvents}
  BY <1>2 DEF Lines, Batch, BatchOf
<1>4. Batch \subseteq OutEvents
  BY Rounds DEF Batch
<1>5. Lines \in [1 .. NumEvents -> OutEvents]
  BY <1>3, <1>4
<1> QED
  BY <1>1, <1>3, <1>5 DEF IsInjective, Range

-----------------------------------------------------------------------------
(* What a sink receives and answers, and what the end of a call leaves.    *)

\* Receiving counts an event once more, up to two.
LEMMA Received ==
  ASSUME got \in [OutEvents -> Nat], NEW E \in SUBSET OutEvents
  PROVE  /\ Receive(E) \in [OutEvents -> Nat]
         /\ \A e \in OutEvents :
              /\ got[e] > 0 \/ e \in E => Receive(E)[e] > 0
              /\ Receive(E)[e] > 1 => got[e] > 1 \/ (e \in E /\ got[e] > 0)
              /\ e \notin E => Receive(E)[e] = got[e]
              /\ e \in E /\ got[e] = 0 => Receive(E)[e] = 1
BY DEF Receive, Least

\* An answer covers no more than its request; ok is said of a request only when all of
\* it is there or nobody could know; a request is sent again only when nothing arrived or
\* the answer was lost; and a refusal has a reason.
Tells(U, applied, verdict, fault) ==
  /\ applied \subseteq U /\ fault \in BOOLEAN
  /\ verdict = "ok" => U \subseteq applied \/ (out \in Unacknowledged /\ (fault \/ ~sinkUp))
  /\ verdict = "again" /\ ~fault => applied = {}
  /\ verdict # "ok" => fault \/ ~sinkUp \/ U \intersect Refused # {} \/ out = "rabbitmq"

AnswerTells(U, a) == Tells(U, a.applied, a.verdict, a.fault)

\* An answer is its three fields.
LEMMA Told ==
  ASSUME NEW U, NEW p, NEW v, NEW f, Tells(U, p, v, f)
  PROVE  AnswerTells(U, Answer(p, v, f))
<1>1. Answer(p, v, f).applied = p /\ Answer(p, v, f).verdict = v /\ Answer(p, v, f).fault = f
  BY Zenon DEF Answer
<1> QED
  BY <1>1, Zenon DEF AnswerTells

\* Every answer of every sink tells that much.
LEMMA Answered ==
  ASSUME NEW U, NEW a \in Answers(U)
  PROVE  AnswerTells(U, a)
<1>8. /\ Tells(U, U, "ok", FALSE) /\ Tells(U, U, "fatal", TRUE)
      /\ Tells(U, {}, "again", TRUE) /\ Tells(U, {}, "fatal", TRUE)
      /\ Tells(U, U \ Refused, "again", TRUE) /\ Tells(U, U \ Refused, "fatal", TRUE)
      /\ U \intersect Refused # {} => /\ Tells(U, {}, "fatal", FALSE)
                                      /\ Tells(U, U \ Refused, "fatal", FALSE)
      /\ out \in Unacknowledged => Tells(U, {}, "ok", TRUE)
  BY DEF Tells
<1>9. AnswerTells(U, Answer(U, "ok", FALSE)) /\ AnswerTells(U, Answer(U, "fatal", TRUE))
  BY <1>8, Told, Zenon
<1>10. AnswerTells(U, Answer({}, "again", TRUE)) /\ AnswerTells(U, Answer({}, "fatal", TRUE))
  BY <1>8, Told, Zenon
<1>11. /\ AnswerTells(U, Answer(U \ Refused, "again", TRUE))
       /\ AnswerTells(U, Answer(U \ Refused, "fatal", TRUE))
  BY <1>8, Told, Zenon
<1>12. ASSUME U \intersect Refused # {}
       PROVE  /\ AnswerTells(U, Answer({}, "fatal", FALSE))
              /\ AnswerTells(U, Answer(U \ Refused, "fatal", FALSE))
  BY <1>8, <1>12, Told, Zenon
<1>1. ASSUME a \in HttpAnswers(U) PROVE AnswerTells(U, a)
  <2>1. CASE U \intersect Refused = {}
    <3>1. a \in {Answer(U, "ok", FALSE),
                 Answer({}, "again", TRUE), Answer({}, "fatal", TRUE),
                 Answer(U \ Refused, "again", TRUE)}
      BY <1>1, <2>1, Zenon DEF HttpAnswers
    <3> QED
      BY <1>9, <1>10, <1>11, <3>1, Zenon
  <2>2. CASE U \intersect Refused # {}
    <3>1. a \in {Answer({}, "fatal", FALSE),
                 Answer({}, "again", TRUE), Answer({}, "fatal", TRUE),
                 Answer(U \ Refused, "again", TRUE)}
      BY <1>1, <2>2, Zenon DEF HttpAnswers
    <3> QED
      BY <1>10, <1>11, <1>12, <2>2, <3>1, Zenon
  <2> QED
    BY <2>1, <2>2
<1>2. ASSUME a \in BulkAnswers(U) PROVE AnswerTells(U, a)
  <2>1. CASE U \intersect Refused = {}
    <3>1. U \ Refused = U
      BY <2>1
    <3>2. a \in {Answer(U, "ok", FALSE),
                 Answer({}, "again", TRUE), Answer({}, "fatal", TRUE),
                 Answer(U \ Refused, "again", TRUE)}
      BY <1>2, <2>1, <3>1, Zenon DEF BulkAnswers
    <3> QED
      BY <1>9, <1>10, <1>11, <3>2, Zenon
  <2>2. CASE U \intersect Refused # {}
    <3>1. a \in {Answer(U \ Refused, "fatal", FALSE),
                 Answer({}, "again", TRUE), Answer({}, "fatal", TRUE),
                 Answer(U \ Refused, "again", TRUE)}
      BY <1>2, <2>2, Zenon DEF BulkAnswers
    <3> QED
      BY <1>10, <1>11, <1>12, <2>2, <3>1, Zenon
  <2> QED
    BY <2>1, <2>2
<1>3. ASSUME a \in CallAnswers(U) PROVE AnswerTells(U, a)
  <2>1. CASE U \intersect Refused = {}
    <3>1. a \in {Answer(U, "ok", FALSE), Answer({}, "fatal", TRUE),
                 Answer(U \ Refused, "fatal", TRUE)}
      BY <1>3, <2>1, Zenon DEF CallAnswers
    <3> QED
      BY <1>9, <1>10, <1>11, <3>1, Zenon
  <2>2. CASE U \intersect Refused # {}
    <3>1. a \in {Answer({}, "fatal", FALSE), Answer({}, "fatal", TRUE),
                 Answer(U \ Refused, "fatal", TRUE)}
      BY <1>3, <2>2, Zenon DEF CallAnswers
    <3> QED
      BY <1>10, <1>11, <1>12, <2>2, <3>1, Zenon
  <2> QED
    BY <2>1, <2>2
<1>4. ASSUME a \in BlindAnswers(U), out \in Unacknowledged PROVE AnswerTells(U, a)
  BY <1>4, <1>8, Told, Zenon DEF BlindAnswers
<1>5. ASSUME a = Answer(U, "ok", FALSE) PROVE AnswerTells(U, a)
  BY <1>5, <1>8, Told, Zenon
<1>6. ASSUME ~sinkUp, NEW v, a = Answer({}, v, FALSE), v # "ok" \/ out = "udp"
      PROVE  AnswerTells(U, a)
  <2>1. Tells(U, {}, v, FALSE)
    BY <1>6 DEF Unacknowledged, Tells
  <2> QED
    BY <1>6, <2>1, Told, Zenon
<1>7. ASSUME KeepsConnection, a = Answer({}, "fatal", FALSE) PROVE AnswerTells(U, a)
  <2>1. Tells(U, {}, "fatal", FALSE)
    BY <1>7 DEF KeepsConnection, Tells
  <2> QED
    BY <1>7, <2>1, Told, Zenon
<1> QED
  <2>1. CASE out = "stdout"
    BY <1>5, <1>6, <2>1 DEF Answers, KeepsConnection
  <2>2. CASE out # "stdout" /\ ~sinkUp /\ out # "udp"
    BY <1>6, <1>7, <2>2 DEF Answers
  <2>3. CASE out # "stdout" /\ ~sinkUp /\ out = "udp"
    BY <1>6, <2>3 DEF Answers, KeepsConnection
  <2>4. CASE out # "stdout" /\ sinkUp /\ KeepsConnection /\ conn = "broken"
    BY <1>7, <2>4 DEF Answers
  <2>5. CASE out # "stdout" /\ sinkUp /\ ~ (KeepsConnection /\ conn = "broken")
    <3>1. a \in (CASE out = "elasticsearch" -> BulkAnswers(U)
                   [] out \in {"http", "http_form", "datadog"} -> HttpAnswers(U)
                   [] out \in Unacknowledged -> BlindAnswers(U)
                   [] OTHER -> CallAnswers(U))
      BY <2>5 DEF Answers
    <3>2. Unacknowledged \intersect {"elasticsearch", "http", "http_form", "datadog"} = {}
      BY DEF Unacknowledged
    <3>3. CASE out = "elasticsearch"
      BY <1>2, <3>1, <3>2, <3>3
    <3>4. CASE out \in {"http", "http_form", "datadog"}
      BY <1>1, <3>1, <3>2, <3>4
    <3>5. CASE out \in Unacknowledged
      BY <1>4, <3>1, <3>2, <3>5
    <3>6. CASE out # "elasticsearch" /\ out \notin {"http", "http_form", "datadog"}
               /\ out \notin Unacknowledged
      BY <1>3, <3>1, <3>6
    <3> QED
      BY <3>3, <3>4, <3>5, <3>6
  <2> QED
    BY <2>1, <2>2, <2>3, <2>4, <2>5

\* The batch in hand is new.
LEMMA InHand ==
  ASSUME OutTypes, CallInv, opc = "sending"
  PROVE  /\ round \in 1 .. NumBatches /\ NumBatches \in Nat
         /\ Batch \subseteq OutEvents /\ Batch # {}
         /\ Before(round) = Before(round - 1) \union Batch
         /\ Batch \intersect Before(round - 1) = {}
<1>1. round \in 1 .. NumBatches /\ NumBatches \in Nat
  BY OutputAssumption DEF OutTypes, CallInv
<1> QED
  BY <1>1, Rounds DEF Batch

\* The end of a call answers for its batch.
LEMMA Ended ==
  ASSUME OutTypes, CallInv, opc = "sending", NEW ok \in BOOLEAN, Done(ok),
         out' = out, round' = round, ok \/ cause' \/ out = "rabbitmq"
  PROVE  /\ CallInv' /\ opc' = "idle" /\ left' = {} /\ tried' = 0 /\ failed' = FALSE
         /\ Batch' = Batch /\ Skipped' = Skipped
         /\ oks' \subseteq oks \union Batch /\ (~ok => oks' = oks)
<1>1. /\ round \in 1 .. NumBatches /\ NumBatches \in Nat
      /\ Batch # {} /\ Before(round) = Before(round - 1) \union Batch
      /\ Batch \intersect Before(round - 1) = {}
  BY InHand
<1>2. /\ opc' = "idle" /\ left' = {} /\ tried' = 0 /\ failed' = FALSE
      /\ oks' = IF ok THEN oks \union Batch ELSE oks
      /\ dlq' = IF ok THEN dlq ELSE dlq \union Batch
  BY DEF Done
<1>3. Batch' = Batch /\ Skipped' = Skipped /\ Returned' = Before(round)
  BY <1>2 DEF Batch, BatchOf, Skipped, Returned, Before
<1>4. oks \subseteq Before(round - 1) /\ dlq \subseteq Before(round - 1)
  BY DEF CallInv, Returned
<1>5. oks' \subseteq Returned' /\ dlq' \subseteq Returned'
  BY <1>1, <1>2, <1>3, <1>4
<1>6. ASSUME Batch \subseteq dlq' PROVE cause' \/ out = "rabbitmq"
  BY <1>1, <1>2, <1>4, <1>6
<1>7. CallInv'
  BY <1>2, <1>3, <1>5, <1>6 DEF CallInv
<1> QED
  BY <1>2, <1>3, <1>7

-----------------------------------------------------------------------------
(* The steps.                                                              *)

\* What depends on the batch and on the plugin stays with them.
LEMMA SameBatch ==
  ASSUME out' = out, round' = round
  PROVE  /\ Batch' = Batch /\ Skipped' = Skipped
         /\ Before(round)' = Before(round) /\ Before(round - 1)' = Before(round - 1)
BY DEF Batch, BatchOf, Skipped, Before

\* An event that is somewhere stays there, moves on to the sink, or is taken by an outage.
LEMMA ArrivedStays ==
  ASSUME NEW e, Arrived(e), out' = out, got[e] > 0 => got'[e] > 0,
         out \in {"s3", "pipe"} /\ e \in Range(held)
           => got'[e] > 0 \/ e \in Range(held') \/ (out = "pipe" /\ outages' > 0),
         e \in nowhere => e \in nowhere',
         sinkFaults > 0 => sinkFaults' > 0, outages > 0 => outages' > 0
  PROVE  Arrived(e)'
BY DEF Arrived

\* A call ends without anything new at the sink: a codec or open error, the last request
\* behind it, an address that is not there.
LEMMA EndKeeps ==
  ASSUME OutInv, opc = "sending", NEW ok \in BOOLEAN, Done(ok), out' = out, round' = round,
         cause' \in BOOLEAN, ok \/ cause' \/ out = "rabbitmq",
         got' = got, unsure' = unsure, nowhere' = nowhere, held' = held, sinkUp' = sinkUp,
         outages' = outages, sinkFaults' \in Nat, sinkFaults' >= sinkFaults,
         conn' = conn \/ (conn' = "none" /\ held = <<>>),
         ok => \A e \in Batch \ Skipped : Arrived(e)
  PROVE  OutInv'
<1> USE DEF OutInv
<1>1. /\ CallInv' /\ opc' = "idle" /\ left' = {} /\ tried' = 0 /\ failed' = FALSE
      /\ Batch' = Batch /\ Skipped' = Skipped
      /\ oks' \subseteq oks \union Batch /\ (~ok => oks' = oks)
  BY Ended
<1>2. Before(round)' = Before(round)
  BY SameBatch
<1>3. sinkFaults \in Nat
  BY DEF OutTypes
<1>4. OutTypes'
  BY <1>1 DEF OutTypes
<1>5. LinkInv'
  BY <1>3 DEF LinkInv
<1>6. OnceInv'
  BY <1>1, <1>2 DEF OnceInv
<1>7. \A e : Arrived(e) => Arrived(e)'
  BY <1>3 DEF Arrived
<1>8. DeliverInv'
  BY <1>1, <1>7 DEF DeliverInv
<1> QED
  BY <1>1, <1>4, <1>5, <1>6, <1>8

\* The next batch.
LEMMA BeginStep == OutInv /\ Begin => OutInv'
<1> SUFFICES ASSUME OutInv, Begin PROVE OutInv'
  OBVIOUS
<1> USE DEF OutInv, sinkVars, linkVars
<1>1. /\ opc = "idle" /\ opc' = "sending" /\ round' = round + 1 /\ round < NumBatches
      /\ left' = BatchOf(round + 1) \ Skipped /\ cause' = ~sinkUp
      /\ UNCHANGED <<out, tried, failed, oks, dlq, got, unsure, nowhere, held, conn, sinkUp,
                     outages, sinkFaults>>
  BY DEF Begin
<1>2. NumBatches \in Nat /\ round \in Nat /\ round' \in 1 .. NumBatches /\ round' - 1 = round
  BY <1>1, OutputAssumption DEF OutTypes
<1>3. /\ Batch' \subseteq OutEvents /\ Batch' \intersect Before(round) = {}
      /\ Before(round') = Before(round) \union Batch' /\ left' = Batch' \ Skipped
      /\ Skipped' = Skipped
  <2>1. Batch' = BatchOf(round') /\ Skipped' = Skipped
    BY <1>1 DEF Batch, Skipped
  <2> QED
    BY <1>1, <1>2, <2>1, Rounds
<1>4. OutTypes'
  BY <1>1, <1>2 DEF OutTypes
<1>5. CallInv'
  <2>1. Returned' = Before(round) /\ Returned = Before(round)
    BY <1>1, <1>2 DEF Returned
  <2>2. out \in {"file", "csv", "s3"} => Skipped = {}
    BY DEF Skipped
  <2>3. ~failed'
    BY <1>1 DEF CallInv
  <2>4. ~sinkUp' => cause'
    BY <1>1, Zenon
  <2>5. oks' \subseteq Returned' /\ dlq' \subseteq Returned'
    BY <1>1, <2>1 DEF CallInv
  <2>6. round' >= 1 /\ left' \subseteq Batch' \ Skipped'
    BY <1>2, <1>3
  <2>7. out' \in {"file", "csv", "s3"} => left' = Batch'
    BY <1>1, <1>3, <2>2
  <2> QED
    BY <1>1, <2>3, <2>4, <2>5, <2>6, <2>7 DEF CallInv
<1>6. LinkInv'
  BY <1>1 DEF LinkInv
<1>7. OnceInv'
  <2>1. \A e \in left' : e \in OutEvents \ Before(round)
    BY <1>3
  <2>2. \A e \in OutEvents \ Before(round') : e \in OutEvents \ Before(round)
    BY <1>3
  <2>3. Before(round)' = Before(round')
    BY DEF Before
  <2> QED
    BY <1>1, <2>1, <2>2, <2>3 DEF OnceInv
<1>8. DeliverInv'
  <2>1. \A e : Arrived(e)' <=> Arrived(e)
    BY <1>1 DEF Arrived
  <2> QED
    BY <1>1, <1>3, <2>1 DEF DeliverInv
<1> QED
  BY <1>4, <1>5, <1>6, <1>7, <1>8

\* A call that ends with a codec error, with an open error, or behind its last request.
LEMMA EndSteps == OutInv /\ (EncodeFails \/ OpenFails \/ Return) => OutInv'
<1> USE DEF OutInv, sinkVars, linkVars
<1>0. ASSUME OutInv PROVE sinkFaults \in Nat /\ cause \in BOOLEAN /\ failed \in BOOLEAN
  BY <1>0 DEF OutTypes
<1>1. ASSUME OutInv, EncodeFails PROVE OutInv'
  <2>1. /\ opc = "sending" /\ Done(FALSE) /\ cause' = TRUE
        /\ UNCHANGED <<out, round, got, unsure, nowhere, held, conn, sinkUp, outages, sinkFaults>>
    BY <1>1 DEF EncodeFails
  <2>2. sinkFaults' \in Nat /\ sinkFaults' >= sinkFaults /\ cause' \in BOOLEAN
    BY <1>0, <1>1, <2>1
  <2> QED
    BY <1>1, <2>1, <2>2, EndKeeps
<1>2. ASSUME OutInv, OpenFails PROVE OutInv'
  <2>1. /\ opc = "sending" /\ Done(FALSE) /\ cause' = TRUE /\ sinkFaults' = sinkFaults + 1
        /\ UNCHANGED <<out, round, got, unsure, nowhere, held, conn, sinkUp, outages>>
    BY <1>2 DEF OpenFails
  <2>2. sinkFaults' \in Nat /\ sinkFaults' >= sinkFaults
    BY <1>0, <1>2, <2>1
  <2> QED
    BY <1>2, <2>1, <2>2, EndKeeps
<1>3. ASSUME OutInv, Return PROVE OutInv'
  <2>1. /\ opc = "sending" /\ out \in Planned /\ left = {} /\ Done(~failed)
        /\ UNCHANGED <<out, round, got, unsure, nowhere, held, conn, sinkUp, outages, cause,
                       sinkFaults>>
    BY <1>3 DEF Return
  <2>2. PICK ok \in BOOLEAN : ok = ~failed
    OBVIOUS
  <2>3. Done(ok)
    BY <2>1, <2>2
  <2>4. ok \/ cause' \/ out = "rabbitmq"
    BY <1>3, <2>1, <2>2 DEF CallInv
  <2>5. ok => \A e \in Batch \ Skipped : Arrived(e)
    BY <1>3, <2>1, <2>2 DEF DeliverInv
  <2> QED
    BY <1>0, <1>3, <2>1, <2>3, <2>4, <2>5, EndKeeps
<1> QED
  BY <1>1, <1>2, <1>3

\* The other end, and the address of a pipeline, come and go.
LEMMA LinkSteps ==
  OutInv /\ (TargetReads \/ Register \/ Outage \/ SinkBack \/ UNCHANGED outVars) => OutInv'
<1> USE DEF OutInv, sinkVars, callVars
<1>1. ASSUME OutInv, out' = out, round' = round, opc' = opc, left' = left, tried' = tried,
             failed' = failed, oks' = oks, dlq' = dlq, got' = got, unsure' = unsure,
             nowhere' = nowhere, sinkFaults' = sinkFaults, cause' \in BOOLEAN, cause => cause',
             sinkUp' \in BOOLEAN, sinkUp' \/ ~sinkUp \/ cause',
             conn' \in {"none", "up", "broken"}, outages' \in Nat, outages' >= outages,
             outages' = 0 => sinkUp' /\ conn' # "broken",
             held' = held \/ (out = "pipe" /\ held' = <<>> /\ outages' > 0 /\ opc # "closed"),
             out = "pipe" /\ conn' # "up" => held' = <<>>
      PROVE  OutInv'
  <2>1. /\ Batch' = Batch /\ Skipped' = Skipped /\ Before(round)' = Before(round)
        /\ Before(round - 1)' = Before(round - 1) /\ Returned' = Returned
    BY <1>1, SameBatch DEF Returned
  <2>2. outages \in Nat /\ <<>> \in Seq(OutEvents)
    BY <1>1, EmptySeq DEF OutTypes
  <2>3. OutTypes'
    BY <1>1, <2>2 DEF OutTypes
  <2>4. CallInv'
    BY <1>1, <2>1 DEF CallInv
  <2>5. LinkInv'
    BY <1>1, <2>2 DEF LinkInv
  <2>6. OnceInv'
    <3>1. Range(<<>>) = {} /\ IsInjective(<<>>)
      BY DEF Range, IsInjective
    <3> QED
      BY <1>1, <2>1, <3>1 DEF OnceInv
  <2>7. \A e : Arrived(e) => Arrived(e)'
    BY <1>1, <2>2 DEF Arrived
  <2>8. DeliverInv'
    BY <1>1, <2>1, <2>2, <2>7 DEF DeliverInv
  <2> QED
    BY <2>3, <2>4, <2>5, <2>6, <2>8
<1>2. ASSUME OutInv, Register PROVE OutInv'
  <2>1. out = "pipeline" /\ conn' = "up" /\ sinkUp \in BOOLEAN /\ cause \in BOOLEAN /\ outages \in Nat
        /\ (outages = 0 => sinkUp)
    BY <1>2 DEF Register, OutTypes, LinkInv
  <2> QED
    BY <1>1, <1>2, <2>1 DEF Register
<1>3. ASSUME OutInv, Outage PROVE OutInv'
  <2>1. /\ outages \in Nat /\ conn \in {"none", "up", "broken"}
        /\ out = "pipe" /\ conn # "up" => held = <<>>
    BY <1>3 DEF OutTypes, LinkInv
  <2>2. /\ opc # "closed" /\ outages' = outages + 1 /\ cause' = TRUE
        /\ conn' = (IF conn = "up" THEN "broken" ELSE conn)
        /\ sinkUp' \in BOOLEAN
        /\ held' = (IF out = "pipe" THEN <<>> ELSE held)
        /\ UNCHANGED <<out, round, opc, left, tried, failed, oks, dlq, got, unsure, nowhere, sinkFaults>>
    BY <1>3 DEF Outage
  <2>3. outages' \in Nat /\ outages' > 0 /\ outages' >= outages /\ conn' \in {"none", "up", "broken"}
    BY <2>1, <2>2
  <2> QED
    BY <1>1, <1>3, <2>1, <2>2, <2>3
<1>4. ASSUME OutInv, SinkBack PROVE OutInv'
  <2>1. /\ outages \in Nat /\ conn \in {"none", "up", "broken"} /\ cause \in BOOLEAN
        /\ out = "pipe" /\ conn # "up" => held = <<>>
        /\ outages = 0 => conn # "broken"
    BY <1>4 DEF OutTypes, LinkInv
  <2> QED
    BY <1>1, <1>4, <2>1 DEF SinkBack
<1>5. ASSUME OutInv, TargetReads \/ UNCHANGED outVars PROVE OutInv'
  <2>1. /\ outages \in Nat /\ conn \in {"none", "up", "broken"} /\ cause \in BOOLEAN
        /\ sinkUp \in BOOLEAN
        /\ out = "pipe" /\ conn # "up" => held = <<>>
        /\ outages = 0 => sinkUp /\ conn # "broken"
    BY <1>5 DEF OutTypes, LinkInv
  <2> QED
    BY <1>1, <1>5, <2>1 DEF TargetReads, outVars
<1> QED
  BY <1>2, <1>3, <1>4, <1>5

\* One attempt at a request: what arrives was still to send, and if it may be sent
\* again it is unsure; the call goes on, starts over or ends with a cause.
LEMMA RequestStep == OutInv /\ Request => OutInv'
<1> SUFFICES ASSUME OutInv, Request PROVE OutInv'
  OBVIOUS
<1> USE DEF OutInv
<1>1. /\ opc = "sending" /\ out \in Planned /\ left # {}
      /\ UNCHANGED <<out, round, nowhere, held, sinkUp, outages>>
  BY DEF Request
<1>2. PICK a \in Answers(Unit) :
        /\ sinkFaults' = sinkFaults + (IF a.fault THEN 1 ELSE 0)
        /\ cause' = (cause \/ a.fault \/ Unit \intersect Refused # {})
        /\ got' = Receive(a.applied)
        /\ unsure' = IF a.fault THEN unsure \union a.applied ELSE unsure
        /\ conn' = IF sinkUp /\ (conn = "none" \/ ~KeepsConnection) THEN "up" ELSE conn
        /\ CASE a.verdict = "again" /\ tried + 1 < PlanOf.tries ->
                  /\ tried' = tried + 1
                  /\ UNCHANGED <<opc, left, failed, oks, dlq>>
             [] a.verdict # "ok" /\ PlanOf.onError = "stop"
                /\ ~(a.verdict = "again" /\ tried + 1 < PlanOf.tries) -> Done(FALSE)
             [] OTHER ->
                  /\ left' = left \ Unit /\ tried' = 0
                  /\ failed' = (failed \/ a.verdict # "ok")
                  /\ UNCHANGED <<opc, oks, dlq>>
  BY DEF Request
<1>3. /\ a.applied \subseteq Unit /\ a.fault \in BOOLEAN
      /\ a.verdict = "ok" => Unit \subseteq a.applied
                             \/ (out \in Unacknowledged /\ (a.fault \/ ~sinkUp))
      /\ a.verdict = "again" /\ ~a.fault => a.applied = {}
      /\ a.verdict # "ok" => a.fault \/ ~sinkUp \/ Unit \intersect Refused # {} \/ out = "rabbitmq"
  BY Answered DEF AnswerTells, Tells
<1>4. /\ round \in 1 .. NumBatches /\ Batch \subseteq OutEvents /\ Batch \subseteq Before(round)
      /\ left \subseteq Batch \ Skipped /\ Unit \subseteq left
  BY <1>1, InHand DEF CallInv, Unit, NextOf
<1>5. /\ Batch' = Batch /\ Skipped' = Skipped /\ Before(round)' = Before(round)
      /\ Before(round - 1)' = Before(round - 1)
  BY <1>1, SameBatch
<1>6. /\ tried \in Nat /\ failed \in BOOLEAN /\ cause \in BOOLEAN /\ sinkUp \in BOOLEAN
      /\ got \in [OutEvents -> Nat] /\ sinkFaults \in Nat /\ outages \in Nat
      /\ conn \in {"none", "up", "broken"} /\ held = <<>>
  BY <1>1 DEF OutTypes, LinkInv
<1>7. /\ got' \in [OutEvents -> Nat]
      /\ \A e \in OutEvents :
           /\ got[e] > 0 \/ e \in a.applied => got'[e] > 0
           /\ got'[e] > 1 => got[e] > 1 \/ (e \in a.applied /\ got[e] > 0)
           /\ e \notin a.applied => got'[e] = got[e]
  BY <1>2, <1>3, <1>4, <1>6, Received
<1>8. /\ sinkFaults' \in Nat /\ (sinkFaults > 0 \/ a.fault => sinkFaults' > 0)
      /\ (sinkFaults' = 0 => sinkFaults = 0 /\ ~a.fault)
  BY <1>2, <1>3, <1>6
<1>9. cause' \in BOOLEAN /\ (cause => cause') /\ (a.fault => cause')
      /\ (Unit \intersect Refused # {} => cause')
  BY <1>2, Zenon
<1>10. a.verdict # "ok" => cause' \/ out = "rabbitmq"
  BY <1>1, <1>3, <1>9 DEF CallInv
<1>11. unsure \subseteq unsure' /\ (a.fault => a.applied \subseteq unsure')
  BY <1>2
<1>12. LinkInv'
  <2>1. conn' \in {conn, "up"}
    BY <1>2
  <2>2. sinkFaults' = 0 => unsure' = {}
    BY <1>2, <1>8 DEF LinkInv
  <2> QED
    BY <1>1, <1>6, <2>1, <2>2 DEF LinkInv, Planned
<1>13. /\ \A e \in OutEvents : got'[e] > 1 => e \in unsure'
       /\ \A e \in OutEvents \ Before(round) : got'[e] = 0
  <2>1. ASSUME NEW e \in OutEvents, got'[e] > 1 PROVE e \in unsure'
    <3>1. CASE got[e] > 1
      BY <1>11, <3>1 DEF OnceInv
    <3>2. CASE e \in a.applied /\ got[e] > 0
      <4>1. e \in left /\ got[e] # 0
        BY <1>3, <1>4, <1>6, <3>2
      <4> QED
        BY <1>1, <1>11, <4>1 DEF OnceInv
    <3> QED
      BY <1>7, <2>1, <3>1, <3>2
  <2>2. ASSUME NEW e \in OutEvents \ Before(round) PROVE got'[e] = 0
    <3>1. e \notin a.applied
      BY <1>3, <1>4, <2>2
    <3> QED
      BY <1>7, <3>1 DEF OnceInv
  <2> QED
    BY <2>1, <2>2
<1>14. \A e \in OutEvents : Arrived(e) => Arrived(e)'
  <2> SUFFICES ASSUME NEW e \in OutEvents, Arrived(e) PROVE Arrived(e)'
    OBVIOUS
  <2> QED
    BY <1>1, <1>7, <1>8, ArrivedStays
<1>15. oks \subseteq OutEvents
  BY DEF CallInv, Returned, Before
<1>16. Range(held') = {} /\ IsInjective(held')
  BY <1>1, <1>6 DEF Range, IsInjective
<1>17. conn' \in {"none", "up", "broken"}
  BY <1>2, <1>6
<1>18. CASE a.verdict = "again" /\ tried + 1 < PlanOf.tries
  <2>1. tried' = tried + 1 /\ UNCHANGED <<opc, left, failed, oks, dlq>>
    BY <1>2, <1>18
  <2>2. OutTypes'
    BY <1>1, <1>6, <1>7, <1>8, <1>9, <1>17, <2>1 DEF OutTypes
  <2>3. CallInv'
    BY <1>1, <1>5, <1>9, <2>1 DEF CallInv, Returned
  <2>4. \A e \in left : got'[e] = 0 \/ e \in unsure'
    <3> SUFFICES ASSUME NEW e \in left PROVE got'[e] = 0 \/ e \in unsure'
      OBVIOUS
    <3>1. got[e] = 0 \/ e \in unsure
      BY <1>1 DEF OnceInv
    <3>2. e \in OutEvents
      BY <1>4
    <3> QED
      BY <1>3, <1>7, <1>11, <1>18, <3>1, <3>2
  <2>5. OnceInv'
    BY <1>1, <1>5, <1>13, <1>16, <2>1, <2>4 DEF OnceInv
  <2>6. DeliverInv'
    BY <1>1, <1>4, <1>5, <1>14, <1>15, <2>1 DEF DeliverInv
  <2> QED
    BY <1>12, <2>2, <2>3, <2>5, <2>6
<1>19. CASE /\ a.verdict # "ok" /\ PlanOf.onError = "stop"
            /\ ~(a.verdict = "again" /\ tried + 1 < PlanOf.tries)
  <2>1. Done(FALSE)
    BY <1>2, <1>19
  <2>2. /\ CallInv' /\ opc' = "idle" /\ left' = {} /\ tried' = 0 /\ failed' = FALSE /\ oks' = oks
    BY <1>1, <1>10, <1>19, <2>1, Ended
  <2>3. OutTypes'
    BY <1>1, <1>6, <1>7, <1>8, <1>9, <1>17, <2>2 DEF OutTypes
  <2>4. OnceInv'
    BY <1>1, <1>5, <1>13, <1>16, <2>2 DEF OnceInv
  <2>5. DeliverInv'
    BY <1>5, <1>14, <1>15, <2>2 DEF DeliverInv
  <2> QED
    BY <1>12, <2>2, <2>3, <2>4, <2>5
<1>20. CASE /\ ~(a.verdict = "again" /\ tried + 1 < PlanOf.tries)
            /\ ~(a.verdict # "ok" /\ PlanOf.onError = "stop")
  <2>1. /\ left' = left \ Unit /\ tried' = 0 /\ failed' = (failed \/ a.verdict # "ok")
        /\ UNCHANGED <<opc, oks, dlq>>
    BY <1>2, <1>20
  <2>2. failed' \in BOOLEAN /\ (failed' => failed \/ a.verdict # "ok")
        /\ (~failed' => ~failed /\ a.verdict = "ok")
    BY <2>1, Zenon
  <2>3. OutTypes'
    BY <1>1, <1>6, <1>7, <1>8, <1>9, <1>17, <2>1, <2>2 DEF OutTypes
  <2>4. CallInv'
    <3>1. failed' \/ ~sinkUp' => cause' \/ out = "rabbitmq"
      BY <1>1, <1>9, <1>10, <2>2 DEF CallInv
    <3>2. out \notin {"file", "csv", "s3"}
      BY <1>1 DEF Planned
    <3>3. Returned' = Returned
      BY <1>1, <1>5, <2>1 DEF Returned
    <3> QED
      BY <1>1, <1>4, <1>5, <2>1, <3>1, <3>2, <3>3 DEF CallInv
  <2>5. OnceInv'
    <3>1. ASSUME NEW e \in left' PROVE got'[e] = 0 \/ e \in unsure'
      <4>1. e \in left /\ e \notin a.applied /\ e \in OutEvents
        BY <1>3, <1>4, <2>1, <3>1
      <4> QED
        BY <1>1, <1>7, <1>11, <4>1 DEF OnceInv
    <3> QED
      BY <1>1, <1>5, <1>13, <1>16, <3>1 DEF OnceInv
  <2>6. ASSUME ~failed', NEW e \in (Batch \ Skipped) \ left' PROVE Arrived(e)'
    <3>1. ~failed /\ a.verdict = "ok" /\ e \in OutEvents
      BY <1>4, <2>2, <2>6
    <3>2. CASE e \notin left
      BY <1>1, <1>14, <2>6, <3>1, <3>2 DEF DeliverInv
    <3>3. CASE e \in Unit
      <4>1. CASE Unit \subseteq a.applied
        BY <1>7, <3>1, <3>3, <4>1 DEF Arrived
      <4>2. CASE out \in Unacknowledged /\ (a.fault \/ ~sinkUp)
        <5>1. sinkFaults' > 0 \/ outages' > 0
          BY <1>1, <1>6, <1>8, <4>2 DEF LinkInv
        <5>2. Unacknowledged' = Unacknowledged
          BY DEF Unacknowledged
        <5> QED
          BY <1>1, <4>2, <5>1, <5>2 DEF Arrived
      <4> QED
        BY <1>3, <3>1, <4>1, <4>2
    <3> QED
      BY <2>1, <2>6, <3>2, <3>3
  <2>7. DeliverInv'
    BY <1>1, <1>5, <1>14, <1>15, <2>1, <2>6 DEF DeliverInv
  <2> QED
    BY <1>12, <2>3, <2>4, <2>5, <2>7
<1> QED
  BY <1>18, <1>19, <1>20

\* file and csv: what was held and the batch go out in order up to a fault, and the
\* rest is held; Ok only without a rest.
LEMMA WriteStep == OutInv /\ WriteLines => OutInv'
<1> SUFFICES ASSUME OutInv, WriteLines PROVE OutInv'
  OBVIOUS
<1> USE DEF OutInv
<1> DEFINE lines == (IF EnsureWriter THEN <<>> ELSE held) \o Lines
           here == EnsureWriter \/ conn # "broken"
           w(k) == {lines[i] : i \in 1 .. k}
<1>1. /\ opc = "sending" /\ out \in {"file", "csv"}
      /\ UNCHANGED <<out, round, unsure, sinkUp, outages>>
  BY DEF WriteLines
<1>2. PICK k \in 0 .. Len(lines) :
        /\ sinkFaults' = sinkFaults + (IF k < Len(lines) THEN 1 ELSE 0)
        /\ cause' = (cause \/ k < Len(lines))
        /\ got' = IF here THEN Receive(w(k)) ELSE got
        /\ nowhere' = IF here THEN nowhere ELSE nowhere \union w(k)
        /\ held' = SubSeq(lines, k + 1, Len(lines))
        /\ conn' = IF here THEN "up" ELSE conn
        /\ Done(k = Len(lines))
  BY DEF WriteLines
<1>3. /\ round \in 1 .. NumBatches /\ Batch \subseteq OutEvents /\ Batch \subseteq Before(round)
      /\ left = Batch /\ Skipped = {}
  BY <1>1, InHand DEF CallInv, Skipped
<1>4. /\ cause \in BOOLEAN /\ got \in [OutEvents -> Nat] /\ sinkFaults \in Nat
      /\ outages \in Nat /\ conn \in {"none", "up", "broken"} /\ held \in Seq(OutEvents)
      /\ IsInjective(held) /\ sinkUp \in BOOLEAN
  BY DEF OutTypes, OnceInv
<1>5. out \notin Planned /\ out \notin {"s3", "pipe"}
  BY <1>1 DEF Planned
<1>6. /\ lines \in Seq(OutEvents) /\ IsInjective(lines)
      /\ Batch \subseteq Range(lines) /\ Range(lines) \subseteq Range(held) \union Batch
  <2>1. Lines \in Seq(OutEvents) /\ IsInjective(Lines) /\ Range(Lines) = Batch
    BY <1>3, LinesFacts
  <2>2. CASE EnsureWriter
    <3>1. lines = Lines
      BY <2>1, <2>2, ConcatEmptySeq
    <3> QED
      BY <2>1, <3>1
  <2>3. CASE ~EnsureWriter
    <3>1. Range(held) \intersect Range(Lines) = {}
      BY <1>3, <1>5, <2>1 DEF OnceInv
    <3>2. lines = held \o Lines
      BY <2>3
    <3>3. /\ held \o Lines \in Seq(OutEvents) /\ IsInjective(held \o Lines)
          /\ Range(held \o Lines) = Range(held) \union Range(Lines)
      BY <1>4, <2>1, <3>1, Joined
    <3> QED
      BY <2>1, <3>2, <3>3
  <2> QED
    BY <2>2, <2>3
<1> HIDE DEF lines
<1>7. PICK n \in Nat : n = Len(lines) /\ k \in 0 .. n
  BY <1>6, LenProperties
<1>8. /\ held' \in Seq(OutEvents) /\ IsInjective(held')
      /\ w(k) \union Range(held') = Range(lines) /\ w(k) \intersect Range(held') = {}
      /\ k = n => held' = <<>>
  <2>1. held' = SubSeq(lines, k + 1, n) /\ w(k) = {lines[i] : i \in 1 .. k}
    BY <1>2, <1>7
  <2>2. /\ SubSeq(lines, k + 1, n) \in Seq(OutEvents) /\ IsInjective(SubSeq(lines, k + 1, n))
        /\ {lines[i] : i \in 1 .. k} \union Range(SubSeq(lines, k + 1, n)) = Range(lines)
        /\ {lines[i] : i \in 1 .. k} \intersect Range(SubSeq(lines, k + 1, n)) = {}
        /\ k = n => SubSeq(lines, k + 1, n) = <<>>
    BY <1>6, <1>7, CutInTwo
  <2> HIDE DEF w
  <2> QED
    BY <2>1, <2>2, Zenon
<1> HIDE DEF w, here
<1>9. Range(lines) \subseteq OutEvents /\ \A e \in Range(lines) : got[e] = 0
  <2>1. Range(lines) \subseteq OutEvents
    BY <1>6, RangeOfSeq
  <2> QED
    BY <1>3, <1>5, <1>6, <2>1 DEF OnceInv
<1>10. \A e \in OutEvents \ Before(round) : e \notin Range(lines)
  BY <1>3, <1>6 DEF OnceInv
<1>11. w(k) \in SUBSET OutEvents
  BY <1>8, <1>9
<1>12. /\ got' \in [OutEvents -> Nat]
       /\ \A e \in OutEvents :
            /\ got[e] > 0 => got'[e] > 0
            /\ e \notin w(k) => got'[e] = got[e]
            /\ e \in w(k) => got'[e] \in {0, 1}
            /\ e \in w(k) /\ here => got'[e] > 0
  <2>1. CASE here
    <3>1. \A e \in w(k) : got[e] = 0
      BY <1>8, <1>9
    <3>2. got' = Receive(w(k))
      BY <1>2, <2>1
    <3>3. \A e \in w(k) : Receive(w(k))[e] = 1
      BY <1>4, <1>11, <3>1, Received
    <3> QED
      BY <1>4, <1>11, <3>2, <3>3, Received
  <2>2. CASE ~here
    BY <1>2, <1>4, <1>8, <1>9, <2>2
  <2> QED
    BY <2>1, <2>2
<1>13. /\ sinkFaults' \in Nat /\ (sinkFaults > 0 => sinkFaults' > 0)
       /\ sinkFaults' = 0 => sinkFaults = 0
  BY <1>2, <1>4, <1>7
<1>14. cause' \in BOOLEAN /\ (k = n \/ cause')
  <2>1. k = n \/ k < n
    BY <1>7
  <2>2. cause' = (cause \/ k < n)
    BY <1>2, <1>7
  <2> QED
    BY <2>1, <2>2, Zenon
<1>15. PICK ok \in BOOLEAN : ok = (k = n)
  OBVIOUS
<1>16. Done(ok)
  BY <1>2, <1>7, <1>15
<1>17. /\ CallInv' /\ opc' = "idle" /\ left' = {} /\ tried' = 0 /\ failed' = FALSE
       /\ Batch' = Batch /\ Skipped' = Skipped
       /\ oks' \subseteq oks \union Batch /\ (~ok => oks' = oks)
  BY <1>1, <1>14, <1>15, <1>16, Ended
<1>18. OutTypes'
  BY <1>1, <1>2, <1>4, <1>8, <1>12, <1>13, <1>14, <1>17 DEF OutTypes
<1>19. LinkInv'
  <2>1. ~here => conn = "broken"
    BY DEF here
  <2>2. outages # 0 \/ here
    BY <2>1 DEF LinkInv
  <2> QED
    BY <1>1, <1>2, <1>5, <1>13, <2>2 DEF LinkInv
<1>20. OnceInv'
  <2>1. Before(round)' = Before(round)
    BY <1>1, SameBatch
  <2>2. \A e \in OutEvents : got'[e] > 1 => e \in unsure'
    BY <1>1, <1>12 DEF OnceInv
  <2>3. \A e \in OutEvents \ Before(round) : got'[e] = 0 /\ e \notin Range(held')
    BY <1>8, <1>10, <1>12 DEF OnceInv
  <2>4. \A e \in Range(held') : got'[e] = 0
    BY <1>8, <1>9, <1>12
  <2> QED
    BY <1>8, <1>17, <2>1, <2>2, <2>3, <2>4 DEF OnceInv
<1>21. DeliverInv'
  <2>1. oks \subseteq OutEvents
    BY DEF CallInv, Returned, Before
  <2>2. ASSUME NEW e \in oks \ Skipped PROVE Arrived(e)'
    <3>1. Arrived(e) /\ e \in OutEvents
      BY <2>1 DEF DeliverInv
    <3>2. (e \in nowhere => e \in nowhere') /\ (got[e] > 0 => got'[e] > 0)
      BY <1>2, <1>12, <3>1
    <3> QED
      BY <1>1, <1>5, <1>13, <3>1, <3>2, ArrivedStays
  <2>3. ASSUME ok, NEW e \in Batch PROVE Arrived(e)'
    <3>1. k = n /\ held' = <<>>
      BY <1>8, <1>15, <2>3
    <3>2. e \in w(k)
      BY <1>6, <1>8, <3>1 DEF Range
    <3> QED
      BY <1>2, <1>11, <1>12, <3>2 DEF Arrived
  <2> QED
    BY <1>17, <2>2, <2>3 DEF DeliverInv
<1> QED
  BY <1>17, <1>18, <1>19, <1>20, <1>21

\* What an upload, or putting lines into the buffer, makes of the lines s: each is at the
\* sink or held, none is at the sink twice, and nothing else moves.
Moved(s) ==
  /\ got' \in [OutEvents -> Nat] /\ held' \in Seq(OutEvents) /\ IsInjective(held')
  /\ sinkFaults' \in Nat /\ sinkFaults' >= sinkFaults
  /\ cause' \in BOOLEAN /\ (cause => cause')
  /\ \A e \in OutEvents :
       /\ got[e] > 0 => got'[e] > 0
       /\ got'[e] > 1 => got[e] > 1
       /\ e \notin Range(s) => got'[e] = got[e]
  /\ Range(held') \subseteq Range(s)
  /\ \A e \in Range(held') : got'[e] = 0
  /\ \A e \in Range(s) : got'[e] > 0 \/ e \in Range(held')

\* An upload moves its lines; only a fault or an outage makes it fail.
LEMMA Uploaded ==
  ASSUME OutTypes, NEW s \in Seq(OutEvents), IsInjective(s), \A e \in Range(s) : got[e] = 0,
         NEW ok \in BOOLEAN, Upload(s, ok)
  PROVE  Moved(s) /\ (held' = <<>> \/ ~sinkUp \/ sinkFaults' > 0)
<1>1. Range(s) \in SUBSET OutEvents
  BY RangeOfSeq
<1>2. got \in [OutEvents -> Nat] /\ sinkFaults \in Nat /\ cause \in BOOLEAN /\ sinkUp \in BOOLEAN
  BY DEF OutTypes
<1>3. CASE ok
  <2>1. got' = Receive(Range(s)) /\ held' = <<>> /\ sinkFaults' = sinkFaults /\ cause' = cause
    BY <1>3 DEF Upload
  <2>2. <<>> \in Seq(OutEvents) /\ IsInjective(<<>>) /\ Range(<<>>) = {}
    BY EmptySeq DEF Range, IsInjective
  <2>3. /\ got' \in [OutEvents -> Nat]
        /\ \A e \in OutEvents :
             /\ got[e] > 0 \/ e \in Range(s) => got'[e] > 0
             /\ got'[e] > 1 => got[e] > 1 \/ (e \in Range(s) /\ got[e] > 0)
             /\ e \notin Range(s) => got'[e] = got[e]
    BY <1>1, <1>2, <2>1, Received
  <2>4. \A e \in OutEvents : got'[e] > 1 => got[e] > 1
    BY <1>2, <2>3
  <2>5. \A e \in Range(s) : got'[e] > 0
    BY <1>1, <2>3
  <2>6. sinkFaults' >= sinkFaults /\ sinkFaults' \in Nat
    BY <1>2, <2>1
  <2>7. held' \in Seq(OutEvents) /\ IsInjective(held') /\ Range(held') = {}
    BY <2>1, <2>2
  <2> QED
    BY <1>2, <2>1, <2>3, <2>4, <2>5, <2>6, <2>7 DEF Moved
<1>4. CASE ~ok
  <2>1. /\ got' = got /\ held' = s /\ cause' = TRUE
        /\ sinkFaults' = sinkFaults + (IF sinkUp THEN 1 ELSE 0)
    BY <1>4 DEF Upload
  <2>2. sinkFaults' \in Nat /\ sinkFaults' >= sinkFaults /\ (sinkUp => sinkFaults' > 0)
    BY <1>2, <2>1
  <2> QED
    BY <1>2, <2>1, <2>2 DEF Moved
<1> QED
  BY <1>3, <1>4

\* Between two calls, moving lines breaks nothing.
LEMMA MovedKeeps ==
  ASSUME OutInv, NEW s, Moved(s), CallInv', out' = out, round' = round, unsure' = unsure,
         nowhere' = nowhere, UNCHANGED linkVars, opc' \in {"idle", "closed"}, tried' \in Nat,
         failed' = FALSE, left' = {}, out = "s3" \/ (held' = held /\ oks' = oks),
         oks' \subseteq oks \union Range(s),
         Range(held) \subseteq Range(s), Range(s) \subseteq Before(round),
         opc' = "closed" /\ sinkFaults' = 0 /\ outages = 0 /\ out \in {"s3", "pipe"}
           => held' = <<>>
  PROVE  OutInv'
<1> USE DEF OutInv
<1>1. conn' = conn /\ sinkUp' = sinkUp /\ outages' = outages
  BY DEF linkVars
<1>2. Skipped' = Skipped /\ Before(round)' = Before(round)
  BY SameBatch
<1>3. sinkFaults \in Nat /\ sinkFaults' \in Nat /\ sinkFaults' >= sinkFaults
  BY DEF OutTypes, Moved
<1>4. OutTypes'
  BY <1>1 DEF OutTypes, Moved
<1>5. LinkInv'
  <2>1. sinkFaults' = 0 => sinkFaults = 0
    BY <1>3
  <2> QED
    BY <1>1, <2>1 DEF LinkInv, Planned
<1>6. OnceInv'
  <2>1. \A e \in OutEvents : got'[e] > 1 => e \in unsure'
    BY DEF OnceInv, Moved
  <2>2. \A e \in OutEvents \ Before(round) : got'[e] = 0 /\ e \notin Range(held')
    BY DEF OnceInv, Moved
  <2>3. IsInjective(held') /\ \A e \in Range(held') : got'[e] = 0
    BY DEF Moved
  <2> QED
    BY <1>2, <2>1, <2>2, <2>3 DEF OnceInv
<1>7. DeliverInv'
  <2>1. oks \subseteq OutEvents /\ Range(s) \subseteq OutEvents
    BY DEF CallInv, Returned, Before
  <2>2. ASSUME NEW e \in oks \ Skipped PROVE Arrived(e)'
    <3>1. Arrived(e) /\ e \in OutEvents
      BY <2>1 DEF DeliverInv
    <3>2. /\ got[e] > 0 => got'[e] > 0
          /\ e \in Range(held) => got'[e] > 0 \/ e \in Range(held')
      BY <3>1 DEF Moved
    <3>3. (sinkFaults > 0 => sinkFaults' > 0) /\ (outages > 0 => outages' > 0)
      BY <1>1, <1>3
    <3> QED
      BY <3>1, <3>2, <3>3, ArrivedStays
  <2>3. ASSUME out = "s3", NEW e \in Range(s) PROVE Arrived(e)'
    <3>1. got'[e] > 0 \/ e \in Range(held')
      BY DEF Moved
    <3> QED
      BY <2>3, <3>1 DEF Arrived
  <2> QED
    BY <1>1, <1>2, <2>2, <2>3 DEF DeliverInv
<1> QED
  BY <1>4, <1>5, <1>6, <1>7

\* s3 takes the batch into its buffer, and uploads the buffer when it is time.
LEMMA S3OutputStep == OutInv /\ S3Output => OutInv'
<1> SUFFICES ASSUME OutInv, S3Output PROVE OutInv'
  OBVIOUS
<1> USE DEF OutInv
<1>1. /\ opc = "sending" /\ out = "s3"
      /\ UNCHANGED <<out, round, unsure, nowhere>> /\ UNCHANGED linkVars
  BY DEF S3Output
<1>2. /\ cause \in BOOLEAN /\ got \in [OutEvents -> Nat] /\ sinkFaults \in Nat
      /\ held \in Seq(OutEvents) /\ IsInjective(held)
  BY DEF OutTypes, OnceInv
<1>3. CASE Batch \intersect Unencodable # {}
  <2>1. Done(FALSE) /\ cause' = TRUE /\ UNCHANGED <<got, held, sinkFaults>>
    BY <1>3 DEF S3Output
  <2>2. sinkFaults' \in Nat /\ sinkFaults' >= sinkFaults
    BY <1>2, <2>1
  <2> QED
    BY <1>1, <2>1, <2>2, EndKeeps DEF linkVars
<1>4. CASE Batch \intersect Unencodable = {}
  <2>1. PICK s : s = held \o Lines
    OBVIOUS
  <2>2. /\ Done(TRUE)
        /\ \/ \E ok \in BOOLEAN : (ok => sinkUp) /\ Upload(s, ok)
           \/ held' = s /\ UNCHANGED <<got, sinkFaults, cause>>
    BY <1>4, <2>1 DEF S3Output
  <2>3. /\ round \in 1 .. NumBatches /\ Batch \subseteq OutEvents /\ Batch \subseteq Before(round)
        /\ left = Batch
    BY <1>1, InHand DEF CallInv
  <2>4. Lines \in Seq(OutEvents) /\ IsInjective(Lines) /\ Range(Lines) = Batch
    BY <2>3, LinesFacts
  <2>5. out \notin Planned /\ Range(held) \intersect Batch = {} /\ \A e \in Batch : got[e] = 0
    BY <1>1, <2>3 DEF Planned, OnceInv
  <2>6. s \in Seq(OutEvents) /\ IsInjective(s) /\ Range(s) = Range(held) \union Batch
    BY <1>2, <2>1, <2>4, <2>5, Joined
  <2>7. \A e \in Range(s) : got[e] = 0
    BY <2>5, <2>6 DEF OnceInv
  <2>8. Moved(s)
    <3>1. CASE \E ok \in BOOLEAN : Upload(s, ok)
      BY <2>6, <2>7, <3>1, Uploaded
    <3>2. CASE held' = s /\ UNCHANGED <<got, sinkFaults, cause>>
      <4>1. sinkFaults' \in Nat /\ sinkFaults' >= sinkFaults
        BY <1>2, <3>2
      <4> QED
        BY <1>2, <2>6, <2>7, <3>2, <4>1 DEF Moved
    <3> QED
      BY <2>2, <3>1, <3>2
  <2>9. /\ CallInv' /\ opc' = "idle" /\ left' = {} /\ tried' = 0 /\ failed' = FALSE
        /\ oks' \subseteq oks \union Batch
    BY <1>1, <2>2, Ended
  <2>10. Range(held) \subseteq Before(round)
    <3>1. Range(held) \subseteq OutEvents
      BY <1>2, RangeOfSeq
    <3> QED
      BY <3>1 DEF OnceInv
  <2> QED
    BY <1>1, <2>3, <2>6, <2>8, <2>9, <2>10, MovedKeeps
<1> QED
  BY <1>3, <1>4

\* The ticks of s3 between the calls, and the end: close() uploads once more, or waits
\* for the child to read what it was given.
LEMMA FlushSteps == OutInv /\ (S3Flush \/ Close) => OutInv'
<1> SUFFICES ASSUME OutInv, S3Flush \/ Close PROVE OutInv'
  OBVIOUS
<1> USE DEF OutInv
<1>1. /\ opc = "idle" /\ UNCHANGED <<out, round, unsure, nowhere, left, tried, failed, oks, dlq>>
      /\ UNCHANGED linkVars /\ opc' \in {"idle", "closed"}
  BY DEF S3Flush, Close, callVars
<1>2. /\ cause \in BOOLEAN /\ got \in [OutEvents -> Nat] /\ sinkFaults \in Nat
      /\ held \in Seq(OutEvents) /\ IsInjective(held) /\ tried' \in Nat /\ sinkUp \in BOOLEAN
  BY <1>1 DEF OutTypes, OnceInv
<1>3. \A e \in Range(held) : got[e] = 0
  BY DEF OnceInv
<1>4. Range(held) \subseteq Before(round)
  <2>1. Range(held) \subseteq OutEvents
    BY <1>2, RangeOfSeq
  <2> QED
    BY <2>1 DEF OnceInv
<1>5. /\ Moved(held)
      /\ \/ out = "s3" /\ (held' = <<>> \/ ~sinkUp \/ sinkFaults' > 0)
         \/ held' = held /\ (opc' = "closed" /\ out \in {"s3", "pipe"} => held = <<>>)
  <2>1. CASE out = "s3" /\ \E ok \in BOOLEAN : Upload(held, ok)
    BY <1>2, <1>3, <2>1, Uploaded
  <2>2. CASE UNCHANGED <<got, held, sinkFaults, cause>> /\ Close /\ (out = "s3" => held = <<>>)
    <3>1. sinkFaults' \in Nat /\ sinkFaults' >= sinkFaults
      BY <1>2, <2>2
    <3>2. Moved(held)
      BY <1>2, <1>3, <2>2, <3>1 DEF Moved
    <3>3. out = "pipe" => held = <<>>
      BY <2>2 DEF Close, LinkInv
    <3> QED
      BY <2>2, <3>2, <3>3
  <2> QED
    BY <2>1, <2>2 DEF S3Flush, Close
<1>6. left' = {} /\ failed' = FALSE
  BY <1>1, <1>2 DEF CallInv, OutTypes
<1>7. CallInv'
  <2>1. Batch' = Batch /\ Skipped' = Skipped /\ Returned' = Returned /\ (cause => cause')
    BY <1>1, <1>5, SameBatch DEF Returned, Moved, Before
  <2> QED
    BY <1>1, <1>6, <2>1 DEF CallInv
<1>8. opc' = "closed" /\ sinkFaults' = 0 /\ outages = 0 /\ out \in {"s3", "pipe"} => held' = <<>>
  BY <1>5 DEF LinkInv
<1> QED
  BY <1>1, <1>2, <1>4, <1>5, <1>6, <1>7, <1>8, MovedKeeps

\* pipe writes a line to the child, ends the call, or fails to start a child.
LEMMA PipeWriteStep == OutInv /\ PipeWrite => OutInv'
<1> SUFFICES ASSUME OutInv, PipeWrite PROVE OutInv'
  OBVIOUS
<1> USE DEF OutInv
<1>1. /\ opc = "sending" /\ out = "pipe"
      /\ UNCHANGED <<out, round, got, unsure, nowhere, sinkUp, outages>>
  BY DEF PipeWrite, sinkVars
<1>2. /\ cause \in BOOLEAN /\ got \in [OutEvents -> Nat] /\ sinkFaults \in Nat
      /\ held \in Seq(OutEvents) /\ IsInjective(held) /\ out \notin Planned /\ ~failed
  BY <1>1 DEF OutTypes, OnceInv, CallInv, Planned
<1>3. CASE left = {}
  <2>1. Done(TRUE) /\ UNCHANGED <<held, conn, sinkFaults, cause>>
    BY <1>3 DEF PipeWrite
  <2>2. \A e \in Batch \ Skipped : Arrived(e)
    BY <1>1, <1>2, <1>3 DEF DeliverInv
  <2>3. sinkFaults' \in Nat /\ sinkFaults' >= sinkFaults /\ cause' \in BOOLEAN
    BY <1>2, <2>1
  <2> QED
    BY <1>1, <2>1, <2>2, <2>3, EndKeeps
<1>4. CASE /\ sinkFaults' = sinkFaults + 1 /\ cause' = TRUE /\ conn # "up"
           /\ conn' = "none" /\ held' = <<>> /\ Done(FALSE)
  <2>1. held = <<>>
    BY <1>1, <1>4 DEF LinkInv
  <2>2. sinkFaults' \in Nat /\ sinkFaults' >= sinkFaults
    BY <1>2, <1>4
  <2> QED
    BY <1>1, <1>4, <2>1, <2>2, EndKeeps
<1>5. CASE \E e \in NextOf(1) :
             /\ conn' = "up" /\ held' = (IF conn = "up" THEN held ELSE <<>>) \o <<e>>
             /\ left' = left \ {e}
             /\ UNCHANGED <<opc, tried, failed, oks, dlq, sinkFaults, cause>>
  <2>1. PICK e \in NextOf(1) :
             /\ conn' = "up" /\ held' = (IF conn = "up" THEN held ELSE <<>>) \o <<e>>
             /\ left' = left \ {e}
             /\ UNCHANGED <<opc, tried, failed, oks, dlq, sinkFaults, cause>>
    BY <1>5
  <2>2. /\ e \in left /\ left \subseteq Batch \ Skipped /\ Batch \subseteq OutEvents
        /\ Batch \subseteq Before(round)
    BY <1>1, InHand DEF NextOf, CallInv
  <2>3. held' = held \o <<e>>
    BY <1>1, <2>1 DEF LinkInv
  <2>4. got[e] = 0 /\ e \notin Range(held)
    BY <1>2, <2>2 DEF OnceInv
  <2>5. <<e>> \in Seq(OutEvents) /\ IsInjective(<<e>>) /\ Range(<<e>>) = {e}
    BY <2>2 DEF IsInjective, Range
  <2>6. /\ held' \in Seq(OutEvents) /\ IsInjective(held')
        /\ Range(held') = Range(held) \union {e}
    <3>1. Range(held) \intersect Range(<<e>>) = {}
      BY <2>4, <2>5
    <3>2. PICK one : one = <<e>>
      OBVIOUS
    <3>4. /\ one \in Seq(OutEvents) /\ IsInjective(one)
          /\ Range(held) \intersect Range(one) = {}
      BY <2>5, <3>1, <3>2, Zenon
    <3>5. held \in Seq(OutEvents) /\ IsInjective(held)
      BY <1>2
    <3>3. held \o one \in Seq(OutEvents) /\ IsInjective(held \o one)
          /\ Range(held \o one) = Range(held) \union Range(one)
      BY <3>4, <3>5, Joined
    <3> QED
      BY <2>3, <2>5, <3>2, <3>3, Zenon
  <2>7. Batch' = Batch /\ Skipped' = Skipped /\ Before(round)' = Before(round) /\ Returned' = Returned
    BY <1>1, <2>1, SameBatch DEF Returned
  <2>8. OutTypes'
    BY <1>1, <2>1, <2>6 DEF OutTypes
  <2>9. CallInv'
    BY <1>1, <2>1, <2>2, <2>7 DEF CallInv
  <2>10. LinkInv'
    BY <1>1, <2>1 DEF LinkInv, Planned
  <2>11. OnceInv'
    <3>1. \A d \in left' : got'[d] = 0 /\ d \notin Range(held')
      BY <1>1, <1>2, <2>1, <2>6 DEF OnceInv
    <3>2. \A d \in OutEvents \ Before(round) : got'[d] = 0 /\ d \notin Range(held')
      BY <1>1, <2>2, <2>6 DEF OnceInv
    <3>3. \A d \in Range(held') : got'[d] = 0
      BY <1>1, <2>4, <2>6 DEF OnceInv
    <3> QED
      BY <1>1, <1>2, <2>6, <2>7, <3>1, <3>2, <3>3 DEF OnceInv
  <2>12. \A d : Arrived(d) => Arrived(d)'
    <3> SUFFICES ASSUME NEW d, Arrived(d) PROVE Arrived(d)'
      OBVIOUS
    <3> QED
      BY <1>1, <2>1, <2>6, ArrivedStays
  <2>13. DeliverInv'
    <3>1. Arrived(e)'
      BY <1>1, <2>6 DEF Arrived
    <3>2. \A d \in (Batch \ Skipped) \ left' : Arrived(d)'
      BY <1>1, <1>2, <2>1, <2>12, <3>1 DEF DeliverInv
    <3> QED
      BY <1>1, <2>1, <2>7, <2>12, <3>2 DEF DeliverInv
  <2> QED
    BY <2>8, <2>9, <2>10, <2>11, <2>13
<1> QED
  BY <1>3, <1>4, <1>5 DEF PipeWrite

\* The child reads the next line.
LEMMA ChildReadsStep == OutInv /\ ChildReads => OutInv'
<1> SUFFICES ASSUME OutInv, ChildReads PROVE OutInv'
  OBVIOUS
<1> USE DEF OutInv
<1>1. /\ out = "pipe" /\ conn = "up" /\ held # <<>>
      /\ got' = Receive({Head(held)}) /\ held' = Tail(held)
      /\ UNCHANGED <<out, round, opc, left, tried, failed, oks, dlq, unsure, nowhere, conn,
                     sinkUp, outages, cause, sinkFaults>>
  BY DEF ChildReads, callVars, linkVars
<1>2. /\ got \in [OutEvents -> Nat] /\ held \in Seq(OutEvents) /\ IsInjective(held)
      /\ \A e \in Range(held) : got[e] = 0
  BY DEF OutTypes, OnceInv
<1>3. PICK h : h = Head(held)
  OBVIOUS
<1>4. /\ held' \in Seq(OutEvents) /\ IsInjective(held') /\ h \notin Range(held')
      /\ Range(held) = Range(held') \union {h}
  <2>1. PICK n \in Nat : n = Len(held) /\ n >= 1
    <3>1. Len(held) \in Nat /\ Len(held) # 0
      BY <1>1, <1>2, LenProperties, EmptySeq
    <3> QED
      BY <3>1
  <2>2. held' = SubSeq(held, 1 + 1, n) /\ h = held[1]
    <3>1. held' = SubSeq(held, 2, n)
      BY <1>1, <1>2, <2>1, TailIsSubSeq
    <3>2. h = held[1]
      BY <1>1, <1>2, <1>3, HeadTailProperties
    <3> QED
      BY <3>1, <3>2
  <2>3. {held[i] : i \in 1 .. 1} = {h}
    BY <2>2
  <2>4. 1 \in 0 .. n
    BY <2>1
  <2>5. /\ SubSeq(held, 1 + 1, n) \in Seq(OutEvents) /\ IsInjective(SubSeq(held, 1 + 1, n))
        /\ {held[i] : i \in 1 .. 1} \union Range(SubSeq(held, 1 + 1, n)) = Range(held)
        /\ {held[i] : i \in 1 .. 1} \intersect Range(SubSeq(held, 1 + 1, n)) = {}
    BY <1>2, <2>1, <2>4, CutInTwo
  <2>6. /\ held' \in Seq(OutEvents) /\ IsInjective(held')
        /\ {h} \union Range(held') = Range(held) /\ {h} \intersect Range(held') = {}
    BY <2>2, <2>3, <2>5, Zenon
  <2> QED
    BY <2>6
<1>5. h \in OutEvents /\ got[h] = 0
  BY <1>2, <1>4, RangeOfSeq
<1>6. /\ got' \in [OutEvents -> Nat]
      /\ \A e \in OutEvents : (got[e] > 0 => got'[e] > 0) /\ (e # h => got'[e] = got[e])
      /\ got'[h] = 1
  <2>1. {h} \in SUBSET OutEvents /\ got' = Receive({h})
    BY <1>1, <1>3, <1>5
  <2> QED
    BY <1>2, <1>5, <2>1, Received
<1>7. /\ Batch' = Batch /\ Skipped' = Skipped /\ Before(round)' = Before(round)
      /\ Returned' = Returned
  BY <1>1, SameBatch DEF Returned
<1>8. OutTypes'
  BY <1>1, <1>4, <1>6 DEF OutTypes
<1>9. CallInv'
  BY <1>1, <1>7 DEF CallInv
<1>10. LinkInv'
  BY <1>1 DEF LinkInv, Planned
<1>11. OnceInv'
  <2>1. out \notin Planned /\ (opc # "sending" => left = {})
        /\ (opc = "sending" => left \subseteq OutEvents)
    <3>1. opc = "sending" => left \subseteq Batch /\ Batch \subseteq OutEvents
      BY InHand DEF CallInv
    <3> QED
      BY <1>1, <3>1 DEF Planned, CallInv
  <2>2. \A e \in left' : got'[e] = 0 /\ e \notin Range(held')
    BY <1>1, <1>4, <1>6, <2>1 DEF OnceInv
  <2>3. \A e \in OutEvents \ Before(round) : got'[e] = 0 /\ e \notin Range(held')
    BY <1>4, <1>6 DEF OnceInv
  <2>4. ASSUME NEW e \in OutEvents, got'[e] > 1 PROVE e \in unsure'
    <3>1. e # h /\ got[e] > 1
      BY <1>6, <2>4
    <3> QED
      BY <1>1, <3>1 DEF OnceInv
  <2>5. \A e \in Range(held') : got'[e] = 0
    <3>1. Range(held') \subseteq OutEvents
      BY <1>4, RangeOfSeq
    <3> QED
      BY <1>2, <1>4, <1>6, <3>1
  <2> QED
    BY <1>1, <1>4, <1>7, <2>1, <2>2, <2>3, <2>4, <2>5 DEF OnceInv
<1>12. DeliverInv'
  <2>1. ASSUME NEW e \in OutEvents, Arrived(e) PROVE Arrived(e)'
    <3>1. e \in Range(held) => got'[e] > 0 \/ e \in Range(held')
      BY <1>4, <1>6
    <3> QED
      BY <1>1, <1>6, <2>1, <3>1, ArrivedStays
  <2>2. oks \subseteq OutEvents /\ (opc = "sending" => Batch \subseteq OutEvents)
    BY InHand DEF CallInv, Returned, Before
  <2>3. opc = "closed" /\ sinkFaults = 0 /\ outages = 0 => FALSE
    BY <1>1 DEF DeliverInv
  <2> QED
    BY <1>1, <1>7, <2>1, <2>2, <2>3 DEF DeliverInv
<1> QED
  BY <1>8, <1>9, <1>10, <1>11, <1>12

\* The pipeline output sends an event, looks for the address again, or ends.
LEMMA BusSendStep == OutInv /\ BusSend => OutInv'
<1> SUFFICES ASSUME OutInv, BusSend PROVE OutInv'
  OBVIOUS
<1> USE DEF OutInv
<1>1. /\ opc = "sending" /\ out = "pipeline"
      /\ UNCHANGED <<out, round, unsure, nowhere, held, conn, sinkUp, outages, sinkFaults>>
  BY DEF BusSend, linkVars
<1>2. /\ cause \in BOOLEAN /\ got \in [OutEvents -> Nat] /\ sinkFaults \in Nat /\ tried \in Nat
      /\ held = <<>> /\ out \notin Planned /\ ~failed
  BY <1>1 DEF OutTypes, CallInv, LinkInv, Planned
<1>3. /\ left \subseteq Batch \ Skipped /\ Batch \subseteq OutEvents /\ Batch \subseteq Before(round)
  BY <1>1, InHand DEF CallInv
<1>4. sinkFaults' \in Nat /\ sinkFaults' >= sinkFaults
  BY <1>1, <1>2
<1>5. CASE left = {}
  <2>1. Done(TRUE) /\ UNCHANGED <<got, cause>>
    BY <1>5 DEF BusSend
  <2>2. \A e \in Batch \ Skipped : Arrived(e)
    BY <1>1, <1>2, <1>5 DEF DeliverInv
  <2> QED
    BY <1>1, <1>2, <1>4, <2>1, <2>2, EndKeeps
<1>6. CASE left # {} /\ conn # "up" /\ ~ (conn = "none" /\ tried < MaxBusRetries)
  <2>1. Done(FALSE) /\ cause' = TRUE /\ UNCHANGED got
    BY <1>6 DEF BusSend
  <2> QED
    BY <1>1, <1>4, <2>1, EndKeeps
<1>7. CASE left # {} /\ (conn = "up" \/ (conn = "none" /\ tried < MaxBusRetries))
  <2>1. PICK E : /\ E \subseteq left /\ left' = left \ E
                 /\ got' = IF conn = "up" THEN Receive(E) ELSE got
                 /\ conn # "up" => E = {}
                 /\ tried' \in Nat /\ UNCHANGED <<opc, failed, oks, dlq, cause>>
    <3>1. CASE conn = "up"
      <4>1. /\ got' = Receive(NextOf(1)) /\ left' = left \ NextOf(1) /\ tried' = 0
            /\ UNCHANGED <<opc, failed, oks, dlq, cause>>
        BY <1>7, <3>1 DEF BusSend
      <4>2. NextOf(1) \subseteq left
        BY DEF NextOf
      <4> QED
        BY <3>1, <4>1, <4>2
    <3>2. CASE conn = "none" /\ tried < MaxBusRetries
      <4>1. tried' = tried + 1 /\ UNCHANGED <<opc, left, failed, oks, dlq, got, cause>>
        BY <1>7, <3>2 DEF BusSend
      <4>2. tried' \in Nat /\ left' = left \ {}
        BY <1>2, <4>1
      <4> QED
        BY <3>2, <4>1, <4>2
    <3> QED
      BY <1>7, <3>1, <3>2
  <2>2. E \in SUBSET OutEvents /\ \A e \in left : got[e] = 0
    BY <1>2, <1>3, <2>1 DEF OnceInv
  <2>3. /\ got' \in [OutEvents -> Nat]
        /\ \A e \in OutEvents :
             /\ got[e] > 0 \/ e \in E => got'[e] > 0
             /\ got'[e] > 1 => got[e] > 1
             /\ e \notin E => got'[e] = got[e]
    <3>1. CASE conn = "up"
      <4>1. got' = Receive(E) /\ \A e \in E : got[e] = 0
        BY <2>1, <2>2, <3>1
      <4> QED
        BY <1>2, <2>2, <4>1, Received
    <3>2. CASE conn # "up"
      BY <1>2, <2>1, <3>2
    <3> QED
      BY <3>1, <3>2
  <2>4. /\ Batch' = Batch /\ Skipped' = Skipped /\ Before(round)' = Before(round)
        /\ Returned' = Returned
    BY <1>1, <2>1, SameBatch DEF Returned
  <2>5. Range(held') = {} /\ IsInjective(held')
    BY <1>1, <1>2 DEF Range, IsInjective
  <2>6. OutTypes'
    BY <1>1, <2>1, <2>3 DEF OutTypes
  <2>7. CallInv'
    BY <1>1, <1>3, <2>1, <2>4 DEF CallInv
  <2>8. LinkInv'
    BY <1>1 DEF LinkInv
  <2>9. OnceInv'
    <3>1. \A e \in left' : got'[e] = 0
      BY <1>3, <2>1, <2>2, <2>3
    <3>2. \A e \in OutEvents \ Before(round) : got'[e] = 0
      BY <1>3, <2>1, <2>3 DEF OnceInv
    <3>3. \A e \in OutEvents : got'[e] > 1 => e \in unsure'
      BY <1>1, <2>3 DEF OnceInv
    <3> QED
      BY <1>1, <1>2, <2>4, <2>5, <3>1, <3>2, <3>3 DEF OnceInv
  <2>10. DeliverInv'
    <3>1. ASSUME NEW e \in OutEvents, Arrived(e) PROVE Arrived(e)'
      BY <1>1, <2>3, <3>1, ArrivedStays
    <3>2. oks \subseteq OutEvents
      BY DEF CallInv, Returned, Before
    <3>3. ASSUME NEW e \in (Batch \ Skipped) \ left' PROVE Arrived(e)'
      <4>1. CASE e \in E
        BY <1>3, <2>1, <2>3, <4>1 DEF Arrived
      <4>2. CASE e \notin left
        BY <1>1, <1>2, <1>3, <3>1, <3>3, <4>2 DEF DeliverInv
      <4> QED
        BY <2>1, <3>3, <4>1, <4>2
    <3> QED
      BY <1>1, <2>1, <2>4, <3>1, <3>2, <3>3 DEF DeliverInv
  <2> QED
    BY <2>6, <2>7, <2>8, <2>9, <2>10
<1> QED
  BY <1>5, <1>6, <1>7

-----------------------------------------------------------------------------
(* The theorems.                                                           *)

\* The invariant holds before the first call.
LEMMA InitKeeps == OutInit => OutInv
<1> SUFFICES ASSUME OutInit PROVE OutInv
  OBVIOUS
<1> USE DEF OutInit
<1>1. NumBatches \in Nat /\ <<>> \in Seq(OutEvents) /\ Range(<<>>) = {} /\ IsInjective(<<>>)
  BY OutputAssumption, EmptySeq DEF Range, IsInjective
<1>2. OutTypes
  <2>1. round \in 0 .. NumBatches /\ got \in [OutEvents -> Nat] /\ held \in Seq(OutEvents)
    BY <1>1
  <2>2. failed \in BOOLEAN /\ cause \in BOOLEAN /\ sinkUp \in BOOLEAN
    OBVIOUS
  <2> QED
    BY <2>1, <2>2 DEF OutTypes
<1>3. CallInv
  BY DEF CallInv
<1>4. LinkInv
  BY DEF LinkInv
<1>5. OnceInv
  BY <1>1 DEF OnceInv
<1>6. DeliverInv
  BY DEF DeliverInv
<1> QED
  BY <1>2, <1>3, <1>4, <1>5, <1>6 DEF OutInv

\* Every step of every plugin keeps the invariant.
LEMMA Invariance == OutSpec => []OutInv
<1>1. OutInv /\ [OutNext]_outVars => OutInv'
  BY BeginStep, EndSteps, RequestStep, WriteStep, S3OutputStep, FlushSteps, PipeWriteStep,
     BusSendStep, ChildReadsStep, LinkSteps DEF OutNext, OutStep
<1> QED
  BY <1>1, InitKeeps, PTL DEF OutSpec

\* Ok is the truth: an event of a batch for which output() returned Ok is at the sink or
\* in the plugin's buffer, except where nobody answers, the plugin leaves the event out, or
\* the file or the child has gone.
THEOREM OkDeliveredHolds == OutSpec => []OkDelivered
<1>1. OutInv => OkDelivered
  BY DEF OutInv, DeliverInv, Arrived, OkDelivered
<1> QED
  BY <1>1, Invariance, PTL

\* A sink receives an event twice only if an answer about it was lost: no plugin's retry
\* or buffer sends again what is known to have arrived.
THEOREM ResentOnlyIfUnsureHolds == OutSpec => []ResentOnlyIfUnsure
<1>1. OutInv => ResentOnlyIfUnsure
  BY DEF OutInv, OnceInv, ResentOnlyIfUnsure
<1> QED
  BY <1>1, Invariance, PTL

\* After close(), without faults and outages, every event of a successful batch has
\* arrived exactly once, through s3's buffer and the child's standard input too.
THEOREM DeliveredAtCloseHolds == OutSpec => []DeliveredAtClose
<1>1. OutInv => DeliveredAtClose
  <2> SUFFICES ASSUME OutInv, opc = "closed", sinkFaults = 0, outages = 0,
                      NEW e \in oks \ Skipped
               PROVE  got[e] = 1
    BY DEF DeliveredAtClose
  <2> USE DEF OutInv
  <2>1. e \in OutEvents /\ got[e] \in Nat
    BY DEF CallInv, Returned, Before, OutTypes
  <2>2. unsure = {} /\ nowhere = {}
    BY DEF LinkInv
  <2>3. ~ (got[e] > 1)
    BY <2>1, <2>2 DEF OnceInv
  <2>4. out \in {"s3", "pipe"} => Range(held) = {}
    BY DEF DeliverInv, Range
  <2>5. got[e] > 0
    BY <2>2, <2>4 DEF DeliverInv, Arrived
  <2> QED
    BY <2>1, <2>3, <2>5
<1> QED
  BY <1>1, Invariance, PTL

\* A batch goes to the dead letter queue only for something that happened in its own
\* call, rabbitmq's dead channel excepted.
THEOREM ErrHasCauseHolds == OutSpec => []ErrHasCause
<1>1. OutInv => ErrHasCause
  BY DEF OutInv, CallInv, ErrHasCause
<1> QED
  BY <1>1, Invariance, PTL
=============================================================================
