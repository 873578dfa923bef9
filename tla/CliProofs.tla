------------------------------ MODULE CliProofs -----------------------------
(***************************************************************************)
(* Proofs about the process: an hour is billed at most once and never      *)
(* before it has begun (MeteredOnce), for any length of the hour, number   *)
(* of attempts and clock; and no setting that is accepted, whatever number *)
(* it is, makes a plugin panic or use another port (SettingsSound).        *)
(***************************************************************************)
EXTENDS Cli, TLAPS

-----------------------------------------------------------------------------
(* The metering loop.                                                      *)

\* The bucket of an instant is the start of its hour, which is its own bucket.
LEMMA BucketFacts ==
  ASSUME NEW t \in Nat
  PROVE  /\ hour_bucket_secs(t) \in Nat
         /\ hour_bucket_secs(t) <= t
         /\ hour_bucket_secs(hour_bucket_secs(t)) = hour_bucket_secs(t)
<1> DEFINE q == t \div SecsPerHour
<1>1. SecsPerHour \in Nat /\ SecsPerHour > 0
  BY MarketplaceAssumption
<1>2. q \in Nat /\ q * SecsPerHour \in Nat
  BY <1>1
<1>3. q * SecsPerHour <= t
  BY <1>1
<1>4. (q * SecsPerHour) \div SecsPerHour = q
  BY <1>1, <1>2
<1> QED
  BY <1>2, <1>3, <1>4 DEF hour_bucket_secs

\* The start of an hour that has begun.
BegunHour(t) == t \in Nat /\ t = hour_bucket_secs(t) /\ t <= now

\* The records are starts of hours that have begun, and so is the timestamp that is
\* being sent; the metering task runs behind an open gate only.
MeterInv ==
  /\ now \in Nat
  /\ \A t \in recorded : BegunHour(t)
  /\ mpc = "send" => BegunHour(bucket)
  /\ mpc # "off" => gate = "open"

\* Every step of the gate and of the metering loop keeps MeterInv.
LEMMA MeterStep ==
  ASSUME MeterInv, [MarketNext]_marketVars
  PROVE  MeterInv'
<1> USE DEF MeterInv, BegunHour
<1>1. CASE SkipEntitlement
  BY <1>1 DEF SkipEntitlement, decide
<1>2. ASSUME NEW reply, register_usage(reply)
      PROVE  MeterInv'
  BY <1>2 DEF register_usage, decide, classify_service_error
<1>3. CASE StartPass
  BY <1>3, BucketFacts DEF StartPass
<1>4. CASE Wake
  BY <1>4 DEF Wake
<1>5. CASE Tick
  BY <1>5 DEF Tick
<1>6. ASSUME NEW reply, meter_usage_once(reply)
      PROVE  MeterInv'
  <2>1. UNCHANGED <<now, bucket>> /\ \A t \in recorded' : t \in recorded \/ t = bucket
    BY <1>6 DEF meter_usage_once, Service
  <2>2. mpc = "send" /\ (mpc' # "off" => gate' = gate)
    BY <1>6 DEF meter_usage_once
  <2> QED
    BY <2>1, <2>2
<1>7. CASE RestartMetered
  BY <1>7 DEF RestartMetered
<1>8. CASE UNCHANGED marketVars
  BY <1>8 DEF marketVars
<1> QED
  BY <1>1, <1>2, <1>3, <1>4, <1>5, <1>6, <1>7, <1>8 DEF MarketNext

\* The gate and the metering loop alone bill an hour at most once, never before it
\* has begun and only after RegisterUsage succeeded, for any number of retries, lost
\* answers and restarts.
THEOREM MarketMeteredOnce == MarketSpec => []MeteredOnce
<1>1. MarketInit => MeterInv
  BY DEF MarketInit, MeterInv
<1>2. MeterInv /\ [MarketNext]_marketVars => MeterInv'
  BY MeterStep
<1>3. MeterInv => MeteredOnce
  BY DEF MeterInv, BegunHour, MeteredOnce, hour_bucket_secs
<1> QED
  BY <1>1, <1>2, <1>3, PTL DEF MarketSpec

\* Whatever the process does, the gate and the metering loop take one of their own
\* steps or none.
LEMMA MarketSteps ==
  ASSUME [Next]_vars
  PROVE  [MarketNext]_marketVars
<1>1. CASE Entitlement
  BY <1>1 DEF Entitlement, MarketNext
<1>2. CASE Metering
  BY <1>2 DEF Metering, MarketNext
<1>3. CASE RestartProcess
  BY <1>3 DEF RestartProcess, MarketNext
<1>4. ASSUME ~Entitlement, ~Metering, ~RestartProcess
      PROVE  UNCHANGED marketVars
  BY <1>4
  DEF Next, vars, PassGate, acquire_data_lock, LoadConfig, StartEntry, Edit, AwaitAll,
      BuildPipeline, AwaitPipelines, ReceiveSignal, CreatePlugin, PipelineEnds,
      SelectShutdown, SelectReload, SelectExit, PipelineStopped, StopTimeout,
      FirstSnapshot, Poll, SendReload
<1> QED
  BY <1>1, <1>2, <1>3, <1>4

\* The whole process, with its pipelines, reloads, signals and restarts, implements
\* the specification of the gate and the metering loop.
THEOREM ProcessMeters == Spec => MarketSpec
<1>1. Init => MarketInit
  BY DEF Init
<1>2. [Next]_vars => [MarketNext]_marketVars
  BY MarketSteps
<1> QED
  BY <1>1, <1>2, PTL DEF Spec, MarketSpec

\* In the whole process, whatever is retried, lost or restarted, an hour is billed at
\* most once, never before it has begun, and only once RegisterUsage has succeeded.
THEOREM MeteredOnceHolds == Spec => []MeteredOnce
BY MarketMeteredOnce, ProcessMeters, PTL

-----------------------------------------------------------------------------
(* The settings.                                                           *)

\* Any integers, not only the few that TLC enumerates.
AnyNumbers(s) == s.port \in Int /\ s.every \in Int /\ s.size \in Int

\* The numbers of a configuration that was built from s are in order.
InOrder(b, s) ==
  b.ok => /\ b.interval > 0 /\ b.chunks > 0
          /\ s.port >= 0 /\ b.port >= 0 => b.port = s.port

\* What SettingsSound asks of a configuration that was built from s, for a plugin that
\* no number stops.
Sound(b, s) == InOrder(b, s) /\ (b.ok => b.panic = "")

\* And for the two that one number stops.
UdpSound(b, s) == InOrder(b, s) /\ (b.ok /\ b.panic # "" => s.size = Huge)
StreamingSound(b, s) == InOrder(b, s) /\ (b.ok /\ b.panic # "" => s.every = Huge)

\* get_port answers a number in range unchanged and a number out of range with an error.
LEMMA GetPort ==
  ASSUME NEW v \in Int, NEW default \in Int
  PROVE  \A p \in get_port(v, default) : p \in Int /\ (v >= 0 => p = v)
BY WidthAssumption DEF get_port, Absent, Null

\* The port that ? hands on when get_port answers one.
Port(v, default) == CHOOSE x \in get_port(v, default) : TRUE

\* It is the number that was given, if one was.
LEMMA PortFacts ==
  ASSUME NEW v \in Int, NEW default \in Int, get_port(v, default) # {}
  PROVE  Port(v, default) \in Int /\ (v >= 0 => Port(v, default) = v)
BY GetPort DEF Port

\* A plugin on a port, with another of its fields set.
Limited(p, x) == [OnPort(p) EXCEPT !.limit = x]
Slept(p, x) == [OnPort(p) EXCEPT !.sleep = x]
Listed(p, x) == [OnPort(p) EXCEPT !.list = x]

\* A plugin on the port that get_port answered is sound, whatever other field is set.
LEMMA PortSound ==
  ASSUME NEW s, AnyNumbers(s), NEW default \in {0, 1}, get_port(s.port, default) # {},
         NEW p, p = Port(s.port, default), NEW x
  PROVE  /\ Sound(OnPort(p), s) /\ Sound(Late(s, OnPort(p)), s)
         /\ Sound(Limited(p, x), s) /\ Sound(Slept(p, x), s) /\ Sound(Listed(p, x), s)
         /\ Sound(Late(s, Slept(p, x)), s)
<1>1. s.port >= 0 => p = s.port
  BY PortFacts DEF AnyNumbers
<1>2. ASSUME NEW b, b.port = p, b.interval = 1, b.chunks = 1, b.panic = ""
      PROVE  Sound(b, s)
  <2>1. b.port = p /\ b.interval = 1 /\ b.chunks = 1
    BY <1>2
  <2>2. InOrder(b, s)
    BY <1>1, <2>1 DEF InOrder
  <2> QED
    BY <1>2, <2>2, Zenon DEF Sound
<1>3. /\ OnPort(p).port = p /\ OnPort(p).interval = 1 /\ OnPort(p).chunks = 1
      /\ Late(s, OnPort(p)).port = p /\ Late(s, OnPort(p)).interval = 1
      /\ Late(s, OnPort(p)).chunks = 1
      /\ OnPort(p).panic = "" /\ Late(s, OnPort(p)).panic = ""
  BY DEF OnPort, Built, Late
<1>4. /\ Limited(p, x).port = p /\ Limited(p, x).interval = 1 /\ Limited(p, x).chunks = 1
      /\ Limited(p, x).panic = ""
  BY DEF OnPort, Built, Limited
<1>5. /\ Slept(p, x).port = p /\ Slept(p, x).interval = 1 /\ Slept(p, x).chunks = 1
      /\ Slept(p, x).panic = ""
  BY DEF OnPort, Built, Slept
<1>6. /\ Listed(p, x).port = p /\ Listed(p, x).interval = 1 /\ Listed(p, x).chunks = 1
      /\ Listed(p, x).panic = ""
  BY DEF OnPort, Built, Listed
<1>7. /\ Late(s, Slept(p, x)).port = p /\ Late(s, Slept(p, x)).interval = 1
      /\ Late(s, Slept(p, x)).chunks = 1 /\ Late(s, Slept(p, x)).panic = ""
  BY DEF OnPort, Built, Slept, Late
<1> QED
  BY <1>2, <1>3, <1>4, <1>5, <1>6, <1>7

\* A configuration that is refused is sound.
LEMMA RejectedSound == ASSUME NEW s PROVE Sound(Rejected, s)
BY DEF Sound, InOrder, Rejected

\* So is what a condition guards, if it is sound itself.
LEMMA GuardSound ==
  ASSUME NEW s, NEW c, NEW b, Sound(b, s)
  PROVE  Sound(IfGiven(c, b), s)
BY RejectedSound, Zenon DEF IfGiven

\* Whatever its list and its source, a plugin without numbers is sound.
LEMMA PlainSound ==
  ASSUME NEW s
  PROVE  Sound(Built, s) /\ Sound(WithList(s), s) /\ Sound(Reads(s), s)
BY DEF Sound, InOrder, Built, WithList, Reads

\* Whatever its limit and its sleep are too.
LEMMA LimitSound ==
  ASSUME NEW s, NEW x, NEW y
  PROVE  /\ Sound([Built EXCEPT !.limit = x], s)
         /\ Sound([WithList(s) EXCEPT !.limit = x], s)
         /\ Sound([Built EXCEPT !.sleep = y], s)
         /\ Sound([Built EXCEPT !.limit = x, !.sleep = y], s)
         /\ Sound([WithList(s) EXCEPT !.limit = x, !.sleep = y], s)
BY DEF Sound, InOrder, Built, WithList

\* Every input, for any numbers.
LEMMA InputsSound ==
  ASSUME NEW s, AnyNumbers(s)
  PROVE  /\ Sound(TcpInput(s), s)
         /\ UdpSound(UdpInput(s), s)
         /\ Sound(HttpInput(s), s)
         /\ Sound(SyslogInput(s), s)
         /\ Sound(GelfInput(s), s)
         /\ Sound(GraphiteInput(s), s)
         /\ Sound(BeatsInput(s), s)
         /\ Sound(UnixInput(s), s)
         /\ Sound(StdinInput(s), s)
         /\ Sound(GeneratorInput(s), s)
         /\ Sound(HeartbeatInput(s), s)
         /\ Sound(ExecInput(s), s)
         /\ Sound(PipeInput(s), s)
         /\ Sound(HttpPollerInput(s), s)
         /\ Sound(ElasticsearchInput(s), s)
         /\ Sound(KafkaInput(s), s)
         /\ Sound(SqsInput(s), s)
         /\ Sound(RabbitmqInput(s), s)
         /\ Sound(RedisInput(s), s)
         /\ Sound(FileInput(s), s)
         /\ Sound(S3Input(s), s)
         /\ Sound(JdbcInput(s), s)
         /\ Sound(CloudwatchInput(s), s)
         /\ Sound(DlqInput(s), s)
         /\ Sound(PipelineInput(s), s)
<1>1. Sound(TcpInput(s), s)
  <2>1. \/ TcpInput(s) = Rejected
        \/ get_port(s.port, 1) # {} /\ TcpInput(s) = OnPort(Port(s.port, 1))
    BY Zenon DEF TcpInput, Needs, IfGiven, Port
  <2> QED
    BY <2>1, PortSound, RejectedSound
<1>2. UdpSound(UdpInput(s), s)
  <2> DEFINE p == Port(s.port, 1)
             panic == IF s.size = Huge THEN "run" ELSE ""
             built == [OnPort(p) EXCEPT !.limit = get_u64(s.size, 2), !.panic = panic]
  <2>1. \/ UdpInput(s) = Rejected
        \/ get_port(s.port, 1) # {} /\ UdpInput(s) = built
    BY Zenon DEF UdpInput, Needs, IfGiven, Port
  <2>2. ASSUME get_port(s.port, 1) # {}
        PROVE  UdpSound(built, s)
    <3>1. s.port >= 0 => p = s.port
      BY <2>2, PortFacts DEF AnyNumbers
    <3>2. built.port = p /\ built.interval = 1 /\ built.chunks = 1
      BY DEF OnPort, Built
    <3>3. built.panic = panic
      BY DEF OnPort, Built
    <3>4. InOrder(built, s)
      <4> HIDE DEF built, p
      <4> QED
        BY <3>1, <3>2 DEF InOrder
    <3>5. built.panic # "" => s.size = Huge
      BY <3>3, Zenon
    <3> QED
      BY <3>4, <3>5, Zenon DEF UdpSound
  <2>3. UdpSound(Rejected, s)
    BY DEF UdpSound, InOrder, Rejected
  <2> QED
    BY <2>1, <2>2, <2>3
<1>3. Sound(HttpInput(s), s)
  <2>1. \/ HttpInput(s) = Rejected
        \/ get_port(s.port, 1) # {} /\ HttpInput(s) = OnPort(Port(s.port, 1))
    BY Zenon DEF HttpInput, Needs, IfGiven, Port
  <2> QED
    BY <2>1, PortSound, RejectedSound
<1>4. Sound(SyslogInput(s), s)
  <2>1. \/ SyslogInput(s) = Rejected
        \/ get_port(s.port, 1) # {} /\ SyslogInput(s) = OnPort(Port(s.port, 1))
    BY Zenon DEF SyslogInput, Needs, IfGiven, Port
  <2> QED
    BY <2>1, PortSound, RejectedSound
<1>5. Sound(GelfInput(s), s)
  <2>1. \/ GelfInput(s) = Rejected
        \/ get_port(s.port, 1) # {} /\ GelfInput(s) = OnPort(Port(s.port, 1))
    BY Zenon DEF GelfInput, Needs, IfGiven, Port
  <2> QED
    BY <2>1, PortSound, RejectedSound
<1>6. Sound(GraphiteInput(s), s)
  <2>1. \/ GraphiteInput(s) = Rejected
        \/ get_port(s.port, 1) # {} /\ GraphiteInput(s) = OnPort(Port(s.port, 1))
    BY Zenon DEF GraphiteInput, Needs, IfGiven, Port
  <2> QED
    BY <2>1, PortSound, RejectedSound
<1>7. Sound(BeatsInput(s), s)
  <2>1. \/ BeatsInput(s) = Rejected
        \/ get_port(s.port, 1) # {} /\ BeatsInput(s) = OnPort(Port(s.port, 1))
    BY Zenon DEF BeatsInput, Needs, IfGiven, Port
  <2> QED
    BY <2>1, PortSound, RejectedSound
<1>8. Sound(UnixInput(s), s)
  BY PlainSound, GuardSound, Zenon DEF UnixInput

<1>9. Sound(StdinInput(s), s)
  BY DEF StdinInput, Sound, InOrder, Built
<1>10. Sound(GeneratorInput(s), s)
  BY DEF GeneratorInput, Sound, InOrder, Built, get_u64, as_u64_flexible, AnyNumbers
<1>11. Sound(HeartbeatInput(s), s)
  BY DEF HeartbeatInput, Sound, InOrder, Built, AtLeast, get_u64, as_u64_flexible, AnyNumbers
<1>12. Sound(ExecInput(s), s)
  BY DEF ExecInput, Sound, InOrder, Built, IfGiven, AtLeast, get_u64, Rejected, as_u64_flexible,
         AnyNumbers
<1>13. Sound(PipeInput(s), s)
  BY DEF PipeInput, Sound, InOrder, Built, IfGiven, Rejected
<1>14. Sound(HttpPollerInput(s), s)
  BY DEF HttpPollerInput, Sound, InOrder, Built, IfGiven, Late, AtLeast, get_u64, Rejected,
         as_u64_flexible, AnyNumbers
<1>15. Sound(ElasticsearchInput(s), s)
  <2>1. ScheduleSecs(s.every) > 0
    BY DEF ScheduleSecs, AtLeast, get_u64, as_u64_flexible, AnyNumbers
  <2>2. Sound([Built EXCEPT !.interval = ScheduleSecs(s.every), !.limit = get_u64(s.size, 1)], s)
    BY <2>1 DEF Sound, InOrder, Built
  <2> QED
    BY <2>2, GuardSound, Zenon DEF ElasticsearchInput
<1>16. Sound(KafkaInput(s), s)
  BY DEF KafkaInput, Sound, InOrder, Built, IfGiven, Late, get_u64, Rejected, as_u64_flexible,
         AnyNumbers
<1>17. Sound(SqsInput(s), s)
  BY DEF SqsInput, Sound, InOrder, Built, IfGiven, Late, AtLeast, AtMost, get_u64, Rejected,
         as_u64_flexible, AnyNumbers
<1>18. Sound(RabbitmqInput(s), s)
  <2>1. \/ RabbitmqInput(s) = Rejected
        \/ /\ get_port(s.port, 1) # {}
           /\ RabbitmqInput(s) = Late(s, OnPort(Port(s.port, 1)))
    BY Zenon DEF RabbitmqInput, Needs, IfGiven, Port
  <2> QED
    BY <2>1, PortSound, RejectedSound
<1>19. Sound(RedisInput(s), s)
  <2>1. \/ RedisInput(s) = Rejected
        \/ /\ get_port(s.port, 1) # {}
           /\ RedisInput(s) = Late(s, Slept(Port(s.port, 1), 1))
    BY Zenon DEF RedisInput, Needs, IfGiven, Port, Slept
  <2> QED
    BY <2>1, PortSound, RejectedSound
<1>20. Sound(FileInput(s), s)
  BY DEF FileInput, Sound, InOrder, Built, IfGiven, AtLeast, get_u64, Rejected, as_u64_flexible,
         AnyNumbers
<1>21. Sound(S3Input(s), s)
  BY DEF S3Input, Sound, InOrder, Built, IfGiven, Late, AtLeast, get_u64, Rejected,
         as_u64_flexible, AnyNumbers
<1>22. Sound(JdbcInput(s), s)
  BY DEF JdbcInput, Sound, InOrder, Built, IfGiven, AtLeast, get_u64, Rejected, as_u64_flexible,
         AnyNumbers
<1>23. Sound(CloudwatchInput(s), s)
  BY DEF CloudwatchInput, Sound, InOrder, Built, IfGiven, AtLeast, AtMost, get_u64, Rejected,
         as_u64_flexible, AnyNumbers
<1>24. Sound(DlqInput(s), s)
  BY DEF DlqInput, Sound, InOrder, Built
<1>25. Sound(PipelineInput(s), s)
  BY DEF PipelineInput, Sound, InOrder, Built, IfGiven, Rejected
<1> QED
  BY <1>1, <1>2, <1>3, <1>4, <1>5, <1>6, <1>7, <1>8, <1>9, <1>10, <1>11, <1>12, <1>13,
     <1>14, <1>15, <1>16, <1>17, <1>18, <1>19, <1>20, <1>21, <1>22, <1>23, <1>24,
     <1>25

\* Every output, for any numbers.
LEMMA OutputsSound ==
  ASSUME NEW s, AnyNumbers(s)
  PROVE  /\ Sound(ElasticsearchOutput(s), s)
         /\ Sound(HttpOutput(s), s)
         /\ Sound(KafkaOutput(s), s)
         /\ Sound(RedisOutput(s), s)
         /\ Sound(SqsOutput(s), s)
         /\ Sound(SnsOutput(s), s)
         /\ Sound(RabbitmqOutput(s), s)
         /\ Sound(JdbcOutput(s), s)
         /\ Sound(DatadogOutput(s), s)
         /\ Sound(CloudwatchOutput(s), s)
         /\ Sound(EmailOutput(s), s)
         /\ Sound(FileOutput(s), s)
         /\ Sound(CsvOutput(s), s)
         /\ Sound(TcpOutput(s), s)
         /\ Sound(UdpOutput(s), s)
         /\ Sound(GraphiteOutput(s), s)
         /\ Sound(PipeOutput(s), s)
         /\ Sound(StdoutOutput(s), s)
         /\ Sound(NullOutput(s), s)
         /\ Sound(S3Output(s), s)
         /\ Sound(PipelineOutput(s), s)
<1>1. Sound(ElasticsearchOutput(s), s)
  BY LimitSound, GuardSound, Zenon DEF ElasticsearchOutput

<1>2. Sound(HttpOutput(s), s)
  BY DEF HttpOutput, Sound, InOrder, Built, IfGiven, get_u64, Rejected, as_u64_flexible, AnyNumbers
<1>3. Sound(KafkaOutput(s), s)
  BY LimitSound, GuardSound, Zenon DEF KafkaOutput

<1>4. Sound(RedisOutput(s), s)
  <2>1. \/ RedisOutput(s) = Rejected
        \/ get_port(s.port, 1) # {} /\ RedisOutput(s) = OnPort(Port(s.port, 1))
    BY Zenon DEF RedisOutput, Needs, IfGiven, Port
  <2> QED
    BY <2>1, PortSound, RejectedSound
<1>5. Sound(SqsOutput(s), s)
  BY DEF SqsOutput, Sound, InOrder, Built, IfGiven, Rejected
<1>6. Sound(SnsOutput(s), s)
  BY DEF SnsOutput, Sound, InOrder, Built, IfGiven, Rejected
<1>7. Sound(RabbitmqOutput(s), s)
  <2>1. \/ RabbitmqOutput(s) = Rejected
        \/ get_port(s.port, 1) # {} /\ RabbitmqOutput(s) = OnPort(Port(s.port, 1))
    BY Zenon DEF RabbitmqOutput, Needs, IfGiven, Port
  <2> QED
    BY <2>1, PortSound, RejectedSound
<1>8. Sound(JdbcOutput(s), s)
  BY DEF JdbcOutput, Sound, InOrder, Built, IfGiven, WithList, Rejected
<1>9. Sound(DatadogOutput(s), s)
  BY DEF DatadogOutput, Sound, InOrder, Built, IfGiven, WithList, AtLeast, get_u64, Rejected,
         as_u64_flexible, AnyNumbers
<1>10. Sound(CloudwatchOutput(s), s)
  BY DEF CloudwatchOutput, Sound, InOrder, Built, WithList
<1>11. Sound(EmailOutput(s), s)
  <2>1. \/ EmailOutput(s) = Rejected
        \/ get_port(s.port, 1) # {} /\ EmailOutput(s) = OnPort(Port(s.port, 1))
    BY Zenon DEF EmailOutput, Needs, IfGiven, Port
  <2> QED
    BY <2>1, PortSound, RejectedSound
<1>12. Sound(FileOutput(s), s)
  BY DEF FileOutput, Sound, InOrder, Built, IfGiven, get_u64, Rejected, as_u64_flexible, AnyNumbers
<1>13. Sound(CsvOutput(s), s)
  BY DEF CsvOutput, Sound, InOrder, Built, IfGiven, WithList, Rejected
<1>14. Sound(TcpOutput(s), s)
  <2>1. \/ TcpOutput(s) = Rejected
        \/ /\ get_port(s.port, 0) # {}
           /\ TcpOutput(s) = Slept(Port(s.port, 0), get_u64(s.every, 2))
    BY Zenon DEF TcpOutput, Needs, IfGiven, Port, Slept
  <2> QED
    BY <2>1, PortSound, RejectedSound
<1>15. Sound(UdpOutput(s), s)
  <2>1. \/ UdpOutput(s) = Rejected
        \/ get_port(s.port, 0) # {} /\ UdpOutput(s) = OnPort(Port(s.port, 0))
    BY Zenon DEF UdpOutput, Needs, IfGiven, Port
  <2> QED
    BY <2>1, PortSound, RejectedSound
<1>16. Sound(GraphiteOutput(s), s)
  <2>1. \/ GraphiteOutput(s) = Rejected
        \/ /\ get_port(s.port, 1) # {}
           /\ GraphiteOutput(s) = Listed(Port(s.port, 1), Strings(s.list))
    BY Zenon DEF GraphiteOutput, Needs, IfGiven, Port, Listed
  <2> QED
    BY <2>1, PortSound, RejectedSound
<1>17. Sound(PipeOutput(s), s)
  BY DEF PipeOutput, Sound, InOrder, Built, IfGiven, Rejected
<1>18. Sound(StdoutOutput(s), s)
  BY DEF StdoutOutput, Sound, InOrder, Built
<1>19. Sound(NullOutput(s), s)
  BY DEF NullOutput, Sound, InOrder, Built
<1>20. Sound(S3Output(s), s)
  BY DEF S3Output, Sound, InOrder, Built, IfGiven, get_u64, Rejected, as_u64_flexible, AnyNumbers
<1>21. Sound(PipelineOutput(s), s)
  BY DEF PipelineOutput, Sound, InOrder, Built, IfGiven, WithList, Rejected
<1> QED
  BY <1>1, <1>2, <1>3, <1>4, <1>5, <1>6, <1>7, <1>8, <1>9, <1>10, <1>11, <1>12, <1>13,
     <1>14, <1>15, <1>16, <1>17, <1>18, <1>19, <1>20, <1>21

\* Every filter, for any numbers.
LEMMA FiltersSound ==
  ASSUME NEW s, AnyNumbers(s)
  PROVE  /\ Sound(GrokFilter(s), s)
         /\ Sound(MutateFilter(s), s)
         /\ Sound(JsonFilter(s), s)
         /\ Sound(DateFilter(s), s)
         /\ Sound(DissectFilter(s), s)
         /\ Sound(KvFilter(s), s)
         /\ Sound(DropFilter(s), s)
         /\ Sound(CloneFilter(s), s)
         /\ Sound(RubyFilter(s), s)
         /\ Sound(ScriptFilter(s), s)
         /\ Sound(GeoipFilter(s), s)
         /\ Sound(SleepFilter(s), s)
         /\ Sound(AggregateFilter(s), s)
         /\ Sound(ThrottleFilter(s), s)
         /\ Sound(TranslateFilter(s), s)
         /\ Sound(FingerprintFilter(s), s)
         /\ Sound(UseragentFilter(s), s)
         /\ Sound(CsvFilter(s), s)
         /\ Sound(UrldecodeFilter(s), s)
         /\ Sound(SplitFilter(s), s)
         /\ Sound(TruncateFilter(s), s)
         /\ Sound(PruneFilter(s), s)
         /\ Sound(XmlFilter(s), s)
         /\ Sound(DnsFilter(s), s)
         /\ Sound(ElasticsearchFilter(s), s)
         /\ Sound(HttpFilter(s), s)
         /\ Sound(MetricsFilter(s), s)
         /\ Sound(DeDotFilter(s), s)
         /\ Sound(JsonEncodeFilter(s), s)
         /\ Sound(BytesFilter(s), s)
         /\ Sound(CidrFilter(s), s)
         /\ Sound(UuidFilter(s), s)
         /\ Sound(SyslogPriFilter(s), s)
         /\ Sound(AnonymizeFilter(s), s)
         /\ Sound(MemcachedFilter(s), s)
         /\ StreamingSound(JdbcStreamingFilter(s), s)
         /\ Sound(JdbcStaticFilter(s), s)
<1>1. Sound(GrokFilter(s), s)
  BY PlainSound, GuardSound, Zenon DEF GrokFilter

<1>2. Sound(MutateFilter(s), s)
  BY DEF MutateFilter, Sound, InOrder, Built, WithList
<1>3. Sound(JsonFilter(s), s)
  BY DEF JsonFilter, Sound, InOrder, Built, Reads, WithList
<1>4. Sound(DateFilter(s), s)
  BY DEF DateFilter, Sound, InOrder, Built, Reads, WithList
<1>5. Sound(DissectFilter(s), s)
  BY DEF DissectFilter, Sound, InOrder, Built, IfGiven, WithList, Rejected
<1>6. Sound(KvFilter(s), s)
  BY DEF KvFilter, Sound, InOrder, Built, Reads, WithList
<1>7. Sound(DropFilter(s), s)
  BY DEF DropFilter, Sound, InOrder, Built, get_u64, as_u64_flexible, AnyNumbers
<1>8. Sound(CloneFilter(s), s)
  BY DEF CloneFilter, Sound, InOrder, Built, WithList, get_u64, as_u64_flexible, AnyNumbers
<1>9. Sound(RubyFilter(s), s)
  BY PlainSound, GuardSound, Zenon DEF RubyFilter

<1>10. Sound(ScriptFilter(s), s)
  BY PlainSound, GuardSound, Zenon DEF ScriptFilter

<1>11. Sound(GeoipFilter(s), s)
  BY PlainSound, GuardSound, Zenon DEF GeoipFilter

<1>12. Sound(SleepFilter(s), s)
  BY DEF SleepFilter, Sound, InOrder, Built, AtLeast, get_u64, as_u64_flexible, AnyNumbers
<1>13. Sound(AggregateFilter(s), s)
  BY DEF AggregateFilter, Sound, InOrder, Built, Reads, get_u64, WithList, as_u64_flexible,
         AnyNumbers
<1>14. Sound(ThrottleFilter(s), s)
  BY DEF ThrottleFilter, Sound, InOrder, Built, Reads, get_u64, WithList, as_u64_flexible,
         AnyNumbers
<1>15. Sound(TranslateFilter(s), s)
  BY DEF TranslateFilter, Sound, InOrder, Built, Reads, WithList
<1>16. Sound(FingerprintFilter(s), s)
  BY DEF FingerprintFilter, Sound, InOrder, Built, Reads, WithList
<1>17. Sound(UseragentFilter(s), s)
  BY DEF UseragentFilter, Sound, InOrder, Built, Reads, WithList
<1>18. Sound(CsvFilter(s), s)
  BY DEF CsvFilter, Sound, InOrder, Built, Reads, WithList
<1>19. Sound(UrldecodeFilter(s), s)
  BY DEF UrldecodeFilter, Sound, InOrder, Built, Reads, WithList
<1>20. Sound(SplitFilter(s), s)
  BY DEF SplitFilter, Sound, InOrder, Built, Reads, WithList
<1>21. Sound(TruncateFilter(s), s)
  BY DEF TruncateFilter, Sound, InOrder, Built, WithList, get_u64, as_u64_flexible, AnyNumbers
<1>22. Sound(PruneFilter(s), s)
  BY DEF PruneFilter, Sound, InOrder, Built, WithList
<1>23. Sound(XmlFilter(s), s)
  BY DEF XmlFilter, Sound, InOrder, Built, Reads, WithList
<1>24. Sound(DnsFilter(s), s)
  BY PlainSound, GuardSound, Zenon DEF DnsFilter

<1>25. Sound(ElasticsearchFilter(s), s)
  BY LimitSound, GuardSound, Zenon DEF ElasticsearchFilter

<1>26. Sound(HttpFilter(s), s)
  BY LimitSound, GuardSound, Zenon DEF HttpFilter

<1>27. Sound(MetricsFilter(s), s)
  BY DEF MetricsFilter, Sound, InOrder, Built, WithList, get_u64, as_u64_flexible, AnyNumbers
<1>28. Sound(DeDotFilter(s), s)
  BY DEF DeDotFilter, Sound, InOrder, Built
<1>29. Sound(JsonEncodeFilter(s), s)
  BY DEF JsonEncodeFilter, Sound, InOrder, Built
<1>30. Sound(BytesFilter(s), s)
  BY DEF BytesFilter, Sound, InOrder, Built, Reads, WithList
<1>31. Sound(CidrFilter(s), s)
  BY PlainSound, GuardSound, Zenon DEF CidrFilter

<1>32. Sound(UuidFilter(s), s)
  BY DEF UuidFilter, Sound, InOrder, Built, IfGiven, Rejected
<1>33. Sound(SyslogPriFilter(s), s)
  BY DEF SyslogPriFilter, Sound, InOrder, Built, Reads, WithList
<1>34. Sound(AnonymizeFilter(s), s)
  BY PlainSound, GuardSound, Zenon DEF AnonymizeFilter

<1>35. Sound(MemcachedFilter(s), s)
  BY DEF MemcachedFilter, Needs, Sound, InOrder, Built, Rejected
<1>36. StreamingSound(JdbcStreamingFilter(s), s)
  BY DEF JdbcStreamingFilter, StreamingSound, InOrder, Built, IfGiven, get_u64, Rejected, as_u64_flexible,
         AnyNumbers
<1>37. Sound(JdbcStaticFilter(s), s)
  BY DEF JdbcStaticFilter, Sound, InOrder, Built, IfGiven, WithList, AtLeast, get_u64, Rejected,
         as_u64_flexible, AnyNumbers
<1> QED
  BY <1>1, <1>2, <1>3, <1>4, <1>5, <1>6, <1>7, <1>8, <1>9, <1>10, <1>11, <1>12, <1>13,
     <1>14, <1>15, <1>16, <1>17, <1>18, <1>19, <1>20, <1>21, <1>22, <1>23, <1>24,
     <1>25, <1>26, <1>27, <1>28, <1>29, <1>30, <1>31, <1>32, <1>33, <1>34, <1>35,
     <1>36, <1>37

\* What SettingsSound asks of the plugin of a name.
NamedSound(name, b, s) ==
  /\ InOrder(b, s)
  /\ b.ok /\ b.panic # "" => \/ name = "udp" /\ s.size = Huge
                             \/ name = "jdbc_streaming" /\ s.every = Huge

\* What the registries create is sound, whatever the kind, the name and the numbers.
LEMMA CreateSound ==
  ASSUME NEW kind \in {"input", "filter", "output"}, NEW name, NEW s, AnyNumbers(s)
  PROVE  NamedSound(name, create(kind, name, s), s)
<1>1. Sound(Rejected, s)
  BY RejectedSound
<1>2. ASSUME NEW b, Sound(b, s)
      PROVE  NamedSound(name, b, s)
  BY <1>2 DEF NamedSound, Sound
<1>3. NamedSound(name, create_input(name, s), s)
  <2>1. CASE name = "udp"
    <3>1. create_input(name, s) = UdpInput(s)
      BY <2>1 DEF create_input
    <3>2. UdpSound(create_input(name, s), s)
      BY <3>1, InputsSound
    <3> QED
      BY <2>1, <3>2, Zenon DEF UdpSound, NamedSound
  <2>2. CASE name # "udp"
    <3>1. Sound(create_input(name, s), s)
      BY <1>1, <2>2, InputsSound DEF create_input
    <3> QED
      BY <1>2, <3>1
  <2> QED
    BY <2>1, <2>2
<1>4. NamedSound(name, create_output(name, s), s)
  <2>1. Sound(create_output(name, s), s)
    BY <1>1, OutputsSound DEF create_output
  <2> QED
    BY <1>2, <2>1
<1>5. NamedSound(name, create_filter(name, s), s)
  <2>1. CASE name = "jdbc_streaming"
    <3>1. create_filter(name, s) = JdbcStreamingFilter(s)
      BY <2>1 DEF create_filter
    <3> QED
      BY <2>1, <3>1, FiltersSound DEF StreamingSound, NamedSound
  <2>2. CASE name # "jdbc_streaming"
    <3>1. Sound(create_filter(name, s), s)
      BY <1>1, <2>2, FiltersSound DEF create_filter
    <3> QED
      BY <1>2, <3>1
  <2> QED
    BY <2>1, <2>2
<1> QED
  BY <1>3, <1>4, <1>5 DEF create

\* The plugin is one the registries created.
PluginCreated ==
  plugin # NoPlugin =>
    AnyNumbers(plugin.raw) /\ NamedSound(plugin.name, plugin.built, plugin.raw)

\* No accepted number makes tokio::time::interval or chunks panic, a port given as a
\* number is the port that is used, and only the udp input's buffer_size and the
\* jdbc_streaming filter's cache_expiration stop their plugin, when they are Huge.  The
\* widths of u16 and u32 are arbitrary, and so are the numbers.
THEOREM SettingsSoundHolds == Spec => []SettingsSound
<1>1. Init => PluginCreated
  BY DEF Init, PluginCreated
<1>2. ASSUME PluginCreated, [Next]_vars
      PROVE  PluginCreated'
  <2>1. ASSUME NEW kind \in {"input", "filter", "output"}, NEW name, NEW raw \in Raws,
               CreatePlugin(kind, name, raw)
        PROVE  PluginCreated'
    <3>1. AnyNumbers(raw)
      BY WidthAssumption DEF Raws, Raw, AnyNumbers, Absent, Null, Text, Huge
    <3>2. NamedSound(name, create(kind, name, raw), raw)
      BY <3>1, CreateSound
    <3> QED
      BY <2>1, <3>1, <3>2 DEF CreatePlugin, PluginCreated
  <2>2. CASE UNCHANGED plugin
    BY <1>2, <2>2 DEF PluginCreated
  <2>3. UNCHANGED plugin \/ \E kind \in {"input", "filter", "output"} :
                              \E name \in Names(kind), raw \in Raws : CreatePlugin(kind, name, raw)
    BY <1>2
    DEF Next, vars, cliVars, Entitlement, Metering, RestartProcess, PassGate,
        acquire_data_lock, LoadConfig, StartEntry, Edit, AwaitAll, BuildPipeline,
        AwaitPipelines, ReceiveSignal, PipelineEnds, SelectShutdown, SelectReload,
        SelectExit, PipelineStopped, StopTimeout, FirstSnapshot, Poll, SendReload
  <2> QED
    BY <2>1, <2>2, <2>3
<1>3. PluginCreated => SettingsSound
  BY DEF PluginCreated, SettingsSound, NamedSound, InOrder
<1> QED
  BY <1>1, <1>2, <1>3, PTL DEF Spec
=============================================================================
