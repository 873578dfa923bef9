------------------------------ MODULE Settings ------------------------------
(***************************************************************************)
(* How the plugins turn their settings into a configuration: from_config   *)
(* of every input, output and filter, and which numbers the plugin's start *)
(* then depends on.                                                        *)
(*                                                                         *)
(* The settings are abstracted to their roles: need is what the plugin     *)
(* cannot do without (a path, a queue, a statement), list its array or     *)
(* map, form the setting that has to be one of the known ones (a codec, an *)
(* algorithm, a pattern), port its port, every the interval, size the      *)
(* batch, page or buffer size.  Each operator's comment names the settings *)
(* in the roles.  A raw number may be absent, null, text that is not a     *)
(* number, or a number; numbers are scaled down, with the bounds of u16    *)
(* and u32 as constants.                                                   *)
(***************************************************************************)
EXTENDS Integers, FiniteSets

CONSTANTS U16Max, U32Max

ASSUME WidthAssumption == U16Max \in Nat /\ U32Max \in Nat /\ 1 < U16Max /\ U16Max < U32Max

Absent == -1
Null == -2
Text == -3
Huge == U32Max + 2      \* more bytes than a Vec can have, more seconds than a Duration

Raw == [need : {"absent", "blank", "given", "wrong"},   \* wrong: of another type
        list : {"absent", "empty", "given"},
        form : {"absent", "known", "unknown"},
        port : {Absent, Null, Text, 0, 1, U16Max + 1},
        every : {Absent, Text, 0, 1, U32Max + 1, Huge},
        size : {Absent, Text, 0, 1, U32Max + 1, Huge}]

(* Either the numbers vary or the rest does. *)
Raws == {s \in Raw : \/ s.need = "given" /\ s.list = "given" /\ s.form = "known"
                     \/ s.port = 1 /\ s.every = 1 /\ s.size = 1}

(***************************************************************************)
(* settings_helpers: numbers may be written as strings                     *)
(***************************************************************************)

as_u64_flexible(v) == IF v >= 0 THEN {v} ELSE {}
get_u64(v, default) == IF as_u64_flexible(v) = {} THEN default ELSE v
AtLeast(bound, n) == IF n < bound THEN bound ELSE n
AtMost(bound, n) == IF n > bound THEN bound ELSE n

Rejected == [ok |-> FALSE]

(* get_port, get_u32: absent or null is the default, anything else must be *)
(* in range, and is an error otherwise: {}.                                *)
get_port(v, default) ==
  CASE v \in {Absent, Null} -> {default}
    [] v \in 1 .. U16Max -> {v}
    [] OTHER -> {}

get_u32(v, default) ==
  CASE v = Absent -> {default}
    [] v \in 0 .. U32Max -> {v}
    [] OTHER -> {}

Needs(answer, Then(_)) ==                  \* ? in the code
  IF answer = {} THEN Rejected ELSE Then(CHOOSE x \in answer : TRUE)

(* A configuration: the port to bind or connect to (-1: none), the period  *)
(* given to tokio::time::interval (0 panics) or to a sleep, the size given *)
(* to chunks (0 panics) or used as a limit, the field it reads, the fields *)
(* or tags it works on, the codec that run() still has to create, and      *)
(* where it panics (tokio's timers take any period).                       *)
Built == [ok |-> TRUE, port |-> -1, interval |-> 1, sleep |-> 1, chunks |-> 1, limit |-> 1,
          source |-> "default", list |-> "default", late |-> "known",
          panic |-> ""]                     \* "build": in from_config, "run": in run

OnPort(p) == [Built EXCEPT !.port = p]

Given(s) == s.need \in {"given", "blank"}      \* get_string(..).ok_or
NotBlank(s) == s.need = "given"                \* .filter(|s| !s.trim().is_empty())
IfGiven(c, built) == IF c THEN built ELSE Rejected

(* as_array().map_or_else(default, strings): an empty array stays empty *)
Strings(l) == IF l = "absent" THEN "default" ELSE l
WithList(s) == [Built EXCEPT !.list = Strings(s.list)]

(* A filter that reads a field and has a default for everything. *)
Reads(s) == [WithList(s) EXCEPT !.source = IF Given(s) THEN s.need ELSE "default"]

(* create_codec refuses a name it does not know; resolve_codec takes the   *)
(* plugin's default when there is none.  Inputs create theirs in run.      *)
create_codec(s) == s.form # "unknown"
Late(s, built) == [built EXCEPT !.late = s.form]

(***************************************************************************)
(* Inputs                                                                  *)
(***************************************************************************)

TcpInput(s) ==
  IF as_u64_flexible(s.port) = {} THEN Rejected ELSE Needs(get_port(s.port, 1), OnPort)

(* size: buffer_size, set aside at once *)
UdpInput(s) ==
  IF as_u64_flexible(s.port) = {} THEN Rejected
  ELSE Needs(get_port(s.port, 1), LAMBDA p :
         [OnPort(p) EXCEPT !.limit = get_u64(s.size, 2),
                           !.panic = IF s.size = Huge THEN "run" ELSE ""])

HttpInput(s) == Needs(get_port(s.port, 1), OnPort)
SyslogInput(s) == Needs(get_port(s.port, 1), OnPort)
GelfInput(s) == Needs(get_port(s.port, 1), OnPort)
GraphiteInput(s) == Needs(get_port(s.port, 1), OnPort)
BeatsInput(s) == Needs(get_port(s.port, 1), OnPort)

(* need: path; form: mode, server or client. *)
UnixInput(s) == IfGiven(NotBlank(s) /\ s.form # "unknown", Built)

StdinInput(s) == Built
GeneratorInput(s) == [Built EXCEPT !.limit = get_u64(s.size, 1), !.sleep = get_u64(s.every, 1)]
HeartbeatInput_unclamped(s) == [Built EXCEPT !.interval = get_u64(s.every, 1)]   \* a mutant
HeartbeatInput(s) == [Built EXCEPT !.interval = AtLeast(1, get_u64(s.every, 1))]

(* need: command; an every that does not parse falls back to interval. *)
ExecInput(s) == IfGiven(NotBlank(s), [Built EXCEPT !.sleep = AtLeast(1, get_u64(s.every, 1))])
PipeInput(s) == IfGiven(NotBlank(s), Built)

(* need: a urls map of strings or objects with a url; blank: an empty map. *)
HttpPollerInput(s) ==
  IfGiven(NotBlank(s), Late(s, [Built EXCEPT !.sleep = AtLeast(1, get_u64(s.every, 1)),
                                             !.limit = AtLeast(1, get_u64(s.size, 1))]))

(* need: hosts, defaulted when absent or not an array, rejected when it    *)
(* holds no host; a schedule of zero is rejected by validate_schedule and  *)
(* clamped by schedule_interval_secs.                                      *)
ScheduleSecs(v) == AtLeast(1, get_u64(v, 2))
ElasticsearchInput(s) ==
  IfGiven(s.need # "blank" /\ s.every # 0,
          [Built EXCEPT !.interval = ScheduleSecs(s.every), !.limit = get_u64(s.size, 1)])

(* need: topics, or bootstrap_servers of the wrong type or without one.    *)
KafkaInput(s) == IfGiven(Given(s), Late(s, [Built EXCEPT !.limit = get_u64(s.size, 1)]))

(* need: queue or queue_url. *)
SqsInput(s) ==
  IfGiven(Given(s), Late(s, [Built EXCEPT !.limit = AtMost(2, AtLeast(1, get_u64(s.size, 1)))]))

RabbitmqInput(s) == IfGiven(Given(s), Needs(get_port(s.port, 1), LAMBDA p : Late(s, OnPort(p))))

(* need: key; size: db; the timeout of BLPOP is one second whatever was    *)
(* configured.                                                             *)
RedisInput(s) ==
  Needs(get_port(s.port, 1), LAMBDA p :
    IfGiven(Given(s), Needs(get_u32(s.size, 0), LAMBDA d : Late(s, [OnPort(p) EXCEPT !.sleep = 1]))))

(* need: path, a string or an array. *)
FileInput(s) == IfGiven(Given(s), [Built EXCEPT !.interval = AtLeast(1, get_u64(s.every, 2))])

(* need: bucket; the interval has a floor. *)
S3Input(s) ==
  IfGiven(Given(s), Late(s, [Built EXCEPT !.sleep = AtLeast(1, get_u64(s.every, 1)),
                                          !.limit = get_u64(s.size, 1)]))

(* need: the connection and a statement. *)
JdbcInput(s) == IfGiven(Given(s), [Built EXCEPT !.sleep = AtLeast(1, get_u64(s.every, 1)),
                                                !.limit = AtLeast(1, get_u64(s.size, 2))])

(* need: namespace; size: period. *)
CloudwatchInput(s) ==
  IfGiven(Given(s), [Built EXCEPT !.sleep = AtLeast(1, get_u64(s.every, 1)),
                                  !.limit = AtMost(U32Max, AtLeast(1, get_u64(s.size, 2)))])

DlqInput(s) == Built

(* need: the bus that only the multi-pipeline runtime has. *)
PipelineInput(s) == IfGiven(s.need = "given", Built)

(***************************************************************************)
(* Outputs                                                                 *)
(***************************************************************************)

(* need: hosts, a string or an array, trimmed, the default when of another *)
(* type; list: document_id, without which form known (action update) is    *)
(* refused; size: retry_max_interval; every: retry_initial_interval.       *)
ElasticsearchOutput(s) ==
  IfGiven(s.need # "blank" /\ ~(s.form = "known" /\ s.list = "absent"),
          [Built EXCEPT !.limit = get_u64(s.size, 3), !.sleep = get_u64(s.every, 2)])

(* need: url; form: http_method and format, post and json when unknown *)
HttpOutput(s) == IfGiven(Given(s), [Built EXCEPT !.limit = get_u64(s.size, 3)])

(* need: topic, or the wrong type of bootstrap_servers; list: the servers *)
KafkaOutput(s) ==
  IfGiven(s.list # "empty" /\ Given(s) /\ create_codec(s),
          [WithList(s) EXCEPT !.limit = get_u64(s.size, 2)])

(* need: key; size: db *)
RedisOutput(s) ==
  Needs(get_port(s.port, 1), LAMBDA p :
    IfGiven(Given(s), Needs(get_u32(s.size, 0), LAMBDA d : IfGiven(create_codec(s), OnPort(p)))))

(* need: queue or queue_url; topic_arn *)
SqsOutput(s) == IfGiven(Given(s) /\ create_codec(s), Built)
SnsOutput(s) == IfGiven(Given(s) /\ create_codec(s), Built)
RabbitmqOutput(s) == Needs(get_port(s.port, 1), LAMBDA p : IfGiven(create_codec(s), OnPort(p)))

(* need: the connection; list: statement, whose first element is the SQL;  *)
(* empty: an empty array.                                                  *)
parse_statement(s) == s.list = "given"
JdbcOutput(s) == IfGiven(Given(s) /\ parse_statement(s), WithList(s))

(* need: api_key; form: site; size: batch_size *)
datadog_intake_host(form) == form # "unknown"
DatadogOutput(s) ==
  IfGiven(Given(s) /\ datadog_intake_host(s.form),
          [WithList(s) EXCEPT !.chunks = AtLeast(1, get_u64(s.size, 2))])

(* Every setting of cloudwatch has a default; list: dimensions. *)
CloudwatchOutput(s) == WithList(s)

(* need: to; form: address, which has to suit TLS when there are           *)
(* credentials (list).                                                     *)
EmailOutput(s) ==
  IfGiven(Given(s),
          Needs(get_port(s.port, 1), LAMBDA p :
            IfGiven(s.list = "absent" \/ s.form # "unknown", OnPort(p))))

(* need: path; an unknown codec is json_lines; every: flush_interval *)
FileOutput(s) == IfGiven(Given(s), [Built EXCEPT !.sleep = get_u64(s.every, 2)])

(* need: path; list: fields *)
CsvOutput(s) == IfGiven(Given(s) /\ s.list = "given", WithList(s))

(* need: host.  A port that is there but null passes both the test for a   *)
(* missing one and get_port, which answers its default.                    *)
TcpOutput(s) ==
  IfGiven(Given(s) /\ s.port # Absent,
          Needs(get_port(s.port, 0), LAMBDA p : [OnPort(p) EXCEPT !.sleep = get_u64(s.every, 2)]))
UdpOutput(s) ==
  IfGiven(Given(s) /\ s.port # Absent,
          Needs(get_port(s.port, 0), LAMBDA p : IfGiven(create_codec(s), OnPort(p))))

(* need: host; list: metrics; form: fields_are_metrics *)
GraphiteOutput(s) ==
  IfGiven(NotBlank(s),
          Needs(get_port(s.port, 1), LAMBDA p :
            IfGiven(s.list = "given" \/ s.form = "known",
                    [OnPort(p) EXCEPT !.list = Strings(s.list)])))

(* need: command *)
PipeOutput(s) == IfGiven(NotBlank(s), Built)
StdoutOutput(s) == Built      \* an unknown codec is rubydebug
NullOutput(s) == Built

(* need: bucket; every: time_file; size: size_file *)
S3Output(s) ==
  IfGiven(Given(s) /\ create_codec(s),
          [Built EXCEPT !.sleep = get_u64(s.every, 2), !.limit = get_u64(s.size, 2)])

(* need: the bus; list: send_to *)
PipelineOutput(s) == IfGiven(s.need = "given", WithList(s))

(***************************************************************************)
(* Filters.  Where nothing else is said, need is the source field and list *)
(* tag_on_failure, and everything has a default.                           *)
(***************************************************************************)

(* need: match, a map with an entry; list: its patterns; form: whether     *)
(* they compile                                                            *)
GrokFilter(s) == IfGiven(NotBlank(s) /\ (s.list = "empty" \/ s.form # "unknown"), WithList(s))

(* Operations are collected in a fixed order; entries of the wrong type    *)
(* are skipped.  list: the operations.                                     *)
MutateFilter(s) == WithList(s)
JsonFilter(s) == Reads(s)
DateFilter(s) == Reads(s)

(* need: mapping, a string or a map with one *)
DissectFilter(s) == IfGiven(Given(s), WithList(s))
KvFilter(s) == Reads(s)
DropFilter(s) == [Built EXCEPT !.limit = get_u64(s.size, 2)]      \* size: percentage

(* size: clones, as many copies as the number says *)
CloneFilter(s) == [WithList(s) EXCEPT !.limit = IF s.list = "absent" THEN get_u64(s.size, 1) ELSE 1]

(* need: init or path, which the interpreter runs; form: whether it can *)
RubyFilter(s) == IfGiven(s.need \in {"absent", "wrong"} \/ s.form # "unknown", WithList(s))

(* need: code; form: whether it parses *)
ScriptFilter(s) == IfGiven(~NotBlank(s) \/ s.form # "unknown", Reads(s))

(* form: the database, which has to open unless there is none *)
GeoipFilter(s) == IfGiven(s.form # "unknown", Reads(s))
SleepFilter(s) == [Built EXCEPT !.sleep = get_u64(s.size, 1), !.limit = AtLeast(1, get_u64(s.every, 1))]

(* need: task_id; every: timeout; an unknown map_action is create *)
AggregateFilter(s) == [Reads(s) EXCEPT !.sleep = get_u64(s.every, 2)]

(* need: key; every: period; size: max_age.  Nothing relates the two.      *)
ThrottleFilter(s) == [Reads(s) EXCEPT !.sleep = get_u64(s.every, 1), !.limit = get_u64(s.size, 2)]
TranslateFilter(s) == Reads(s)      \* list: dictionary; a regex that does not compile is skipped
FingerprintFilter(s) == Reads(s)    \* list: source; an unknown method is SHA256
UseragentFilter(s) == Reads(s)
CsvFilter(s) == Reads(s)            \* list: columns
UrldecodeFilter(s) == Reads(s)
SplitFilter(s) == Reads(s)
TruncateFilter(s) == [WithList(s) EXCEPT !.limit = get_u64(s.size, 2)]   \* list: fields
PruneFilter(s) == WithList(s)       \* list: the patterns, those that compile
XmlFilter(s) == Reads(s)

(* list: resolve or reverse; form: nameserver *)
DnsFilter(s) == IfGiven(s.form # "unknown", WithList(s))

(* need: hosts; form: query_template, a JSON object *)
ElasticsearchFilter(s) ==
  IfGiven(s.need # "blank" /\ s.form # "unknown",
          [WithList(s) EXCEPT !.limit = get_u64(s.size, 1), !.sleep = get_u64(s.every, 2)])

(* need: url; form: verb *)
HttpFilter(s) ==
  IfGiven(NotBlank(s) /\ s.form # "unknown", [Built EXCEPT !.sleep = get_u64(s.every, 2)])

(* list: meter or timer; every: flush_interval *)
MetricsFilter(s) == [WithList(s) EXCEPT !.sleep = get_u64(s.every, 2)]
DeDotFilter(s) == Built
JsonEncodeFilter(s) == [Built EXCEPT !.source = IF Given(s) THEN s.need ELSE "every field"]
BytesFilter(s) == Reads(s)

(* list: network; form: whether they all parse *)
CidrFilter(s) == IfGiven(s.list = "given" /\ s.form # "unknown", WithList(s))

(* need: target *)
UuidFilter(s) == IfGiven(Given(s), Built)
SyslogPriFilter(s) == Reads(s)      \* list: the labels

(* list: fields; form: algorithm *)
AnonymizeFilter(s) == IfGiven(s.list = "given" /\ s.form # "unknown", WithList(s))

(* list: hosts, the default when there is none; size: ttl *)
MemcachedFilter(s) ==
  Needs(get_u32(s.size, 0), LAMBDA ttl :
    [Built EXCEPT !.limit = ttl, !.list = IF s.list = "given" THEN s.list ELSE "default"])

(* need: the connection; form: statement; every: cache_expiration, off     *)
(* when not positive and made a Duration otherwise; size: cache_size       *)
JdbcStreamingFilter(s) ==
  IfGiven(Given(s) /\ s.form # "absent",
          [Built EXCEPT !.limit = get_u64(s.size, 2), !.sleep = get_u64(s.every, 0),
                        !.panic = IF s.every = Huge THEN "build" ELSE ""])

(* need: the connection; list: loaders, which every lookup (form) has to   *)
(* name one of; every: refresh_interval and size: loader_max_rows, where 0 *)
(* is off or the default.                                                  *)
parse_loaders(s) == s.list = "given"
parse_lookups(s) == s.form = "known"
JdbcStaticFilter(s) ==
  IfGiven(Given(s) /\ parse_loaders(s) /\ parse_lookups(s),
          [WithList(s) EXCEPT !.limit = AtLeast(1, get_u64(s.size, 2)), !.sleep = get_u64(s.every, 0)])

(***************************************************************************)
(* The registries                                                          *)
(***************************************************************************)

create_input(name, s) ==
  CASE name = "tcp" -> TcpInput(s)             [] name = "udp" -> UdpInput(s)
    [] name = "http" -> HttpInput(s)           [] name = "syslog" -> SyslogInput(s)
    [] name = "gelf" -> GelfInput(s)           [] name = "graphite" -> GraphiteInput(s)
    [] name = "beats" -> BeatsInput(s)         [] name = "unix" -> UnixInput(s)
    [] name = "stdin" -> StdinInput(s)         [] name = "generator" -> GeneratorInput(s)
    [] name = "heartbeat" -> HeartbeatInput(s) [] name = "exec" -> ExecInput(s)
    [] name = "pipe" -> PipeInput(s)           [] name = "http_poller" -> HttpPollerInput(s)
    [] name = "elasticsearch" -> ElasticsearchInput(s)
    [] name = "kafka" -> KafkaInput(s)         [] name = "sqs" -> SqsInput(s)
    [] name = "rabbitmq" -> RabbitmqInput(s)   [] name = "redis" -> RedisInput(s)
    [] name = "file" -> FileInput(s)           [] name = "s3" -> S3Input(s)
    [] name = "jdbc" -> JdbcInput(s)           [] name = "cloudwatch" -> CloudwatchInput(s)
    [] name = "dead_letter_queue" -> DlqInput(s)
    [] name = "pipeline" -> PipelineInput(s)   [] OTHER -> Rejected

create_output(name, s) ==
  CASE name = "elasticsearch" -> ElasticsearchOutput(s)
    [] name = "http" -> HttpOutput(s)         [] name = "kafka" -> KafkaOutput(s)
    [] name = "redis" -> RedisOutput(s)       [] name = "sqs" -> SqsOutput(s)
    [] name = "sns" -> SnsOutput(s)           [] name = "rabbitmq" -> RabbitmqOutput(s)
    [] name = "jdbc" -> JdbcOutput(s)         [] name = "datadog" -> DatadogOutput(s)
    [] name = "cloudwatch" -> CloudwatchOutput(s) [] name = "email" -> EmailOutput(s)
    [] name = "file" -> FileOutput(s)         [] name = "csv" -> CsvOutput(s)
    [] name = "tcp" -> TcpOutput(s)           [] name = "udp" -> UdpOutput(s)
    [] name = "graphite" -> GraphiteOutput(s) [] name = "pipe" -> PipeOutput(s)
    [] name = "stdout" -> StdoutOutput(s)     [] name = "null" -> NullOutput(s)
    [] name = "s3" -> S3Output(s)             [] name = "pipeline" -> PipelineOutput(s)
    [] OTHER -> Rejected

create_filter(name, s) ==
  CASE name = "grok" -> GrokFilter(s)         [] name = "mutate" -> MutateFilter(s)
    [] name = "json" -> JsonFilter(s)         [] name = "date" -> DateFilter(s)
    [] name = "dissect" -> DissectFilter(s)   [] name = "kv" -> KvFilter(s)
    [] name = "drop" -> DropFilter(s)         [] name = "clone" -> CloneFilter(s)
    [] name = "ruby" -> RubyFilter(s)         [] name = "script" -> ScriptFilter(s)
    [] name = "geoip" -> GeoipFilter(s)       [] name = "sleep" -> SleepFilter(s)
    [] name = "aggregate" -> AggregateFilter(s) [] name = "throttle" -> ThrottleFilter(s)
    [] name = "translate" -> TranslateFilter(s) [] name = "fingerprint" -> FingerprintFilter(s)
    [] name = "useragent" -> UseragentFilter(s) [] name = "csv" -> CsvFilter(s)
    [] name = "urldecode" -> UrldecodeFilter(s) [] name = "split" -> SplitFilter(s)
    [] name = "truncate" -> TruncateFilter(s) [] name = "prune" -> PruneFilter(s)
    [] name = "xml" -> XmlFilter(s)           [] name = "dns" -> DnsFilter(s)
    [] name = "elasticsearch" -> ElasticsearchFilter(s)
    [] name = "http" -> HttpFilter(s)         [] name = "metrics" -> MetricsFilter(s)
    [] name = "de_dot" -> DeDotFilter(s)      [] name = "json_encode" -> JsonEncodeFilter(s)
    [] name = "bytes" -> BytesFilter(s)       [] name = "cidr" -> CidrFilter(s)
    [] name = "uuid" -> UuidFilter(s)         [] name = "syslog_pri" -> SyslogPriFilter(s)
    [] name = "anonymize" -> AnonymizeFilter(s) [] name = "memcached" -> MemcachedFilter(s)
    [] name = "jdbc_streaming" -> JdbcStreamingFilter(s)
    [] name = "jdbc_static" -> JdbcStaticFilter(s) [] OTHER -> Rejected

InputNames == {"tcp", "udp", "http", "syslog", "gelf", "graphite", "beats", "unix", "stdin",
  "generator", "heartbeat", "exec", "pipe", "http_poller", "elasticsearch", "kafka", "sqs",
  "rabbitmq", "redis", "file", "s3", "jdbc", "cloudwatch", "dead_letter_queue", "pipeline"}
OutputNames == {"elasticsearch", "http", "kafka", "redis", "sqs", "sns", "rabbitmq", "jdbc",
  "datadog", "cloudwatch", "email", "file", "csv", "tcp", "udp", "graphite", "pipe", "stdout",
  "null", "s3", "pipeline"}
FilterNames == {"grok", "mutate", "json", "date", "dissect", "kv", "drop", "clone", "ruby",
  "script", "geoip", "sleep", "aggregate", "throttle", "translate", "fingerprint", "useragent",
  "csv", "urldecode", "split", "truncate", "prune", "xml", "dns", "elasticsearch", "http",
  "metrics", "de_dot", "json_encode", "bytes", "cidr", "uuid", "syslog_pri", "anonymize",
  "memcached", "jdbc_streaming", "jdbc_static"}

=============================================================================
