------------------------------- MODULE Codecs -------------------------------
(***************************************************************************)
(* The codecs: what decode makes of data and encode of an event.           *)
(*                                                                         *)
(* Data is kept as the structure its text or bytes spell: a JSON (or       *)
(* MessagePack) value, the columns of a line, the lines of a bulk request. *)
(* A time is <<seconds, milliseconds>>.  decode answers a sequence of      *)
(* events, or Refused.  A codec's configuration is c: the target field, if *)
(* any, the columns, the prefix and the scripts.  The loops over lengths   *)
(* of the binary formats are in Decoders.                                  *)
(***************************************************************************)
EXTENDS Events

Refused == <<[refused |-> TRUE]>>
Config == [target |-> {}, columns |-> << >>, timed |-> TRUE, script |-> << >>]

text(x) == IF x.t = "str" THEN x ELSE [t |-> "text", v |-> x]      \* to_string_lossy
SetField(e, k, x) == set(e, <<k>>, x)
SetAll(e, m) == [e EXCEPT !.fields = m @@ @]

(* JSON that is not an object makes an event without fields. *)
FromJson(j) == IF j.t = "obj" THEN from_json(j.v) ELSE EmptyEvent
Targeted(c, j) == IF c.target = {} THEN FromJson(j)
                  ELSE SetField(EmptyEvent, CHOOSE k \in c.target : TRUE, from_json_value(j))
Image(e) == Obj(to_json(e))

(***************************************************************************)
(* Whole JSON documents                                                    *)
(***************************************************************************)

json_decode(c, j) == <<Targeted(c, j)>>
json_encode(c, e) == Image(e)
msgpack_decode(c, j) == <<Targeted(c, j)>>
msgpack_encode(c, e) == Image(e)

(* Not an object container file: JSON. *)
avro_decode(c, j) == <<Targeted(c, j)>>
avro_encode(c, e) == Image(e)

(* An array is many records, an empty one still an event. *)
Collectd(e) == SetField(e, "collectd_type", Str("json"))
collectd_decode(c, j) ==
  IF j.t = "arr" /\ j.v # << >> THEN [i \in DOMAIN j.v |-> Collectd(FromJson(j.v[i]))]
  ELSE IF j.t = "arr" THEN <<Collectd(EmptyEvent)>> ELSE <<Collectd(FromJson(j))>>
collectd_encode(c, e) == Image(e)

(* Records of a trail file, or one record; eventTime is the event's time. *)
TrailEvent(c, j, extra) ==
  LET e == SetAll(Targeted(c, j), extra)
      timed == j.t = "obj" /\ "eventTime" \in DOMAIN j.v /\ j.v["eventTime"].t = "time"
  IN add_tag(IF timed THEN [e EXCEPT !.time = j.v["eventTime"].v] ELSE e, "cloudtrail")
cloudtrail_decode(c, j) ==
  IF j.t = "obj" /\ "Records" \in DOMAIN j.v /\ j.v["Records"].t = "arr"
  THEN LET rs == j.v["Records"].v
           total == With(EmptyMap, "cloudtrail_record_count", Num(Len(rs)))
       IN [i \in DOMAIN rs |-> TrailEvent(c, rs[i], total)]
  ELSE <<TrailEvent(c, j, EmptyMap)>>
cloudtrail_encode(c, e) == Image(e)

(* [tag, time, record], or [tag, [[time, record], ..]].  The seconds of    *)
(* the message replace the time of the record.                             *)
set_timestamp(e, j) == IF j.t = "int" THEN [e EXCEPT !.time = <<j.v, 0>>] ELSE e
FluentEvent(tag, time, record) ==
  set_timestamp(SetField(FromJson(record), "fluent_tag", tag), time)
fluent_decode(c, j) ==
  IF j.t # "arr" \/ Len(j.v) < 2 THEN Refused
  ELSE LET tag == IF j.v[1].t = "str" THEN j.v[1] ELSE Str("unknown")
           pairs == IF Len(j.v) = 2 /\ j.v[2].t = "arr"
                    THEN SelectSeq(j.v[2].v, LAMBDA p : p.t = "arr" /\ Len(p.v) >= 2) ELSE << >>
       IN IF pairs # << >>
          THEN [i \in DOMAIN pairs |-> FluentEvent(tag, pairs[i].v[1], pairs[i].v[2])]
          ELSE IF Len(j.v) < 3 THEN Refused ELSE <<FluentEvent(tag, j.v[2], j.v[3])>>
fluent_encode(c, e) ==
  LET own == {x \in get(e, <<"fluent_tag">>) : x.t = "str"}
      tag == IF own = {} THEN Str("ferrostash") ELSE CHOOSE x \in own : TRUE
  IN Arr(<<tag, Num(e.time[1]), Image(e)>>)

(***************************************************************************)
(* Lines                                                                   *)
(***************************************************************************)

message(e) == {x \in get(e, <<"message">>) : x.t = "str"}
MessageText(e) == IF message(e) = {} THEN Str("") ELSE CHOOSE x \in message(e) : TRUE

plain_decode(c, line) == <<NewEvent(line.v)>>
plain_encode(c, e) == IF c.target = {} THEN MessageText(e)
                      ELSE text(CHOOSE x \in sprintf(e, <<CHOOSE k \in c.target : TRUE>>) : TRUE)
dots_decode(c, line) == <<NewEvent(line.v)>>
bytes_decode(c, line) == <<SetField(NewEvent(line.v), "content_length", Num(1))>>
bytes_encode(c, e) == MessageText(e)

(* Lines are not merged here. *)
multiline_decode(c, line) == <<NewEvent(line.v)>>
multiline_encode(c, e) == MessageText(e)

rubydebug_decode(c, line) == <<NewEvent(line.v)>>

(* metric value [seconds] *)
graphite_decode(c, line) ==
  IF Len(line) < 2 \/ line[2].t # "flt" THEN Refused
  ELSE LET e == SetAll(EmptyEvent, With(With(EmptyMap, "metric", line[1]), "value", line[2]))
       IN <<IF Len(line) = 3 /\ line[3].t = "int"
            THEN [SetField(e, "timestamp_epoch", line[3]) EXCEPT !.time = <<line[3].v, 0>>] ELSE e>>
graphite_encode(c, e) ==
  IF ~\E m \in get(e, <<"metric">>) : m.t = "str" THEN Refused
  ELSE IF ~\E x \in get(e, <<"value">>) : x.t \in {"int", "flt"} THEN Refused
  ELSE LET m == CHOOSE x \in get(e, <<"metric">>) : TRUE
           x == CHOOSE x \in get(e, <<"value">>) : TRUE
       IN <<m, Flt(as_f64(x))>> \o (IF c.timed THEN <<Num(e.time[1])>> ELSE << >>)

(* The cells of a record by position; a cell is a string. *)
ColumnName(c, i) == IF i <= Len(c.columns) THEN c.columns[i] ELSE "columnN"
reconstruct_record(record) == [t |-> "csv", v |-> record]
csv_decode(c, record) ==
  IF record = << >> THEN Refused
  ELSE <<SetField(SetAll(EmptyEvent, [k \in {ColumnName(c, i) : i \in DOMAIN record} |->
                    record[CHOOSE i \in DOMAIN record : ColumnName(c, i) = k]]),
                  "message", reconstruct_record(record))>>
csv_encode(c, e) ==
  [i \in DOMAIN c.columns |->
     IF get(e, <<c.columns[i]>>) = {} THEN Str("")
     ELSE text(CHOOSE x \in get(e, <<c.columns[i]>>) : TRUE)]

(* cloudfront: - is null, some columns are numbers, anything else text.  A  *)
(* cell that was written from a number reads as that number.               *)
typed_value(k, cell) ==
  LET raw == IF cell.t = "text" THEN cell.v ELSE cell
  IN CASE cell.t = "str" /\ cell.v = "-" -> Nil
       [] k = "sc-bytes" /\ raw.t = "int" -> raw
       [] k = "time-taken" /\ raw.t \in {"int", "flt"} -> Flt(as_f64(raw))
       [] OTHER -> text(raw)
cloudfront_decode(c, line) ==
  IF line[1].t = "header" THEN <<add_tag(SetField(EmptyEvent, "cloudfront_fields", Arr(Tail(line))),
                                         "_cloudfront_header")>>
  ELSE <<SetAll(EmptyEvent, [k \in {ColumnName(c, i) : i \in DOMAIN line} |->
           typed_value(k, line[CHOOSE i \in DOMAIN line : ColumnName(c, i) = k])])>>
cloudfront_encode(c, e) ==
  [i \in DOMAIN c.columns |-> IF get(e, <<c.columns[i]>>) = {} THEN Str("-")
                              ELSE text(CHOOSE x \in get(e, <<c.columns[i]>>) : TRUE)]

(* CEF: seven header fields, then extensions, of which a value runs up to  *)
(* the last blank before the next equals sign.                             *)
CefHeader == {"cef_version", "device_vendor", "name", "severity"}
cef_key_full_name(k) == IF k = "src" THEN "sourceAddress" ELSE k
parse_extensions(pairs) == [k \in {cef_key_full_name(x) : x \in DOMAIN pairs} |->
                              pairs[CHOOSE x \in DOMAIN pairs : cef_key_full_name(x) = k]]
cef_decode(c, m) ==
  IF ~CefHeader \subseteq DOMAIN m.header THEN Refused
  ELSE <<SetField(SetAll(SetAll(EmptyEvent, m.header), parse_extensions(m.extension)),
                  "message", [t |-> "cef", v |-> m])>>
cef_encode(c, e) ==
  [header |-> [k \in CefHeader |-> IF k \in DOMAIN e.fields /\ e.fields[k].t = "str"
                                   THEN e.fields[k] ELSE Str("0")],
   extension |-> [k \in DOMAIN e.fields \ (CefHeader \union {"message", "syslog_header"}) |->
                    text(e.fields[k])]]

(* EDN: strings are written without escapes, 1.0 as 1 and infinity as inf; *)
(* a word is read as a string.  After a string with a quote or a backslash *)
(* in it the rest is read amiss, or refused.                               *)
Misread == [t |-> "misread"]
RECURSIVE format_edn(_)
format_edn(x) ==
  CASE x.t = "str" /\ x.v \in {"\"", "\\"} -> Misread
    [] x.t = "flt" /\ x.v % 2 = 0 -> Num(x.v \div 2)
    [] x.t = "inf" -> Str("inf")
    [] x.t = "arr" -> Arr([i \in DOMAIN x.v |-> format_edn(x.v[i])])
    [] x.t = "obj" -> Obj([k \in DOMAIN x.v |-> format_edn(x.v[k])])
    [] OTHER -> x

(* An object spreads over the event, anything else is the message.  encode *)
(* writes the time as @timestamp, unless a field has that name.            *)
edn_decode(c, x) ==
  IF c.target # {} THEN <<SetField(EmptyEvent, CHOOSE k \in c.target : TRUE, x)>>
  ELSE IF x.t = "obj" THEN <<SetAll(EmptyEvent, x.v)>>
  ELSE <<SetField(EmptyEvent, "message", text(x))>>
edn_encode(c, e) ==
  format_edn(Obj([k \in DOMAIN e.fields \union {"@timestamp"} |->
                    IF k \in DOMAIN e.fields THEN e.fields[k] ELSE Time(e.time)]))

(* nmap: an event per host over what the scan says of itself. *)
nmap_decode(c, scan) ==
  IF scan.hosts = << >> THEN <<SetAll(EmptyEvent, scan.meta)>>
  ELSE [i \in DOMAIN scan.hosts |-> SetAll(SetAll(EmptyEvent, scan.meta), scan.hosts[i])]

(***************************************************************************)
(* Bulk requests: action lines, each but a delete with its source          *)
(***************************************************************************)

Action(type, id) == [type |-> type, id |-> id]
SourceLine(j) == [source |-> j]

(* decode: what is left of the lines, the events so far.  The action and   *)
(* its id become fields under @metadata.                                   *)
RECURSIVE es_bulk_decode(_, _)
es_bulk_decode(lines, events) ==
  IF lines = << >> THEN IF events = << >> THEN Refused ELSE events
  ELSE IF "type" \notin DOMAIN Head(lines) THEN Refused
  ELSE LET a == Head(lines)
           sourced == a.type # "delete" /\ Len(lines) > 1
           e == IF sourced THEN FromJson(lines[2].source) ELSE EmptyEvent
           marked == set(set(e, <<"@metadata", "action">>, Str(a.type)), <<"@metadata", "_id">>, a.id)
       IN es_bulk_decode(SubSeq(lines, IF sourced THEN 3 ELSE 2, Len(lines)),
                         Append(events, marked))

(* encode reads the event's metadata, which fields under @metadata are not. *)
es_bulk_encode_always(e, metadata) == <<Action(metadata.action, metadata.id), SourceLine(Image(e))>>
es_bulk_encode(e, metadata) ==
  <<Action(metadata.action, metadata.id)>>
    \o (IF metadata.action # "delete" THEN <<SourceLine(Image(e))>> ELSE << >>)

(***************************************************************************)
(* The script codec: statements separated by semicolons, those it does not *)
(* know are skipped.                                                       *)
(***************************************************************************)

parse_value(e, x) ==
  IF x.t = "get" THEN IF get(e, x.v) = {} THEN Nil ELSE CHOOSE y \in get(e, x.v) : TRUE ELSE x
eval_statement(e, s) ==
  CASE s.op = "cancel" -> cancel(e)
    [] s.op = "tag" -> add_tag(e, s.tag)
    [] s.op = "set" -> set(e, s.field, parse_value(e, s.value))
    [] s.op = "remove" -> remove(e, s.field)
    [] OTHER -> e
script_evaluate(e, stmts) == FoldLeft(eval_statement, e, stmts)
script_decode(c, line) == <<script_evaluate(NewEvent(line.v), c.script)>>
script_encode(c, e) == Image(script_evaluate(e, c.script))

(***************************************************************************)
(* What comes back                                                         *)
(***************************************************************************)

Document == {"json", "msgpack", "avro", "collectd", "cloudtrail", "fluent"}
encode(name, c, e) ==
  CASE name = "json" -> json_encode(c, e)           [] name = "msgpack" -> msgpack_encode(c, e)
    [] name = "avro" -> avro_encode(c, e)           [] name = "collectd" -> collectd_encode(c, e)
    [] name = "cloudtrail" -> cloudtrail_encode(c, e) [] name = "fluent" -> fluent_encode(c, e)
    [] name = "script" -> script_encode(c, e)       [] name = "edn" -> edn_encode(c, e)
    [] name = "graphite" -> graphite_encode(c, e)   [] name = "csv" -> csv_encode(c, e)
    [] name = "cloudfront" -> cloudfront_encode(c, e) [] name = "cef" -> cef_encode(c, e)
    [] name = "plain" -> plain_encode(c, e)         [] name = "bytes" -> bytes_encode(c, e)
    [] name = "multiline" -> multiline_encode(c, e)
decode(name, c, w) ==
  CASE name = "json" -> json_decode(c, w)           [] name = "msgpack" -> msgpack_decode(c, w)
    [] name = "avro" -> avro_decode(c, w)           [] name = "collectd" -> collectd_decode(c, w)
    [] name = "cloudtrail" -> cloudtrail_decode(c, w) [] name = "fluent" -> fluent_decode(c, w)
    [] name = "script" -> script_decode(c, w)       [] name = "edn" -> edn_decode(c, w)
    [] name = "graphite" -> graphite_decode(c, w)   [] name = "csv" -> csv_decode(c, w)
    [] name = "cloudfront" -> cloudfront_decode(c, w) [] name = "cef" -> cef_decode(c, w)
    [] name = "plain" -> plain_decode(c, w)         [] name = "dots" -> dots_decode(c, w)
    [] name = "bytes" -> bytes_decode(c, w)         [] name = "multiline" -> multiline_decode(c, w)
    [] name = "rubydebug" -> rubydebug_decode(c, w) [] name = "nmap" -> nmap_decode(c, w)

=============================================================================
