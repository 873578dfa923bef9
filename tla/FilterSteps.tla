---------------------------- MODULE FilterSteps ----------------------------
(***************************************************************************)
(* The filters that keep no state between events: what filter() makes of   *)
(* one event.  An event is abstracted to the field the filter reads, the   *)
(* field it writes, whether it carries the filter's failure tag and        *)
(* whether it was cancelled; a field's value to what the filter tells      *)
(* apart:                                                                  *)
(*   absent   no such field                                                *)
(*   empty    a string, possibly empty, that carries nothing               *)
(*   good     what the filter is made for                                  *)
(*   bad      text it cannot use                                           *)
(*   other    an array, or JSON that is not an object                      *)
(* and the outside world (a server, a database, a script) to env.  wide    *)
(* says that there are characters of several bytes where the filter cuts   *)
(* the text.  flag is the setting that changes the filter's control,       *)
(* target whether a target is configured.  The result is the sequence of   *)
(* events filter() returns, Failed for an Err, or Panicked.                *)
(***************************************************************************)
EXTENDS Naturals, Sequences, FiniteSets, SequencesExt

Values == {"absent", "empty", "good", "bad", "other"}
Envs == {"ok", "none", "refused", "error"}

StepEvent == [src : Values, dst : {"absent", "old"}, tagged : {FALSE}, cancelled : {FALSE},
              env : Envs, wide : BOOLEAN, flag : BOOLEAN, target : BOOLEAN]

Failed == <<[err |-> TRUE]>>
Panicked == <<[panic |-> TRUE]>>

(* Event::set, add_tag and cancel. *)
SetDst(e) == [e EXCEPT !.dst = "new"]
SetSrc(e) == [e EXCEPT !.src = "new"]
AddTag(e) == [e EXCEPT !.tagged = TRUE]
Cancel(e) == [e EXCEPT !.cancelled = TRUE]

Same(e) == <<e>>
SetIf(cond, e) == IF cond THEN <<SetDst(e)>> ELSE <<e>>
SetOrTag(cond, e) == IF cond THEN <<SetDst(e)>> ELSE <<AddTag(e)>>

(***************************************************************************)
(* Parsing one field into others                                           *)
(***************************************************************************)

(* The compiled patterns: whether one matches, and whether its captures    *)
(* hold text.                                                              *)
GrokMatch(v) == CASE v = "good" -> "captured" [] v = "empty" -> "nothing" [] OTHER -> "no"

(* flag: the field is listed in overwrite. *)
GrokFilter(e) ==
  CASE GrokMatch(e.src) = "no" -> <<AddTag(e)>>
    [] GrokMatch(e.src) = "nothing" -> <<e>>
    [] OTHER -> SetIf(e.flag \/ e.dst = "absent", e)

(* try_parse: the first pattern that applies.  UNIX and UNIX_MS settle the *)
(* matter with an integer, even one that is out of range ("other").        *)
TryParseDate(v) == v = "good"

DateFilter(e) == SetOrTag(TryParseDate(e.src), e)

(* The tokens are matched to the end before any field is set. *)
DissectTokens(v) == IF v \in {"good", "empty"} THEN "all" ELSE "some"

(* Mutant: sets each field as its token matches. *)
DissectAsItGoes(e) ==
  IF e.src = "absent" \/ DissectTokens(e.src) # "all"
  THEN <<IF e.src = "bad" THEN SetDst(AddTag(e)) ELSE AddTag(e)>> ELSE <<SetDst(e)>>

DissectFilter(e) == SetOrTag(e.src # "absent" /\ DissectTokens(e.src) = "all", e)

(* Pairs that do not split are skipped; tag_on_failure is never used. *)
KvFilter(e) == SetIf(e.src = "good", e)

(* Without a record the event stays as it is.  flag: skip_header takes the *)
(* first line of the text for the header, so that only a second line       *)
(* ("other") is a record.                                                  *)
CsvFilter(e) == SetIf(e.src = "other" \/ (e.src \in {"good", "bad"} /\ ~e.flag), e)

(* flag: skip_on_invalid_json.  Without a target only an object is used.   *)
JsonFilter(e) ==
  IF e.src \in {"good", "other"}
  THEN SetIf(e.src = "good" \/ e.target, e)
  ELSE IF e.flag THEN <<e>> ELSE <<AddTag(e)>>

JsonEncodeFilter(e) == SetIf(e.src # "absent" \/ ~e.target, e)

(* A slice at a byte that is inside a character: find_closing_tag goes byte *)
(* by byte through the text of an element; parse_bytes cuts behind the      *)
(* number at a count of characters, with a wide space before the cut.       *)
CutsWide(e) == e.wide /\ e.src \in {"good", "bad"}

(* parse_elements: good: at least one element; other: text, which is its   *)
(* own value.                                                              *)
ParseXml(v) == v \in {"good", "other"}

(* flag: store_xml; the target is another field. *)
XmlFilter(e) ==
  IF CutsWide(e) THEN Panicked
  ELSE CASE e.src = "absent" -> <<e>>
         [] ParseXml(e.src) -> <<[SetDst(e) EXCEPT !.src = IF e.flag THEN @ ELSE "absent"]>>
         [] OTHER -> <<AddTag(e)>>

(* A number and a known unit. *)
ParseBytes(v) == v = "good"

BytesFilter(e) ==
  IF CutsWide(e) THEN Panicked
  ELSE IF e.src = "absent" THEN <<e>> ELSE SetOrTag(ParseBytes(e.src), e)

(* Anything that is not a priority is DEFAULT_PRI. *)
SyslogPriFilter(e) == <<SetDst(e)>>

(* The first pattern of each table, or Other: always an object. *)
UseragentFilter(e) == SetIf(e.src # "absent", e)

(***************************************************************************)
(* Looking a field up                                                      *)
(***************************************************************************)

(* flag: a database; env: what it has on the address.  Without a database  *)
(* classify_ip always answers.                                             *)
LookupIp(e) == e.flag => e.env = "ok"

GeoipFilter(e) == SetOrTag(e.src = "good" /\ LookupIp(e), e)

(* flag: a fallback. *)
TranslateFilter(e) == SetIf(e.src = "good" \/ (e.src # "absent" /\ e.flag), e)

(* any_match: an address inside one of the networks. *)
InNetwork(v) == v = "good"

CidrFilter(e) == SetIf(InNetwork(e.src), e)

(* resolve_forward, resolve_reverse: an answer, none, an error, a timeout. *)
DnsLookup(e) == e.env = "ok"

(* Two fields: the source and, when it is given, another one.  A field     *)
(* that resolves is replaced though another one fails.                     *)
DnsFilter(e) ==
  IF e.src = "absent" THEN <<e>>
  ELSE IF DnsLookup(e) THEN <<SetDst(e)>>
  ELSE <<IF e.flag THEN SetDst(AddTag(e)) ELSE AddTag(e)>>

(* execute_query tries the hosts in turn; no answer and no hit are tagged. *)
ExecuteQuery(e) == IF e.env = "ok" THEN "hits" ELSE IF e.env = "none" THEN "empty" ELSE "noHost"

(* Without fields and target only a single hit is merged. *)
ElasticsearchFilter(e) ==
  IF ExecuteQuery(e) # "hits" THEN <<AddTag(e)>>
  ELSE SetIf(e.target \/ ~e.flag, e)

(* error: no response, or a body that is too large; refused: a response    *)
(* that is not 2xx, stored and tagged.                                     *)
HttpFilter(e) ==
  CASE e.env = "error" -> <<AddTag(e)>>
    [] e.env = "refused" -> <<SetDst(AddTag(e))>>
    [] OTHER -> <<SetDst(e)>>

(* The client, the gets, then the sets; the first error is the filter's. *)
MemcachedFilter(e) ==
  CASE e.env \in {"refused", "error"} -> Failed
    [] e.env = "none" -> <<e>>
    [] OTHER -> <<SetDst(e)>>

(***************************************************************************)
(* Rewriting                                                               *)
(***************************************************************************)

(* The operations of mutate in the order of from_config, whatever the      *)
(* order in the configuration: remove_field comes before copy.             *)
MutateOps == <<"rename", "replace", "case", "remove", "copy", "gsub", "convert", "split",
               "join", "add_field">>

MutateOp(e, op) ==
  CASE op = "rename" -> IF e.src = "absent" THEN e ELSE [e EXCEPT !.src = "absent", !.dst = e.src]
    [] op \in {"replace", "add_field"} -> SetDst(e)
    [] op = "remove" -> [e EXCEPT !.src = "absent"]
    [] op = "copy" -> IF e.src = "absent" THEN e ELSE [e EXCEPT !.dst = e.src]
    [] op \in {"case", "gsub", "split"} -> IF e.src = "absent" THEN e ELSE SetSrc(e)
    [] op = "convert" -> IF e.src = "good" THEN SetSrc(e) ELSE e
    [] op = "join" -> IF e.src = "other" THEN SetSrc(e) ELSE e

(* Which operations are configured: flag, target. *)
MutateConfigured(e) ==
  SelectSeq(MutateOps, LAMBDA op :
    CASE op \in {"remove", "copy"} -> e.flag
      [] op \in {"replace", "add_field"} -> e.target
      [] op = "rename" -> ~e.flag
      [] OTHER -> TRUE)

MutateFilter(e) == <<FoldLeft(MutateOp, e, MutateConfigured(e))>>

(* flag: the names are a whitelist. *)
PruneFilter(e) == <<[e EXCEPT !.src = IF (e.src = "good") = e.flag THEN @ ELSE "absent"]>>

(* truncate_utf8 backs up to a character boundary. *)
TruncateUtf8(v) == IF v = "bad" THEN "new" ELSE v   \* bad: too long

TruncateFilter(e) == <<[e EXCEPT !.src = TruncateUtf8(@)]>>

(* The fields are taken out and put back under their new names. *)
DeDotName(v) == IF v \in {"absent", "empty"} THEN v ELSE "new"

DeDotFilter(e) == <<[e EXCEPT !.src = DeDotName(@)]>>

UrldecodeFilter(e) == <<[e EXCEPT !.src = IF @ \in {"good", "bad"} THEN "new" ELSE @]>>

(* flag: overwrite. *)
UuidFilter(e) == SetIf(e.flag \/ e.dst = "absent", e)

AnonymizeHash(v) == "new"

AnonymizeFilter(e) == IF e.src = "absent" THEN <<e>> ELSE <<[e EXCEPT !.src = AnonymizeHash(@)]>>

(* An empty concatenation of the sources is not hashed. *)
ComputeHash(e) == SetDst(e)

FingerprintFilter(e) == IF e.src \in {"absent", "empty"} THEN <<e>> ELSE <<ComputeHash(e)>>

(***************************************************************************)
(* Events in, events out                                                   *)
(***************************************************************************)

(* The original first, then the copies. *)
CloneFilter(e) == <<e, AddTag(e)>>

(* A string always has parts; an empty array (here: empty) has none. *)
SplitFilter(e) ==
  IF e.src \in {"absent", "empty"} THEN <<e>> ELSE <<SetDst(e), SetDst(e)>>

(* flag: a percentage below 100, and the hash of the id is above it. *)
DropFilter(e) == IF e.flag THEN <<e>> ELSE <<Cancel(e)>>

SleepFilter(e) == <<e>>

(* The script runs under catch_unwind; its document is copied back only    *)
(* when it succeeds.                                                       *)
ScriptFilter(e) ==
  CASE ~e.target -> <<e>>
    [] e.env = "ok" -> <<SetDst(e)>>
    [] OTHER -> <<AddTag(e)>>

(* A thread's interpreter, made at its first event; the event is changed   *)
(* in place, so what the code did before it failed stays.                  *)
RubyFilter(e) ==
  CASE ~e.target -> <<e>>
    [] e.env = "ok" -> <<SetDst(e)>>
    [] e.env = "none" -> <<Cancel(e)>>
    [] OTHER -> <<AddTag(e)>>

StatelessKinds ==
  {"grok", "date", "dissect", "kv", "csv", "json", "json_encode", "xml", "bytes", "syslog_pri",
   "useragent", "geoip", "translate", "cidr", "dns", "elasticsearch", "http", "memcached",
   "mutate", "prune", "truncate", "de_dot", "urldecode", "uuid", "anonymize", "fingerprint",
   "clone", "split", "drop", "sleep", "script", "ruby"}

(* create_filter *)
Filter(kind, e) ==
  CASE kind = "grok" -> GrokFilter(e) [] kind = "date" -> DateFilter(e)
    [] kind = "dissect" -> DissectFilter(e) [] kind = "kv" -> KvFilter(e)
    [] kind = "csv" -> CsvFilter(e) [] kind = "json" -> JsonFilter(e)
    [] kind = "json_encode" -> JsonEncodeFilter(e) [] kind = "xml" -> XmlFilter(e)
    [] kind = "bytes" -> BytesFilter(e) [] kind = "syslog_pri" -> SyslogPriFilter(e)
    [] kind = "useragent" -> UseragentFilter(e) [] kind = "geoip" -> GeoipFilter(e)
    [] kind = "translate" -> TranslateFilter(e) [] kind = "cidr" -> CidrFilter(e)
    [] kind = "dns" -> DnsFilter(e) [] kind = "elasticsearch" -> ElasticsearchFilter(e)
    [] kind = "http" -> HttpFilter(e) [] kind = "memcached" -> MemcachedFilter(e)
    [] kind = "mutate" -> MutateFilter(e) [] kind = "prune" -> PruneFilter(e)
    [] kind = "truncate" -> TruncateFilter(e) [] kind = "de_dot" -> DeDotFilter(e)
    [] kind = "urldecode" -> UrldecodeFilter(e) [] kind = "uuid" -> UuidFilter(e)
    [] kind = "anonymize" -> AnonymizeFilter(e) [] kind = "fingerprint" -> FingerprintFilter(e)
    [] kind = "clone" -> CloneFilter(e) [] kind = "split" -> SplitFilter(e)
    [] kind = "drop" -> DropFilter(e) [] kind = "sleep" -> SleepFilter(e)
    [] kind = "script" -> ScriptFilter(e) [] kind = "ruby" -> RubyFilter(e)

=============================================================================
