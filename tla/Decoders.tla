------------------------------ MODULE Decoders ------------------------------
(***************************************************************************)
(* The decoders that walk a buffer by lengths found in it: netflow v5, v9  *)
(* and IPFIX, collectd, avro, protobuf, EDN, nmap, CEF and es_bulk.        *)
(*                                                                         *)
(* The buffer is not kept: a length, count or type is whatever the sender  *)
(* put there, chosen when it is read, and every byte is read once.  What   *)
(* is kept is the control of each loop: the cursor off, the limits of the  *)
(* enclosing slices, and the last slice that was taken, which in the code  *)
(* panics when it is not inside its buffer.  Every action is one iteration *)
(* of a decoder's loop; steps counts them.                                 *)
(***************************************************************************)
EXTENDS Integers, Sequences, SequencesExt, FiniteSets

CONSTANTS
  UMax,           \* usize is 0 .. UMax
  MaxBody,        \* bytes after the header
  MaxSets,        \* bytes of flow sets
  MaxDepth,       \* MAX_DEPTH of protobuf and EDN
  MaxOpens,       \* MAX_EDN_CONTAINER_OPENS_TOTAL
  MaxRun,         \* MAX_EDN_CONSECUTIVE_OPENS
  MaxTemplates, MaxFields

ASSUME DecoderAssumption ==
  /\ {UMax, MaxBody, MaxSets, MaxDepth, MaxOpens, MaxRun, MaxTemplates, MaxFields} \subseteq Nat \ {0}
  /\ 26 + MaxBody < UMax

VARIABLES
  fmt, pc,
  len, off,       \* length of the data, cursor
  nest,           \* limits of the slices (or the kinds of the containers) the cursor is in
  todo,           \* what the current loop still has to read
  templates,      \* the netflow template cache: id -> lengths of the fields, if known
  slice,          \* the last slice taken
  steps           \* iterations since the data arrived
decoderVars == <<fmt, pc, len, off, nest, todo, templates, slice, steps>>

Ids == {256, 257}
Unknown == <<-1>>
FieldLengths == {0, 4}
Limit == IF nest = << >> THEN len ELSE Last(nest)
NoSlice == [from |-> 0, to |-> 0, bound |-> 0]

DecoderInit ==
  /\ fmt = "none" /\ pc = "idle" /\ len = 0 /\ off = 0 /\ nest = << >> /\ todo = << >>
  /\ templates = [id \in Ids |-> Unknown] /\ slice = NoSlice /\ steps = 0

(* Where an iteration leaves the loops; the rest of the variables are the  *)
(* iteration's own.                                                        *)
Iterate(p, o) == pc' = p /\ off' = o /\ steps' = steps + 1 /\ UNCHANGED <<fmt, len>>
Take(a, b, bound) == slice' = [from |-> a, to |-> b, bound |-> bound]
NoTake == UNCHANGED slice

(* decode returns: with the events so far, or with an error. *)
Return ==
  /\ pc' = "idle" /\ len' = 0 /\ off' = 0 /\ nest' = << >> /\ todo' = << >>
  /\ steps' = 0 /\ fmt' = "none" /\ slice' = NoSlice /\ UNCHANGED templates

(* The bytes each decoder wants before it looks at anything else. *)
HeaderLen(f) ==
  CASE f = "v5" -> 24 [] f = "v9" -> 20 [] f = "ipfix" -> 16 [] f = "avro" -> 4
    [] f = "protobuf" -> 1 [] OTHER -> 0

FirstLoop(f) ==
  CASE f = "v5" -> "record" [] f \in {"v9", "ipfix"} -> "set" [] f = "collectd" -> "part"
    [] f = "avro" -> "meta" [] f = "protobuf" -> "field" [] f = "edn" -> "density"
    [] f = "nmap" -> "host" [] f = "cef" -> "header" [] f = "bulk" -> "action"
Formats == {"v5", "v9", "ipfix", "collectd", "avro", "protobuf", "edn", "nmap", "cef", "bulk"}

(* decode: the version, the magic or the first byte chooses the loop.  The *)
(* cache belongs to the netflow codec; the others have no memory.          *)
StartDecode(f, n) ==
  /\ pc = "idle" /\ n >= HeaderLen(f)
  /\ f \in {"v5", "v9", "ipfix"} \/ templates = [id \in Ids |-> Unknown]
  /\ fmt' = f /\ pc' = FirstLoop(f) /\ len' = n
  /\ off' = IF f \in {"v5", "v9", "ipfix", "avro"} THEN HeaderLen(f) ELSE 0
  /\ nest' = << >> /\ steps' = 0 /\ UNCHANGED <<templates, slice>>
  /\ \E count \in 0 .. 2 : todo' = IF f = "v5" THEN <<count>> ELSE << >>

(***************************************************************************)
(* netflow                                                                 *)
(***************************************************************************)

(* for i in 0..count, left when the record is not all there *)
V5Record ==
  /\ pc = "record"
  /\ IF todo[1] = 0 \/ off + 48 > len THEN Return
     ELSE /\ Take(off, off + 48, len) /\ Iterate("record", off + 48)
          /\ todo' = <<todo[1] - 1>> /\ UNCHANGED <<nest, templates>>

(* One flow set: a template, data, or an id that is skipped. *)
SetTooShort(n) == n < 4
FlowSet(id, n) ==
  /\ pc = "set"
  /\ IF off + 4 > len \/ SetTooShort(n) \/ off + n > len THEN Return
     ELSE /\ Take(off + 4, off + n, len)
          /\ \/ /\ id = (IF fmt = "v9" THEN 0 ELSE 2)
                /\ Iterate("template", off + 4) /\ nest' = <<off + n>> /\ UNCHANGED todo
             \/ /\ id \in Ids /\ templates[id] # Unknown
                /\ Iterate("data", off + 4) /\ nest' = <<off + n>> /\ todo' = templates[id]
             \/ /\ id = 1 \/ (id \in Ids /\ templates[id] = Unknown)
                /\ Iterate("set", off + n) /\ UNCHANGED <<nest, todo>>
          /\ UNCHANGED templates

LeaveSet == Iterate("set", Limit) /\ nest' = << >> /\ todo' = << >> /\ UNCHANGED <<templates, slice>>

(* parse_v9_template: too many fields, or fewer than announced, end the    *)
(* set; a full cache only takes new versions of what it knows.             *)
Known == {id \in Ids : templates[id] # Unknown}
CacheTakes(id) == Cardinality(Known) < MaxTemplates \/ id \in Known
Template(id, lengths) ==
  /\ pc = "template"
  /\ LET count == Len(lengths)
     IN IF off + 4 > Limit \/ count > MaxFields \/ off + 4 + 4 * count > Limit THEN LeaveSet
        ELSE /\ Take(off, off + 4 + 4 * count, Limit)
             /\ Iterate("template", off + 4 + 4 * count)
             /\ templates' = IF CacheTakes(id) THEN [templates EXCEPT ![id] = lengths]
                             ELSE templates
             /\ UNCHANGED <<nest, todo>>

(* parse_v9_data: the fields of the template, while they fit.  A field is  *)
(* named by field_name, or field_<type>.                                   *)
DataField ==
  /\ pc = "data"
  /\ IF todo = << >> \/ off + Head(todo) > Limit THEN LeaveSet
     ELSE /\ Take(off, off + Head(todo), Limit)
          /\ Iterate("data", off + Head(todo)) /\ todo' = Tail(todo) /\ UNCHANGED <<nest, templates>>

(***************************************************************************)
(* collectd                                                                *)
(***************************************************************************)

(* decode_binary: a part is text, eight bytes of time, a list of values,   *)
(* or skipped.                                                             *)
CollectdPart(type, n, count) ==
  /\ pc = "part"
  /\ IF off + 4 > len \/ n < 4 \/ off + n > len THEN Return
     ELSE /\ CASE type = "text" -> /\ Take(off + 4, off + n, len) /\ Iterate("part", off + n)
                                   /\ UNCHANGED <<nest, todo>>
               [] type = "time" /\ n - 4 >= 8 ->
                    /\ Take(off + 4, off + 12, off + n) /\ Iterate("part", off + n)
                    /\ UNCHANGED <<nest, todo>>
               [] type = "values" /\ n - 4 >= 2 ->
                    /\ Take(off + 4, off + 6, off + n) /\ Iterate("values", off + 4)
                    /\ nest' = <<off + n>> /\ todo' = <<count, 0>>
               [] OTHER -> NoTake /\ Iterate("part", off + n) /\ UNCHANGED <<nest, todo>>
          /\ UNCHANGED templates

(* One value: its type byte is in the first table, its eight bytes in the  *)
(* second.  off stays at the payload.                                      *)
CollectdValue ==
  /\ pc = "values"
  /\ LET count == todo[1]
         i == todo[2]
         at == off + 2 + count + i * 8
     IN IF i = count \/ off + 2 + i >= Limit \/ at + 8 > Limit
        THEN /\ Iterate("part", Limit) /\ nest' = << >> /\ todo' = << >> /\ UNCHANGED <<templates, slice>>
        ELSE /\ Take(at, at + 8, Limit) /\ Iterate("values", off)
             /\ todo' = <<count, i + 1>> /\ UNCHANGED <<nest, templates>>

(***************************************************************************)
(* Variable length integers, avro and protobuf                             *)
(***************************************************************************)

(* read_varint: one to ten bytes, all of them there.  Bytes that do not    *)
(* end, or end beyond the data, give no number: that can always happen.    *)
VarintEnds(o, limit) == {e \in o + 1 .. o + 10 : e <= limit}

(* Zigzag values are signed; as usize wraps them. *)
Signed == {-1, 0, 1, 3, UMax}
as_usize(v) == v % (UMax + 1)
checked_add_wrapping(o, n) == {(o + n) % (UMax + 1)}
checked_add(o, n) == IF o + n > UMax THEN {} ELSE {o + n}

(* read_string, read_bytes: where the slice after the length ends, if it   *)
(* is inside the data.                                                     *)
SliceEnd(e, v) == {x \in checked_add(e, as_usize(v)) : x <= len}

(* read_header_meta: count pairs of a string and bytes, and an end marker; *)
(* a value that is not there is an error.                                  *)
AvroMeta(v) ==
  /\ pc = "meta"
  /\ \/ Return
     \/ \E e \in VarintEnds(off, len) :
          /\ NoTake /\ UNCHANGED <<nest, templates>>
          /\ IF v > 0 THEN Iterate("entry", e) /\ todo' = <<2 * v>>
             ELSE Iterate("sync", e) /\ UNCHANGED todo

AvroEntry(v) ==
  /\ pc = "entry"
  /\ \/ /\ todo[1] > 0
        /\ \/ Return
           \/ \E e \in VarintEnds(off, len) :
                \/ SliceEnd(e, v) = {} /\ Return
                \/ \E x \in SliceEnd(e, v) :
                     /\ Take(e, x, len) /\ Iterate("entry", x)
                     /\ todo' = <<todo[1] - 1>> /\ UNCHANGED <<nest, templates>>
     \/ /\ todo[1] = 0
        /\ \/ Return
           \/ \E e \in VarintEnds(off, len) :
                Iterate("sync", e) /\ todo' = << >> /\ UNCHANGED <<nest, templates, slice>>

(* decode_ocf: the sync marker, then the first block, which may be shorter *)
(* than it says.  A negative or overflowing size ends the event there.     *)
AvroBlock(v) ==
  /\ pc = "sync"
  /\ \/ Return
     \/ /\ off + 16 + 4 <= len
        /\ \E c \in VarintEnds(off + 16, len) : \E e \in VarintEnds(c, len) :
             IF v < 0 \/ checked_add(e, v) = {} THEN Return
             ELSE \E x \in checked_add(e, v) :
                    /\ Iterate("block", len) /\ UNCHANGED <<nest, todo, templates>>
                    /\ LET end == IF x < len THEN x ELSE len
                       IN IF end > e THEN Take(e, end, len) ELSE NoTake
AvroDone == pc = "block" /\ Return

(* decode_fields: one tag and its value.  Whatever cannot be read ends     *)
(* this message, and the enclosing one goes on after it.                   *)
EndMessage ==
  IF nest = << >> THEN Return
  ELSE Iterate("field", Limit) /\ nest' = Front(nest) /\ UNCHANGED <<todo, templates, slice>>
FixedLen(wire) == IF wire = "fixed64" THEN 8 ELSE 4
Field(o) == Iterate("field", o) /\ UNCHANGED <<nest, todo, templates>>

ProtobufField(wire, v) ==
  /\ pc = "field"
  /\ \/ EndMessage
     \/ \E e \in VarintEnds(off, Limit) :
          CASE wire = "other" -> EndMessage
            [] wire = "varint" ->
                 \/ EndMessage
                 \/ \E x \in VarintEnds(e, Limit) : Field(x) /\ NoTake
            [] wire \in {"fixed32", "fixed64"} ->
                 IF e + FixedLen(wire) > Limit THEN EndMessage
                 ELSE Take(e, e + FixedLen(wire), Limit) /\ Field(e + FixedLen(wire))
            [] wire \in {"text", "message"} ->
                 \/ EndMessage
                 \/ \E s \in VarintEnds(e, Limit) :
                      LET ends == {x \in checked_add(s, as_usize(v)) : x <= Limit}
                      IN \/ ends = {} /\ EndMessage
                         \/ \E x \in ends :
                              /\ Take(s, x, Limit)
                              /\ IF wire = "message" /\ Len(nest) < MaxDepth
                                 THEN /\ Iterate("field", s) /\ nest' = Append(nest, x)
                                      /\ UNCHANGED <<todo, templates>>
                                 ELSE Field(x)

(***************************************************************************)
(* EDN                                                                     *)
(***************************************************************************)

(* check_edn_container_density: opens brackets outside strings and         *)
(* comments, run of them in a row.  The parser is not told of run: below,  *)
(* any order of opens brackets may come.                                   *)
Density(opens, run) ==
  /\ pc = "density" /\ run <= opens
  /\ IF opens >= MaxOpens \/ run > MaxRun \/ len = 0 THEN Return
     ELSE Iterate("value", 0) /\ todo' = <<opens>> /\ UNCHANGED <<nest, templates, slice>>

(* A value was read: back to the container, which wants a key or a value,  *)
(* or to the tag, whose value it is.                                       *)
Plain(stack) == SelectLastInSubSeq(stack, 1, Len(stack), LAMBDA k : k # "tag")
Wants(stack) ==
  LET kept == SubSeq(stack, 1, Plain(stack))
  IN IF kept = << >> THEN kept
     ELSE IF Last(kept) = "key" THEN Append(Front(kept), "map")
     ELSE IF Last(kept) = "map" THEN Append(Front(kept), "key") ELSE kept
Parsed(o, stack) ==
  IF Wants(stack) = << >> THEN Return
  ELSE Iterate("item", o) /\ nest' = Wants(stack) /\ UNCHANGED <<todo, templates, slice>>

(* parse_value_inner, at depth Len(nest).  A scalar takes at least one     *)
(* character; a delimiter where a value should be is an error; a container *)
(* cannot be a key.                                                        *)
EdnValue(kind, n) ==
  /\ pc = "value"
  /\ IF Len(nest) >= MaxDepth \/ off >= len \/ kind = "delimiter" THEN Return
     ELSE CASE kind = "scalar" -> off + n <= len /\ Parsed(off + n, nest)
            [] kind = "tag" ->
                 /\ Iterate("value", off + 1) /\ nest' = Append(nest, "tag")
                 /\ UNCHANGED <<todo, templates, slice>>
            [] kind \in {"key", "seq"} ->
                 /\ todo[1] > 0
                 /\ Iterate("item", off + 1) /\ nest' = Append(nest, kind)
                 /\ todo' = <<todo[1] - 1>> /\ UNCHANGED <<templates, slice>>

(* The loops of parse_map, parse_vector and parse_set.  nest holds key     *)
(* where a key comes next, map where its value does; between the two there *)
(* is no look for the closing bracket.  The end of the text closes too.    *)
AsKey == LET outer == Plain(Front(nest)) IN outer > 0 /\ nest[outer] = "key"
EdnItem(closes) ==
  /\ pc = "item"
  /\ IF Last(nest) # "map" /\ (closes \/ off >= len)
     THEN IF AsKey THEN Return
          ELSE Parsed(IF off >= len THEN off ELSE off + 1, Front(nest))
     ELSE Iterate("value", off) /\ UNCHANGED <<nest, todo, templates, slice>>

(***************************************************************************)
(* nmap, CEF, es_bulk                                                      *)
(***************************************************************************)

(* parse_hosts: the next <host, up to </host> or the end of the document; *)
(* and the <port elements in it, each up to </port> or the end of its tag. *)
NmapHost(skip, n) ==
  /\ pc = "host"
  /\ IF off + skip + 5 > len THEN Return
     ELSE LET end == IF off + skip + 5 + n + 7 > len THEN len ELSE off + skip + 5 + n + 7
          IN /\ Take(off + skip, end, len) /\ Iterate("port", off + skip) /\ nest' = <<end>>
             /\ UNCHANGED <<todo, templates>>

NmapPort_search_from_start(skip, n) ==
  /\ pc = "port"
  /\ IF off + skip + 6 > Limit
     THEN Iterate("host", Limit) /\ nest' = << >> /\ UNCHANGED <<todo, templates, slice>>
     ELSE Iterate("port", off + skip) /\ UNCHANGED <<nest, todo, templates, slice>>

NmapPort(skip, n) ==
  /\ pc = "port"
  /\ IF off + skip + 6 > Limit
     THEN Iterate("host", Limit) /\ nest' = << >> /\ UNCHANGED <<todo, templates, slice>>
     ELSE LET end == IF off + skip + 6 + n > Limit THEN Limit ELSE off + skip + 6 + n
          IN /\ Take(off + skip, end, Limit) /\ Iterate("port", end)
             /\ UNCHANGED <<nest, todo, templates>>

(* The header of CEF: seven fields between bars, a backslash protects what *)
(* follows it; the rest is the extension.                                  *)
CefChar(c) ==
  /\ pc = "header"
  /\ IF off >= len THEN Return
     ELSE /\ Iterate("header", IF c = "escape" /\ off + 1 < len THEN off + 2 ELSE off + 1)
          /\ todo' = IF c = "bar" /\ Len(todo) < 7 THEN Append(todo, off) ELSE todo
          /\ UNCHANGED <<nest, templates, slice>>

(* es_bulk, by lines: an action, and a source unless it is a delete. *)
BulkAction(delete) ==
  /\ pc = "action"
  /\ IF off >= len THEN Return
     ELSE Iterate(IF delete THEN "action" ELSE "source", off + 1) /\ UNCHANGED <<nest, todo, templates, slice>>
BulkSource ==
  /\ pc = "source"
  /\ Iterate("action", IF off < len THEN off + 1 ELSE off) /\ UNCHANGED <<nest, todo, templates, slice>>

(***************************************************************************)
(* Specification                                                           *)
(***************************************************************************)

Lengths(f) ==
  CASE f = "v5" -> {24, 24 + 47, 24 + 48, 24 + 96}
    [] f \in {"v9", "ipfix"} -> {HeaderLen(f) + n : n \in {0, 3, 7, 12, MaxSets}}
    [] f = "collectd" -> 0 .. 16
    [] f = "avro" -> {4, 6, 21, 22, 26}
    [] OTHER -> HeaderLen(f) .. HeaderLen(f) + MaxBody
TemplateFields == UNION {[1 .. n -> FieldLengths] : n \in 0 .. MaxFields + 1}

DecoderNext ==
  \/ \E f \in Formats : \E n \in Lengths(f) : StartDecode(f, n)
  \/ V5Record
  \/ pc = "set" /\ \E id \in {0, 1, 2} \union Ids, n \in 0 .. MaxSets + 1 : FlowSet(id, n)
  \/ pc = "template" /\ \E id \in Ids, lengths \in TemplateFields : Template(id, lengths)
  \/ DataField
  \/ pc = "part" /\ \E type \in {"text", "time", "values", "other"}, n \in 0 .. 17, c \in 0 .. 2 :
       CollectdPart(type, n, c)
  \/ CollectdValue
  \/ \E v \in Signed : AvroMeta(v) \/ AvroEntry(v) \/ AvroBlock(v)
  \/ AvroDone
  \/ \E wire \in {"varint", "fixed32", "fixed64", "text", "message", "other"}, v \in Signed :
       ProtobufField(wire, v)
  \/ \E opens, run \in 0 .. MaxOpens : Density(opens, run)
  \/ \E kind \in {"scalar", "tag", "key", "seq", "delimiter"}, n \in 1 .. 2 : EdnValue(kind, n)
  \/ \E closes \in BOOLEAN : EdnItem(closes)
  \/ \E skip \in 0 .. 1, n \in 0 .. 2 : NmapHost(skip, n) \/ NmapPort(skip, n)
  \/ \E c \in {"bar", "escape", "other"} : CefChar(c)
  \/ \E delete \in BOOLEAN : BulkAction(delete)
  \/ BulkSource

DecoderSpec == DecoderInit /\ [][DecoderNext]_decoderVars

(***************************************************************************)
(* Properties                                                              *)
(***************************************************************************)

(* Whatever lengths, counts and types the data holds, a decoder only       *)
(* slices inside the buffer it was given (or the enclosing part of it),    *)
(* its cursor stays in the data, it never nests deeper than MAX_DEPTH, and *)
(* the netflow template cache stays within MAX_TEMPLATES and               *)
(* MAX_TEMPLATE_FIELDS.  A slice outside its buffer would panic the input. *)
CursorSound ==
  /\ 0 <= slice.from /\ slice.from <= slice.to /\ slice.to <= slice.bound
  /\ 0 <= off /\ off <= len
  /\ Len(nest) <= MaxDepth
  /\ Cardinality(Known) <= MaxTemplates
  /\ \A id \in Known : Len(templates[id]) <= MaxFields

(* A decoder ends after a number of iterations that is linear in the       *)
(* length of the data: no part, set or value of length zero, and no run of *)
(* empty template fields, can keep its loop where it is.  Only the fields  *)
(* of a template may all be empty, in a set of four bytes.                 *)
LinearTime == steps <= (MaxFields + 3) * (len + 1)

=============================================================================
