------------------------------- MODULE Events -------------------------------
(***************************************************************************)
(* An event: its fields, tags and timestamp; field references; conditions; *)
(* and its JSON image, which is what the persistent queue, the dead letter *)
(* queue and most codecs keep of it.                                       *)
(*                                                                         *)
(* A value is a record tagged with its type; an object holds a function    *)
(* from names to values.  A field reference is the sequence of its         *)
(* segments.  Formatted text is kept as a tagged record, not as letters.   *)
(***************************************************************************)
EXTENDS Integers, Sequences, SequencesExt, Functions, FiniteSets

Str(x) == [t |-> "str", v |-> x]
Num(n) == [t |-> "int", v |-> n]
Flt(n) == [t |-> "flt", v |-> n]                   \* n halves
NonFinite == [t |-> "inf"]                         \* a float too
Bool(b) == [t |-> "bool", v |-> b]
Nil == [t |-> "null"]
Arr(q) == [t |-> "arr", v |-> q]
Obj(f) == [t |-> "obj", v |-> f]
EmptyMap == << >>

IsObj(x) == x.t = "obj"
With(f, k, x) == [y \in DOMAIN f \union {k} |-> IF y = k THEN x ELSE f[y]]
Without(f, k) == Restrict(f, DOMAIN f \ {k})

(* The number a value stands for, in halves. *)
as_f64(x) == IF x.t = "int" THEN 2 * x.v ELSE x.v
Numeric(x) == x.t \in {"int", "flt"}

is_truthy(x) ==
  CASE x.t = "null" -> FALSE
    [] x.t = "bool" -> x.v
    [] x.t = "str" -> x.v # ""
    [] x.t \in {"arr", "obj"} -> DOMAIN x.v # {}
    [] OTHER -> TRUE

(***************************************************************************)
(* Field references                                                        *)
(***************************************************************************)

(* {} or the value. *)
RECURSIVE get_from_fields(_, _)
get_from_fields(path, fields) ==
  IF path = << >> \/ Head(path) \notin DOMAIN fields THEN {}
  ELSE LET x == fields[Head(path)]
       IN IF Len(path) = 1 THEN {x}
          ELSE IF IsObj(x) THEN get_from_fields(Tail(path), x.v) ELSE {}

(* Whatever is in the way of the path becomes an object. *)
RECURSIVE set_in_fields(_, _, _)
set_in_fields(path, fields, x) ==
  IF path = << >> THEN fields
  ELSE IF Len(path) = 1 THEN With(fields, path[1], x)
  ELSE LET k == Head(path)
           inner == IF k \in DOMAIN fields /\ IsObj(fields[k]) THEN fields[k].v ELSE EmptyMap
       IN With(fields, k, Obj(set_in_fields(Tail(path), inner, x)))

RECURSIVE remove_from_fields(_, _)
remove_from_fields(path, fields) ==
  IF path = << >> \/ Head(path) \notin DOMAIN fields THEN fields
  ELSE LET k == Head(path)
       IN IF Len(path) = 1 THEN Without(fields, k)
          ELSE IF IsObj(fields[k])
               THEN With(fields, k, Obj(remove_from_fields(Tail(path), fields[k].v)))
               ELSE fields

(* [a][b] and a.b name the same field.  A bracketed reference drops empty  *)
(* segments, a dotted one keeps them.                                      *)
parse_field_ref(style, segments) ==
  IF style = "bracket" THEN SelectSeq(segments, LAMBDA s : s # "") ELSE segments

(***************************************************************************)
(* Events                                                                  *)
(***************************************************************************)

NoTime == "now"      \* Utc::now() when the event is made
EmptyEvent == [fields |-> EmptyMap, tags |-> << >>, time |-> NoTime, cancelled |-> FALSE]
NewEvent(message) == [EmptyEvent EXCEPT !.fields = With(EmptyMap, "message", Str(message))]

get(e, path) == IF path = <<"@timestamp">> THEN {} ELSE get_from_fields(path, e.fields)
set(e, path, x) == [e EXCEPT !.fields = set_in_fields(path, @, x)]
remove(e, path) == [e EXCEPT !.fields = remove_from_fields(path, @)]

add_tag(e, tag) == IF tag \in Range(e.tags) THEN e ELSE [e EXCEPT !.tags = Append(@, tag)]
remove_tag(e, tag) == [e EXCEPT !.tags = SelectSeq(@, LAMBDA t : t # tag)]
has_tag(e, tag) == tag \in Range(e.tags)
cancel(e) == [e EXCEPT !.cancelled = TRUE]

(* EventValue to JSON and back: JSON has no infinities, and a float comes  *)
(* back as a float.                                                        *)
RECURSIVE to_json_value(_)
to_json_value(x) ==
  CASE x.t = "inf" -> Num(0)
    [] x.t = "arr" -> Arr([i \in DOMAIN x.v |-> to_json_value(x.v[i])])
    [] x.t = "obj" -> Obj([k \in DOMAIN x.v |-> to_json_value(x.v[k])])
    [] OTHER -> x

RECURSIVE from_json_value(_)
from_json_value(j) ==
  CASE j.t = "big" -> Flt(0)             \* a number that is not an i64
    [] j.t = "arr" -> Arr([i \in DOMAIN j.v |-> from_json_value(j.v[i])])
    [] j.t = "obj" -> Obj([k \in DOMAIN j.v |-> from_json_value(j.v[k])])
    [] OTHER -> j

Time(x) == [t |-> "time", v |-> x]       \* a string that reads as a time

(* A field wins over what the event itself has under the same name. *)
to_json(e) ==
  LET own == With(With(EmptyMap, "@timestamp", Time(e.time)), "@version", Str("1"))
      tagged == IF e.tags = << >> THEN own
                ELSE With(own, "tags", Arr([i \in DOMAIN e.tags |-> Str(e.tags[i])]))
  IN [k \in DOMAIN tagged \union DOMAIN e.fields |->
        IF k \in DOMAIN e.fields THEN to_json_value(e.fields[k]) ELSE tagged[k]]

from_json(j) ==
  LET timed == "@timestamp" \in DOMAIN j /\ j["@timestamp"].t = "time"
      rest == DOMAIN j \ (IF timed THEN {"@timestamp"} ELSE {})
  IN [EmptyEvent EXCEPT !.time = IF timed THEN j["@timestamp"].v ELSE NoTime,
                        !.fields = [k \in rest |-> from_json_value(j[k])]]

(* sprintf on one %{name}: tags and message are read in their own way, a   *)
(* name that is not there stays as it was written.                         *)
sprintf(e, path) ==
  CASE path = <<"@timestamp">> -> {Time(e.time)}
    [] path = <<"tags">> -> {Arr([i \in DOMAIN e.tags |-> Str(e.tags[i])])}
    [] path = <<"message">> ->
         {IF "message" \in DOMAIN e.fields /\ e.fields["message"].t = "str"
          THEN e.fields["message"] ELSE Str("")}
    [] OTHER -> IF get(e, path) = {} THEN {[t |-> "verbatim", v |-> path]} ELSE get(e, path)

(***************************************************************************)
(* Conditions                                                              *)
(***************************************************************************)

matches_event_value(c, x) ==
  \/ c.t = x.t /\ c = x
  \/ c.t # x.t /\ Numeric(c) /\ Numeric(x) /\ as_f64(c) = as_f64(x)

compare_field(e, path, c, cmp) ==
  \E x \in get(e, path) :
    /\ Numeric(x) /\ Numeric(c)
    /\ CASE cmp = ">" -> as_f64(x) > as_f64(c) [] cmp = ">=" -> as_f64(x) >= as_f64(c)
         [] cmp = "<" -> as_f64(x) < as_f64(c) [] cmp = "<=" -> as_f64(x) <= as_f64(c)

RECURSIVE evaluate(_, _)
evaluate(c, e) ==
  CASE c.op = "true" -> TRUE
    [] c.op = "exists" -> get(e, c.field) # {}
    [] c.op = "==" -> \E x \in get(e, c.field) : matches_event_value(c.value, x)
    [] c.op = "!=" -> \A x \in get(e, c.field) : ~matches_event_value(c.value, x)
    [] c.op \in {">", ">=", "<", "<="} -> compare_field(e, c.field, c.value, c.op)
    [] c.op = "=~" -> \E x \in get(e, c.field) : x \in c.value        \* value: what the regex matches
    [] c.op = "!~" -> \A x \in get(e, c.field) : x \notin c.value
    [] c.op = "in" -> \E x \in get(e, c.field) : \E v \in c.value : matches_event_value(v, x)
    [] c.op = "not in" -> \A x \in get(e, c.field) : \A v \in c.value : ~matches_event_value(v, x)
    [] c.op = "has_tag" -> has_tag(e, c.value)
    [] c.op = "not" -> ~evaluate(c.left, e)
    [] c.op = "and" -> evaluate(c.left, e) /\ evaluate(c.right, e)
    [] c.op = "or" -> evaluate(c.left, e) \/ evaluate(c.right, e)

=============================================================================
