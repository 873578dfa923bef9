----------------------------- MODULE ScriptEval -----------------------------
(***************************************************************************)
(* The tree-walking evaluator of scripts, over integers of a small width,  *)
(* and the compiler's idea of the same expressions.                        *)
(*                                                                         *)
(* A context is [locals, source, doc, params, meta, cache]; an evaluation  *)
(* is Done(value, context) or Fail, after which nobody sees the context.   *)
(* Floats are halves of a few bits (Rounded); what the floating point      *)
(* functions compute is not modelled (Real).  A string is the sequence of its        *)
(* letters, a number shown in one counts as a letter, and the name of a    *)
(* field is one letter long.                                               *)
(***************************************************************************)
EXTENDS ScriptParser, SequencesExt, Functions, FiniteSetsExt, TLC

CONSTANTS MaxIterations,     \* of a for loop (100_000)
          Mantissa,          \* a float of so many halves is exact (2^53)
          MaxParts           \* of a split (MAX_SPLIT_PARTS, MAX_STR_OUTPUT_BYTES)

IntMin == -IntMax - 1        \* i64::MIN

Num(n) == [t |-> "int", v |-> n]
Flt(n) == [t |-> "flt", v |-> n]
Bool(b) == [t |-> "bool", v |-> b]
Str(q) == [t |-> "str", v |-> q]
Null == [t |-> "null"]
Arr(q) == [t |-> "arr", v |-> q]
Map(f) == [t |-> "map", v |-> f]
Real(f, args) == [t |-> "real", v |-> <<f, args>>]
Shown(x) == CASE x.t = "str" -> x.v                                  \* Display
              [] x.t = "null" -> <<"null">>
              [] x.t = "flt" -> <<ToString(x.v) \o "/2">>
              [] OTHER -> <<ToString(x.v)>>

Abs(n) == IF n < 0 THEN -n ELSE n

(* The float nearest to h halves: the distance of the floats doubles       *)
(* beyond Mantissa and with every doubling of it; a tie goes to the even.  *)
Rounded(h) ==
  LET unit == 2 ^ Min({k \in 0 .. 28 : Abs(h) <= Mantissa * 2 ^ k})
      below == Abs(h) \div unit
      rest == 2 * (Abs(h) % unit)
      near == IF rest > unit \/ (rest = unit /\ below % 2 = 1) THEN below + 1 ELSE below
  IN IF h < 0 THEN -(near * unit) ELSE near * unit

Infinite == 1000000000

IsNumber(x) == x.t \in {"int", "flt"}
as_f64(x) == IF x.t = "int" THEN Rounded(2 * x.v) ELSE x.v
is_truthy(x) ==
  CASE x.t = "null" -> FALSE
    [] x.t = "bool" -> x.v
    [] x.t \in {"int", "flt"} -> x.v # 0
    [] x.t \in {"str", "arr", "map"} -> DOMAIN x.v # {}
    [] OTHER -> TRUE
Put(f, k, x) == [y \in DOMAIN f \union {k} |-> IF y = k THEN x ELSE f[y]]
Look(f, k) == IF k \in DOMAIN f THEN f[k] ELSE Null

EmptyContext == [locals |-> << >>, source |-> Map(<< >>), doc |-> << >>, params |-> << >>,
                 meta |-> << >>, cache |-> {}]

(***************************************************************************)
(* Integers of the machine's width: an operation that does not fit is an   *)
(* error, never a wrapped value.                                           *)
(***************************************************************************)

Fits(n) == n \in IntMin .. IntMax
Checked(n, ctx) == IF Fits(n) THEN Done(Num(n), ctx) ELSE Fail
Quotient(a, b) == LET q == Abs(a) \div Abs(b) IN IF (a < 0) = (b < 0) THEN q ELSE -q
Remainder(a, b) == a - b * Quotient(a, b)
Clamp(n) == IF n > IntMax THEN IntMax ELSE IF n < IntMin THEN IntMin ELSE n

(* checked_div and checked_rem refuse MIN / -1, whose quotient does not fit. *)
IntOp(op, a, b, ctx) ==
  CASE op = "+" -> Checked(a + b, ctx)
    [] op = "-" -> Checked(a - b, ctx)
    [] op = "*" -> Checked(a * b, ctx)
    [] op \in {"/", "%"} ->
         IF b = 0 \/ ~Fits(Quotient(a, b)) THEN Fail
         ELSE Done(Num(IF op = "/" THEN Quotient(a, b) ELSE Remainder(a, b)), ctx)
FloatOp(op, a, b, ctx) ==
  LET done(h) == Done(Flt(Rounded(h)), ctx)
  IN CASE op = "+" -> done(a + b)
       [] op = "-" -> done(a - b)
       [] op = "*" -> done((a * b) \div 2)
       [] op \in {"/", "%"} ->
            IF b = 0 THEN Fail ELSE done(IF op = "/" THEN Quotient(2 * a, b) ELSE Remainder(a, b))
Compare(op, a, b) ==
  CASE op = ">" -> a > b [] op = "<" -> a < b [] op = ">=" -> a >= b [] op = "<=" -> a <= b

(* Values of two types are never equal; both sides of && and || have been  *)
(* evaluated by now.                                                       *)
eval_binop(l, op, r, ctx) ==
  CASE op = "+" /\ (l.t = "str" \/ r.t = "str") ->
         Done(Str(Shown(l) \o Shown(r)), ctx)
    [] op = "==" -> Done(Bool(l.t = r.t /\ l = r), ctx)
    [] op = "!=" -> Done(Bool(l.t # r.t \/ l # r), ctx)
    [] op = "&&" -> Done(Bool(is_truthy(l) /\ is_truthy(r)), ctx)
    [] op = "||" -> Done(Bool(is_truthy(l) \/ is_truthy(r)), ctx)
    [] ~(IsNumber(l) /\ IsNumber(r)) -> Fail
    [] op \in {">", "<", ">=", "<="} ->
         Done(Bool(IF l.t = "int" /\ r.t = "int" THEN Compare(op, l.v, r.v)
                   ELSE Compare(op, as_f64(l), as_f64(r))), ctx)
    [] l.t = "int" /\ r.t = "int" -> IntOp(op, l.v, r.v, ctx)
    [] OTHER -> FloatOp(op, as_f64(l), as_f64(r), ctx)

eval_unary(op, x, ctx) ==
  CASE op = "!" -> Done(Bool(~is_truthy(x)), ctx)
    [] x.t = "int" -> Checked(-x.v, ctx)
    [] x.t = "flt" -> Done(Flt(-x.v), ctx)
    [] OTHER -> Fail

(***************************************************************************)
(* The document                                                            *)
(***************************************************************************)

RECURSIVE get_nested_value(_, _), set_nested_value(_, _, _)
get_nested_value(x, path) ==
  IF path = << >> THEN x
  ELSE IF x.t = "map" /\ Head(path) \in DOMAIN x.v
  THEN get_nested_value(x.v[Head(path)], Tail(path)) ELSE Null

(* What is in the way becomes an object; a source that is not one stays.   *)
set_nested_value(x, path, y) ==
  IF x.t # "map" THEN x
  ELSE IF Len(path) = 1 THEN Map(Put(x.v, path[1], y))
  ELSE LET old == Look(x.v, Head(path))
           inner == IF old.t = "map" THEN old ELSE Map(<< >>)
       IN Map(Put(x.v, Head(path), set_nested_value(inner, Tail(path), y)))

(***************************************************************************)
(* Dates, in whole seconds.  Days are counted from 1970-01-01; an era is   *)
(* 400 years of 146097 days beginning on the first of March.               *)
(***************************************************************************)

Day == 86400
(* / and % of the machine, which round towards zero. *)
FromDays(days) ==
  LET z == days + 719468
      era == Quotient(IF z >= 0 THEN z ELSE z - 146096, 146097)
      doe == z - era * 146097
      yoe == Quotient(doe - Quotient(doe, 1460) + Quotient(doe, 36524) - Quotient(doe, 146096), 365)
      doy == doe - (365 * yoe + Quotient(yoe, 4) - Quotient(yoe, 100))
      mp == Quotient(5 * doy + 2, 153)
      m == IF mp < 10 THEN mp + 3 ELSE mp - 9
  IN [year |-> yoe + era * 400 + (IF m <= 2 THEN 1 ELSE 0), month |-> m,
      day |-> doy - Quotient(153 * mp + 2, 5) + 1]

ToDays(year, month, day) ==
  LET y == IF month <= 2 THEN year - 1 ELSE year
      m == IF month <= 2 THEN month + 9 ELSE month - 3
      era == Quotient(IF y >= 0 THEN y ELSE y - 399, 400)
      yoe == y - era * 400
      doy == Quotient(153 * m + 2, 5) + day - 1
      doe == yoe * 365 + Quotient(yoe, 4) - Quotient(yoe, 100) + doy
  IN era * 146097 + doe - 719468
date_to_epoch(d) ==
  ToDays(d.year, d.month, d.day) * Day + d.hour * 3600 + d.minute * 60 + d.second

(* Of a number of seconds, or of a date that was written out; a part that  *)
(* does not read as a number has its default.                              *)
parse_date_components(x) ==
  IF x.t = "date"
  THEN [x.v EXCEPT !.epoch = date_to_epoch(x.v)]
  ELSE LET secs == x.v
           civil == FromDays(Quotient(secs, Day))
           rest == Remainder(secs, Day)
       IN [year |-> civil.year, month |-> civil.month, day |-> civil.day,
           hour |-> Quotient(rest, 3600), minute |-> Quotient(Remainder(rest, 3600), 60),
           second |-> Remainder(rest, 60), epoch |-> secs]

IsLeap(y) == (y % 4 = 0 /\ y % 100 # 0) \/ y % 400 = 0
DaysIn(y, m) == IF m = 2 THEN IF IsLeap(y) THEN 29 ELSE 28
                ELSE IF m \in {4, 6, 9, 11} THEN 30 ELSE 31
DayOfWeek(epoch) == Remainder(Remainder(Quotient(epoch, Day), 7) + 4 - 1, 7) + 1
DayOfYear(d) == MapThenSumSet(LAMBDA m : DaysIn(d.year, m), 1 .. d.month - 1) + d.day

DateGetters == {"getYear", "getMonthValue", "getDayOfMonth", "getHour", "getMinute", "getSecond",
                "getNano", "getDayOfWeek", "getDayOfYear", "getMillis", "toEpochMilli", "toInstant"}
Units == [plusDays |-> Day, plusHours |-> 3600, plusMinutes |-> 60, plusSeconds |-> 1,
          minusDays |-> -Day, minusHours |-> -3600, minusMinutes |-> -60, minusSeconds |-> -1]
(* The result of a plus or minus is checked at the full width of i64, which *)
(* no number of seconds here reaches: DateMax stands for it.               *)
DateMax == 2000000000
date_method(x, m, args, ctx) ==
  IF x.t \notin {"int", "flt", "date"} THEN Fail
  ELSE LET d == parse_date_components(IF x.t = "flt" THEN Num(Quotient(x.v, 2)) ELSE x)
           amount == IF args = << >> \/ ~IsNumber(args[1]) THEN 0
                     ELSE IF args[1].t = "int" THEN args[1].v ELSE Quotient(args[1].v, 2)
       IN CASE m = "getYear" -> Done(Num(d.year), ctx)
            [] m = "getMonthValue" -> Done(Num(d.month), ctx)
            [] m = "getDayOfMonth" -> Done(Num(d.day), ctx)
            [] m = "getHour" -> Done(Num(d.hour), ctx)
            [] m = "getMinute" -> Done(Num(d.minute), ctx)
            [] m = "getSecond" -> Done(Num(d.second), ctx)
            [] m = "getNano" -> Done(Num(0), ctx)
            [] m = "getDayOfWeek" -> Done(Num(DayOfWeek(d.epoch)), ctx)
            [] m = "getDayOfYear" ->
                 IF d.month \in 1 .. 12 THEN Done(Num(DayOfYear(d)), ctx) ELSE Fail
            [] m \in {"getMillis", "toEpochMilli", "toInstant"} -> Done(Num(d.epoch), ctx)
            [] m \in DOMAIN Units ->
                 LET sum == d.epoch + amount * Units[m]
                 IN IF Abs(sum) > DateMax THEN Fail ELSE Done(Num(sum), ctx)

(***************************************************************************)
(* Methods                                                                 *)
(***************************************************************************)

(* Where sub begins in s, from 0. *)
Finds(s, sub) == {i \in 0 .. Len(s) - Len(sub) : SubSeq(s, i + 1, i + Len(sub)) = sub}
At(s, i) == IF i + 1 \in DOMAIN s THEN s[i + 1] ELSE Null
(* i as usize: a negative number is a huge one. *)
Capped(i, s) == IF i < 0 \/ i > Len(s) THEN Len(s) ELSE i

(* The pieces between separators of one letter. *)
Pieces(s, sep) ==
  LET cuts == SetToSortSeq({-1} \union Finds(s, sep) \union {Len(s)}, <)
  IN [i \in 1 .. Len(cuts) - 1 |-> Str(SubSeq(s, cuts[i] + 2, cuts[i + 1]))]
Replaced(s, from, to) ==
  FlattenSeq([i \in DOMAIN s |-> IF <<s[i]>> = from THEN to ELSE <<s[i]>>])

(* The letters here have one byte and are no blanks, so trim keeps them. *)
Upper == [x \in {"a", "b"} |-> IF x = "a" THEN "A" ELSE "B"]
Cased(s, m) == [i \in DOMAIN s |-> IF m = "toUpperCase" /\ s[i] \in DOMAIN Upper THEN Upper[s[i]] ELSE s[i]]
StringMethods == {"toUpperCase", "toLowerCase", "trim", "length", "contains", "substring", "startsWith", "endsWith", "replace", "split",
                  "indexOf", "charAt"}
string_method(s, m, args, ctx) ==
  LET arg == IF args = << >> THEN Null ELSE args[1]
      two == IF Len(args) < 2 THEN Null ELSE args[2]
  IN CASE m = "length" -> Done(Num(Len(s)), ctx)
       [] m \in {"toUpperCase", "toLowerCase", "trim"} -> Done(Str(Cased(s, m)), ctx)
       [] m \in {"contains", "startsWith", "endsWith", "indexOf", "replace", "split"}
          /\ arg.t # "str" -> Fail
       [] m = "contains" -> Done(Bool(Finds(s, arg.v) # {}), ctx)
       [] m = "startsWith" -> Done(Bool(0 \in Finds(s, arg.v)), ctx)
       [] m = "endsWith" -> Done(Bool(Len(s) - Len(arg.v) \in Finds(s, arg.v)), ctx)
       [] m = "indexOf" ->
            Done(Num(IF Finds(s, arg.v) = {} THEN -1 ELSE Min(Finds(s, arg.v))), ctx)
       [] m = "replace" ->
            IF two.t # "str" \/ Len(Replaced(s, arg.v, two.v)) > MaxParts THEN Fail
            ELSE Done(Str(Replaced(s, arg.v, two.v)), ctx)
       [] m = "split" ->
            IF Len(Pieces(s, arg.v)) > MaxParts THEN Fail ELSE Done(Arr(Pieces(s, arg.v)), ctx)
       [] m = "substring" ->
            IF arg.t # "int" \/ two.t \notin {"int", "null"} THEN Fail
            ELSE LET start == Capped(arg.v, s)
                     end == IF two.t = "null" THEN Len(s) ELSE Capped(two.v, s)
                 IN IF start > end THEN Fail ELSE Done(Str(SubSeq(s, start + 1, end)), ctx)
       [] m = "charAt" ->
            IF arg.t # "int" THEN Fail
            ELSE Done(IF arg.v + 1 \in DOMAIN s THEN Str(<<s[arg.v + 1]>>) ELSE Null, ctx)

(* A matcher is a string that remembers pattern and text.                  *)
IsMatcher(x) == x.t = "str" /\ x.v # << >> /\ x.v[1] = "__matcher:"
matcher_method(x, m, args, ctx) ==
  IF x.t = "regex"
  THEN IF args # << >> /\ args[1].t = "str"
       THEN Done(Str(<<"__matcher:", x.v>> \o args[1].v), ctx) ELSE Fail
  ELSE LET s == SubSeq(x.v, 3, Len(x.v))
       IN Done(Bool(IF m = "find" THEN Finds(s, <<x.v[2]>>) # {} ELSE s = <<x.v[2]>>), ctx)

ArrayMethods == {"size", "length", "contains", "indexOf", "add", "remove", "isEmpty", "get", "join"}
array_method(q, m, args, ctx) ==
  LET arg == IF args = << >> THEN Null ELSE args[1]
      same(x) == x.t = arg.t /\ x = arg
      found == {i \in DOMAIN q : same(q[i])}
  IN CASE m \in {"size", "length"} -> Done(Num(Len(q)), ctx)
       [] m = "isEmpty" -> Done(Bool(q = << >>), ctx)
       [] m = "join" ->
            LET sep == IF arg.t = "str" THEN arg.v ELSE <<",">>
            IN Done(Str(FlattenSeq([i \in DOMAIN q |->
                      IF i = 1 THEN Shown(q[i]) ELSE sep \o Shown(q[i])])), ctx)
       [] args = << >> -> Fail
       [] m = "contains" -> Done(Bool(found # {}), ctx)
       [] m = "indexOf" -> Done(Num(IF found = {} THEN -1 ELSE Min(found) - 1), ctx)
       [] m = "add" -> Done(Arr(Append(q, arg)), ctx)
       [] arg.t # "int" -> Fail
       [] m = "get" -> Done(At(q, arg.v), ctx)
       [] m = "remove" -> Done(Arr(IF arg.v + 1 \in DOMAIN q THEN RemoveAt(q, arg.v + 1) ELSE q), ctx)

MapMethods == {"containsKey", "get", "put", "remove", "keySet", "values", "size", "isEmpty",
               "containsValue", "matches", "group"}
map_method(f, m, args, ctx) ==
  LET arg == IF args = << >> THEN Null ELSE args[1]
      listed == SetToSeq(DOMAIN f)
  IN CASE m = "size" -> Done(Num(Cardinality(DOMAIN f)), ctx)
       [] m = "isEmpty" -> Done(Bool(DOMAIN f = {}), ctx)
       [] m = "keySet" -> Done(Arr([i \in DOMAIN listed |-> Str(<<listed[i]>>)]), ctx)
       [] m = "values" -> Done(Arr([i \in DOMAIN listed |-> f[listed[i]]]), ctx)
       [] m = "matches" -> Done(Bool(Look(f, "_matched") = Bool(TRUE)), ctx)
       [] m = "group" -> Done(Look(f, IF arg.t = "int" THEN ToString(arg.v) ELSE "0"), ctx)
       [] args = << >> -> Fail
       [] m = "containsValue" -> Done(Bool(\E k \in DOMAIN f : f[k].t = arg.t /\ f[k] = arg), ctx)
       [] arg.t # "str" -> Fail
       [] m = "containsKey" -> Done(Bool(arg.v[1] \in DOMAIN f), ctx)
       [] m = "get" -> Done(Look(f, arg.v[1]), ctx)
       [] m = "put" -> IF Len(args) < 2 THEN Fail ELSE Done(Map(Put(f, arg.v[1], args[2])), ctx)
       [] m = "remove" -> Done(Map(Restrict(f, DOMAIN f \ {arg.v[1]})), ctx)

eval_method(x, m, args, ctx) ==
  CASE x.t = "regex" /\ m = "matcher" -> matcher_method(x, m, args, ctx)
    [] IsMatcher(x) /\ m \in {"find", "matches"} -> matcher_method(x, m, args, ctx)
    [] x.t = "str" /\ m \in StringMethods -> string_method(x.v, m, args, ctx)
    [] x.t = "arr" /\ m \in ArrayMethods -> array_method(x.v, m, args, ctx)
    [] x.t = "map" /\ m \in MapMethods -> map_method(x.v, m, args, ctx)
    [] m = "value" -> Done(x, ctx)
    [] m \in DateGetters \union DOMAIN Units -> date_method(x, m, args, ctx)
    [] OTHER -> Fail

(***************************************************************************)
(* Functions                                                               *)
(***************************************************************************)

(* Text that reads as a number. *)
ParseInt(s) == IF Len(s) = 1 /\ s[1] \in DOMAIN Literal /\ Literal[s[1]] <= IntMax
               THEN {Literal[s[1]]} ELSE {}

(* The functions of one float whose values are not modelled. *)
Reals == {"log", "log10", "log2", "exp", "sqrt", "cbrt", "round", "rint", "sin", "cos", "tan", "asin",
          "acos", "atan", "sinh", "cosh", "tanh", "toRadians", "toDegrees"}
eval_math(f, args, ctx) ==
  LET num(i) == i \in DOMAIN args /\ IsNumber(args[i])
      pick(c(_)) == IF args[1].t = "int" /\ args[2].t = "int"
                 THEN Num(c({args[1].v, args[2].v}))
                 ELSE Flt(c({as_f64(args[1]), as_f64(args[2])}))
  IN CASE f = "max" -> IF num(1) /\ num(2) THEN Done(pick(Max), ctx) ELSE Fail
       [] f = "min" -> IF num(1) /\ num(2) THEN Done(pick(Min), ctx) ELSE Fail
       [] f = "abs" -> IF ~num(1) THEN Fail
                       ELSE IF args[1].t = "int" THEN Checked(Abs(args[1].v), ctx)
                       ELSE Done(Flt(Abs(args[1].v)), ctx)
       [] f \in Reals -> IF num(1) THEN Done(Real(f, args), ctx) ELSE Fail
       [] f = "floor" -> IF num(1) THEN Done(Flt(2 * (as_f64(args[1]) \div 2)), ctx) ELSE Fail
       [] f = "ceil" -> IF num(1) THEN Done(Flt(-2 * ((-as_f64(args[1])) \div 2)), ctx) ELSE Fail
       [] f = "signum" ->
            IF num(1) THEN Done(Flt(IF as_f64(args[1]) > 0 THEN 2
                                    ELSE IF as_f64(args[1]) < 0 THEN -2 ELSE 0), ctx) ELSE Fail
       [] f \in {"pow", "atan2"} -> IF num(1) /\ num(2) THEN Done(Real(f, args), ctx) ELSE Fail
       [] f = "random" -> Done(Real(f, << >>), ctx)
       [] OTHER -> Fail

eval_static_call(class, m, args, ctx) ==
  LET arg == IF args = << >> THEN Null ELSE args[1]
      read == IF arg.t = "str" THEN ParseInt(arg.v) ELSE {}
  IN CASE class \in {"Integer", "Long"} /\ m \in {"parseInt", "parseLong", "valueOf"} ->
            IF arg.t = "int" THEN Done(arg, ctx)
            ELSE IF read = {} THEN Fail ELSE Done(Num(CHOOSE n \in read : TRUE), ctx)
       [] class \in {"Float", "Double"} /\ m \in {"parseFloat", "parseDouble"} ->
            IF arg.t = "flt" THEN Done(arg, ctx)
            ELSE IF read = {} THEN Fail ELSE Done(Flt(Rounded(2 * CHOOSE n \in read : TRUE)), ctx)
       [] class = "String" /\ m = "valueOf" ->
            Done(Str(IF args = << >> THEN << >> ELSE Shown(arg)), ctx)
       [] class = "Boolean" /\ m \in {"parseBoolean", "valueOf"} ->
            Done(Bool(IF arg.t = "bool" THEN arg.v ELSE arg.t = "str" /\ arg.v = <<"true">>), ctx)
       [] OTHER -> Fail

(* A vector is an array of finite numbers, or one wrapped in an array;     *)
(* null is the empty one.                                                  *)
RECURSIVE to_vector(_)
to_vector(x) ==
  CASE x.t = "null" -> Done(<< >>, {})
    [] x.t = "arr" ->
         IF Len(x.v) = 1 /\ x.v[1].t = "arr" THEN to_vector(x.v[1])
         ELSE IF \A i \in DOMAIN x.v : IsNumber(x.v[i])
         THEN Done([i \in DOMAIN x.v |-> as_f64(x.v[i])], {}) ELSE Fail
    [] OTHER -> Fail
resolve_doc_vector(x, ctx) ==
  CASE x.t = "str" -> to_vector(IF x.v[1] \in DOMAIN ctx.doc THEN ctx.doc[x.v[1]]
                                ELSE get_nested_value(ctx.source, x.v))
    [] x.t = "arr" -> to_vector(x)
    [] OTHER -> Fail
(* A sum that leaves the floats' range is an error.                        *)
eval_func_call(f, args, ctx) ==
  IF f \notin {"dotProduct", "cosineSimilarity", "l1norm", "l2norm", "hamming"} \/ Len(args) # 2
  THEN Fail
  ELSE Then(to_vector(args[1]), LAMBDA q, none1 : Then(resolve_doc_vector(args[2], ctx), LAMBDA s, none2 :
         LET sum(term(_)) == MapThenSumSet(term, DOMAIN q)
             squares(v) == sum(LAMBDA i : (v[i] * v[i]) \div 2)
             finite(h, x) == IF Abs(h) < Infinite THEN Done(x, ctx) ELSE Fail
             number(h) == finite(h, Flt(Rounded(h)))
         IN CASE Len(q) # Len(s) -> Fail
              [] q = << >> -> Done(Flt(0), ctx)
              [] f = "dotProduct" -> number(sum(LAMBDA i : (q[i] * s[i]) \div 2))
              [] f = "l1norm" -> number(sum(LAMBDA i : Abs(q[i] - s[i])))
              [] f = "hamming" -> number(2 * Cardinality({i \in DOMAIN q : q[i] # s[i]}))
              [] f = "l2norm" ->
                   finite(squares([i \in DOMAIN q |-> q[i] - s[i]]), Real(f, <<Arr(q), Arr(s)>>))
              [] f = "cosineSimilarity" ->
                   IF squares(q) = 0 \/ squares(s) = 0 THEN Done(Flt(0), ctx)
                   ELSE finite(Max({squares(q), squares(s)}), Real(f, <<Arr(q), Arr(s)>>))))

type_cast(to, x, ctx) ==
  LET read == IF x.t = "str" THEN ParseInt(x.v) ELSE {}
  IN CASE to \in {"int", "long"} ->
            (CASE x.t = "int" -> Done(x, ctx)
              [] x.t = "flt" -> Done(Num(Clamp(Quotient(x.v, 2))), ctx)
              [] x.t = "bool" -> Done(Num(IF x.v THEN 1 ELSE 0), ctx)
              [] x.t = "str" -> IF read = {} THEN Fail ELSE Done(Num(CHOOSE n \in read : TRUE), ctx)
              [] OTHER -> Done(Num(0), ctx))
       [] to \in {"float", "double"} ->
            (CASE IsNumber(x) -> Done(Flt(as_f64(x)), ctx)
              [] x.t = "str" -> IF read = {} THEN Fail ELSE Done(Flt(Rounded(2 * CHOOSE n \in read : TRUE)), ctx)
              [] OTHER -> Done(Flt(0), ctx))
       [] to = "String" -> Done(Str(Shown(x)), ctx)
       [] to = "boolean" -> Done(Bool(is_truthy(x)), ctx)

(* A pattern is compiled once for a context; =~ searches, ==~ matches all. *)
RegexOp(op, x, pattern, ctx) ==
  IF x.t # "str" \/ pattern.t \notin {"regex", "str"} THEN Fail
  ELSE LET p == IF pattern.t = "regex" THEN <<pattern.v>> ELSE pattern.v
       IN Done(Bool(IF op = "=~" THEN Finds(x.v, p) # {} ELSE x.v = p),
               [ctx EXCEPT !.cache = @ \union {<<op, p>>}])

(***************************************************************************)
(* Expressions and statements                                              *)
(***************************************************************************)

RECURSIVE eval_expr(_, _), eval_all(_, _, _), eval_stmts_inner(_, _, _), ForLoop(_, _, _, _)
RECURSIVE EachLoop(_, _, _, _)

(* The arguments of a call, from the left. *)
eval_all(es, vals, ctx) ==
  IF es = << >> THEN Done(vals, ctx)
  ELSE Then(eval_expr(Head(es), ctx), LAMBDA x, after : eval_all(Tail(es), Append(vals, x), after))

(* [ret, v]: whether a return ended the statements, and their value. *)
eval_stmts_inner(stmts, last, ctx) ==
  IF stmts = << >> THEN Done([ret |-> FALSE, v |-> last], ctx)
  ELSE LET s == Head(stmts)
       IN Then(eval_expr(s.e, ctx), LAMBDA x, after :
            CASE s.s = "return" -> Done([ret |-> TRUE, v |-> x], after)
              [] s.s = "decl" ->
                   eval_stmts_inner(Tail(stmts), x, [after EXCEPT !.locals = Put(@, s.name, x)])
              [] s.s = "expr" -> eval_stmts_inner(Tail(stmts), x, after))
(* Outside a loop's body a return is only a value. *)
eval_stmts(stmts, ctx) ==
  Then(eval_stmts_inner(stmts, Null, ctx), LAMBDA r, after : Done(r.v, after))

ForLoop(e, n, last, ctx) ==
  IF n > MaxIterations THEN Fail
  ELSE Then(eval_expr(e.c, ctx), LAMBDA c, after :
         IF ~is_truthy(c) THEN Done(last, after)
         ELSE Then(eval_stmts_inner(e.body, Null, after), LAMBDA r, done :
                IF r.ret THEN Done(r.v, done)
                ELSE Then(eval_expr(e.e, done), LAMBDA x, next : ForLoop(e, n + 1, r.v, next))))

EachLoop(e, items, last, ctx) ==
  IF items = << >> THEN Done(last, ctx)
  ELSE Then(eval_stmts_inner(e.body, Null, [ctx EXCEPT !.locals = Put(@, e.name, Head(items))]),
            LAMBDA r, done : IF r.ret THEN Done(r.v, done) ELSE EachLoop(e, Tail(items), r.v, done))

eval_for(e, ctx) ==
  Then(eval_expr(e.init.e, ctx), LAMBDA x, after :
    CASE e.init.s = "return" -> Done(x, after)
      [] e.init.s = "decl" -> ForLoop(e, 1, Null, [after EXCEPT !.locals = Put(@, e.init.name, x)])
      [] e.init.s = "expr" -> ForLoop(e, 1, Null, after))

(* e is "let" or "assign", plain or compound. *)
eval_assign(e, ctx) ==
  LET old == IF e.k = "let" THEN Look(ctx.locals, e.path[1]) ELSE get_nested_value(ctx.source, e.path)
      store(x, after) == Done(x, IF e.k = "let" THEN [after EXCEPT !.locals = Put(@, e.path[1], x)]
                                 ELSE [after EXCEPT !.source = set_nested_value(@, e.path, x)])
  IN Then(eval_expr(e.e, ctx), LAMBDA x, after :
       IF e.op = "=" THEN store(x, after)
       ELSE Then(eval_binop(old, e.op, x, after), LAMBDA y, end : store(y, end)))

eval_index(q, i, ctx) ==
  CASE q.t = "arr" /\ i.t = "int" -> Done(At(q.v, i.v), ctx)
    [] q.t = "map" /\ i.t = "str" -> Done(Look(q.v, i.v[1]), ctx)
    [] OTHER -> Fail

(* Both operands are always evaluated, of && and || too. *)
eval_expr(e, ctx) ==
  CASE e.k = "lit" -> Done(e.v, ctx)
    [] e.k = "var" -> Done(IF e.name = "_source" THEN ctx.source ELSE Look(ctx.locals, e.name), ctx)
    [] e.k = "doc" -> Done(Look(ctx.doc, e.name), ctx)
    [] e.k = "param" -> Done(Look(ctx.params, e.name), ctx)
    [] e.k = "source" ->      \* the names in meta begin with an underscore
         Done(IF Len(e.path) = 1 /\ e.path[1] \in DOMAIN ctx.meta THEN Str(ctx.meta[e.path[1]])
              ELSE get_nested_value(ctx.source, e.path), ctx)
    [] e.k = "bin" ->
         Then(eval_expr(e.l, ctx), LAMBDA l, mid : Then(eval_expr(e.r, mid), LAMBDA r, end :
           IF e.op \in {"=~", "==~"} THEN RegexOp(e.op, l, r, end) ELSE eval_binop(l, e.op, r, end)))
    [] e.k = "un" -> Then(eval_expr(e.e, ctx), LAMBDA x, end : eval_unary(e.op, x, end))
    [] e.k = "ternary" -> Then(eval_expr(e.c, ctx), LAMBDA c, mid :
                            eval_expr(IF is_truthy(c) THEN e.l ELSE e.r, mid))
    [] e.k \in {"let", "assign"} -> eval_assign(e, ctx)
    [] e.k = "if" -> Then(eval_expr(e.c, ctx), LAMBDA c, mid :
                       eval_stmts(IF is_truthy(c) THEN e.body ELSE e.other, mid))
    [] e.k = "for" -> eval_for(e, ctx)
    [] e.k = "each" -> Then(eval_expr(e.c, ctx), LAMBDA q, mid :
                         IF q.t = "arr" THEN EachLoop(e, q.v, Null, mid) ELSE Fail)
    [] e.k = "method" -> Then(eval_expr(e.e, ctx), LAMBDA x, mid :
                           Then(eval_all(e.args, << >>, mid), LAMBDA args, end :
                             eval_method(x, e.name, args, end)))
    [] OTHER ->          \* what only needs its arguments
         Then(eval_all(e.args, << >>, ctx), LAMBDA args, end :
           CASE e.k = "array" -> Done(Arr(args), end)
             [] e.k = "index" -> eval_index(args[1], args[2], end)
             [] e.k = "cast" -> type_cast(e.name, args[1], end)
             [] e.k = "call" -> eval_func_call(e.name, args, end)
             [] e.k = "static" -> IF e.class = "Math" THEN eval_math(e.name, args, end)
                                  ELSE eval_static_call(e.class, e.name, args, end))

evaluate(stmts, ctx) == eval_stmts(stmts, ctx)

(***************************************************************************)
(* The compiler for numeric expressions: everything is a float, and a      *)
(* field that is missing is 0.  {} when it does not compile.               *)
(***************************************************************************)

RECURSIVE is_jitable(_), compile_expr(_, _), compile_math_call(_, _)
is_jitable(e) ==
  CASE e.k \in {"lit", "doc"} -> e.k = "doc" \/ e.v.t \in {"int", "flt", "bool"}
    [] e.k = "var" -> e.name = "_score"
    [] e.k = "bin" -> is_jitable(e.l) /\ is_jitable(e.r)
    [] e.k = "un" -> is_jitable(e.e)
    [] e.k = "ternary" -> is_jitable(e.c) /\ is_jitable(e.l) /\ is_jitable(e.r)
    [] e.k = "static" -> e.class = "Math" /\ \A i \in DOMAIN e.args : is_jitable(e.args[i])
    [] e.k = "method" -> e.name = "value" /\ is_jitable(e.e)
    [] OTHER -> FALSE

Arith(op, a, b) ==
  Rounded(CASE op = "+" -> a + b [] op = "-" -> a - b [] op = "*" -> (a * b) \div 2
            [] op = "/" -> IF b = 0 THEN Infinite ELSE Quotient(2 * a, b))
(* Of the functions of one argument some are compiled; max and min are not. *)
compile_math_call(e, ctx) ==
  IF e.args = << >> \/ e.name \notin {"abs", "floor", "ceil"} THEN {}
  ELSE {CASE e.name = "abs" -> Abs(a)
          [] e.name = "floor" -> 2 * (a \div 2)
          [] e.name = "ceil" -> -2 * ((-a) \div 2) : a \in compile_expr(e.args[1], ctx)}
compile_expr(e, ctx) ==
  CASE e.k = "lit" -> {IF e.v.t = "bool" THEN IF e.v.v THEN 2 ELSE 0 ELSE as_f64(e.v)}
    [] e.k = "doc" -> {IF e.name \in DOMAIN ctx.doc THEN as_f64(ctx.doc[e.name]) ELSE 0}
    [] e.k = "var" -> {as_f64(Look(ctx.locals, e.name))}
    [] e.k = "bin" ->
         {CASE e.op \in {"+", "-", "*", "/"} -> Arith(e.op, a, b)
            [] e.op = "==" -> IF a = b THEN 2 ELSE 0
            [] e.op = "!=" -> IF a # b THEN 2 ELSE 0
            [] OTHER -> IF Compare(e.op, a, b) THEN 2 ELSE 0 :
              a \in IF e.op \in {"&&", "||", "%", "=~", "==~"} THEN {} ELSE compile_expr(e.l, ctx),
              b \in compile_expr(e.r, ctx)}
    [] e.k = "un" -> IF e.op = "!" THEN {} ELSE {-a : a \in compile_expr(e.e, ctx)}
    [] e.k = "ternary" ->
         LET parts == <<compile_expr(e.c, ctx), compile_expr(e.l, ctx), compile_expr(e.r, ctx)>>
         IN {IF c # 0 THEN a ELSE b : c \in parts[1], a \in parts[2], b \in parts[3]}
    [] e.k = "method" -> compile_expr(e.e, ctx)
    [] e.k = "static" -> compile_math_call(e, ctx)
    [] OTHER -> {}

(* Only a program of one expression is compiled. *)
try_jit_compile(stmts) == Len(stmts) = 1 /\ stmts[1].s = "expr" /\ is_jitable(stmts[1].e)
execute_jit(stmts, ctx) == IF try_jit_compile(stmts) THEN compile_expr(stmts[1].e, ctx) ELSE {}

=============================================================================
