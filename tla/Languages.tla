----------------------------- MODULE Languages -----------------------------
(***************************************************************************)
(* The program's parsers at work on text that was written with a meaning   *)
(* in mind: a script, a configuration with an if / else if / else chain,   *)
(* or events encoded by a codec.  Each is written, read by the code and    *)
(* run, and the outcome is compared with what the writer meant.            *)
(***************************************************************************)
EXTENDS Codecs, ConfigDsl

CONSTANTS IntMax, MaxIterations, Mantissa, MaxParts,    \* see ScriptEval
          BodyWrites      \* the fields a branch of a chain may write

S == INSTANCE ScriptEval

VARIABLES part,      \* "", "script", "config", "settings", "codec", "batch", "line"
          step,      \* "choose", "written", "read", "done"
          input,     \* what was written, and what it means
          result     \* what the code made of it

languageVars == <<part, step, input, result>>

LanguageInit == part = "" /\ step = "choose" /\ input = << >> /\ result = << >>
Write(p, x) ==
  /\ step = "choose"
  /\ part' = p /\ input' = x /\ step' = "written" /\ result' = << >>
Again == step = "done" /\ step' = "choose" /\ part' = "" /\ input' = << >> /\ result' = << >>

(***************************************************************************)
(* Scripts: expressions over integers and _score, with their exact meaning      *)
(***************************************************************************)

X == S!Var("_score")
Leaves == {S!IntLit(n) : n \in {0, 2, 7}} \union {X}
Ints1 == {S!Bin(op, l, r) : op \in {"+", "-", "*", "/", "%"}, l \in Leaves, r \in Leaves}
         \union {S!Un("-", e) : e \in Leaves}
Bools1 == {S!Bin(op, l, r) : op \in {"<", "=="}, l \in Leaves, r \in {X, S!IntLit(2)}}
Ints2 == {S!Bin(op, l, r) : op \in {"+", "-", "*", "/", "%"}, l \in Ints1, r \in {S!IntLit(2), X}}
         \union {S!Bin(op, l, r) : op \in {"-", "*", "%"}, l \in {S!IntLit(7), X}, r \in Ints1}
         \union {S!Un("-", e) : e \in Ints1}
Bools2 == {S!Bin(op, l, r) : op \in {"&&", "||"}, l \in Bools1, r \in Bools1}
          \union {S!Bin("<", l, S!IntLit(2)) : l \in Ints1} \union {S!Un("!", e) : e \in Bools1}
Ternaries == {S!Ternary(c, a, S!IntLit(2)) : c \in Bools1, a \in {S!Un("-", X), X}}
           \union {S!Bin("*", S!Ternary(c, X, S!IntLit(2)), S!IntLit(2)) : c \in Bools1}
Absolutes == {S!Bin("-", [k |-> "static", name |-> "abs", class |-> "Math", args |-> <<e>>], S!IntLit(2)) :
                e \in Ints1}
Exprs == Ints1 \union Bools1 \union Ints2 \union Bools2 \union Ternaries \union Absolutes

(* As few parentheses as the precedence of the operators needs. *)
Prec(e) == CASE e.k = "ternary" -> 0
             [] e.k = "bin" -> CHOOSE n \in DOMAIN S!Levels : e.op \in S!Levels[n]
             [] e.k = "un" -> 7
             [] OTHER -> 8
Chars(op) == CASE op = "==" -> <<"=", "=">> [] op = "&&" -> <<"&", "&">>
               [] op = "||" -> <<"|", "|">> [] OTHER -> <<op>>
RECURSIVE Show(_, _)
Show(e, min) ==
  LET bare == CASE e.k = "lit" -> <<CHOOSE x \in DOMAIN S!Literal : S!Literal[x] = e.v.v>>
                [] e.k = "var" -> <<e.name>>
                [] e.k = "static" -> <<e.class, ".", e.name, "(">> \o Show(e.args[1], 0) \o <<")">>
                [] e.k = "un" -> <<e.op>> \o Show(e.e, 7)
                [] e.k = "bin" -> Show(e.l, Prec(e)) \o Chars(e.op) \o Show(e.r, Prec(e) + 1)
                [] e.k = "ternary" -> Show(e.c, 1) \o <<"?">> \o Show(e.l, 0) \o <<":">> \o Show(e.r, 0)
  IN IF Prec(e) < min THEN <<"(">> \o bare \o <<")">> ELSE bare

(* What an expression means: the set of its value, empty when some         *)
(* operation has no result of the integers' width.  Division rounds        *)
(* towards zero; both sides of && and || count.                            *)
InWidth(s) == {n \in s : n.v \in S!IntMin .. IntMax}
Trunc(a, b) == CHOOSE q \in -64 .. 64 : LET r == a - q * b
                                        IN S!Abs(r) < S!Abs(b) /\ (r = 0 \/ (r < 0) = (a < 0))
RECURSIVE Exact(_, _)
Exact(e, x) ==
  CASE e.k = "lit" -> {e.v}
    [] e.k = "var" -> {Num(x)}
    [] e.k = "static" -> InWidth({Num(S!Abs(a.v)) : a \in Exact(e.args[1], x)})
    [] e.k = "un" -> IF e.op = "-" THEN InWidth({Num(-a.v) : a \in Exact(e.e, x)})
                     ELSE {Bool(~a.v) : a \in Exact(e.e, x)}
    [] e.k = "ternary" -> UNION {IF c.v THEN Exact(e.l, x) ELSE Exact(e.r, x) : c \in Exact(e.c, x)}
    [] e.k = "bin" ->
         LET as == Exact(e.l, x)
             bs == Exact(e.r, x)
             pairs == {p \in as \X bs : e.op \in {"/", "%"} => p[2].v # 0}
             on(F(_, _)) == InWidth({Num(F(p[1].v, p[2].v)) : p \in pairs})
         IN CASE e.op = "+" -> on(LAMBDA a, b : a + b)
              [] e.op = "-" -> on(LAMBDA a, b : a - b)
              [] e.op = "*" -> on(LAMBDA a, b : a * b)
              [] e.op = "/" -> on(LAMBDA a, b : Trunc(a, b))
              [] e.op = "%" -> {p \in on(LAMBDA a, b : a - b * Trunc(a, b)) : on(LAMBDA a, b : Trunc(a, b)) # {}}
              [] e.op = "<" -> {Bool(p[1].v < p[2].v) : p \in pairs}
              [] e.op = "==" -> {Bool(p[1].v = p[2].v) : p \in pairs}
              [] e.op = "&&" -> {Bool(p[1].v /\ p[2].v) : p \in pairs}
              [] e.op = "||" -> {Bool(p[1].v \/ p[2].v) : p \in pairs}

Script(chars, x, means) == [chars |-> chars, x |-> x, means |-> means]

WriteExpr ==
  /\ step = "choose"
  /\ \E e \in Exprs, x \in {S!IntMin, -1, 0, 3} :
       Write("script", Script(Show(e, 0), Num(x), Exact(e, x)) @@ [expr |-> e])

(* def s = 0; for (def i = a; i < b; i += c) { s += i } s *)
WriteLoop ==
  /\ step = "choose"
  /\ \E a \in {"0", "2"}, b \in {"1", "3", "4", "x"}, c \in {"1", "2", "0"}, x \in {0, 4} :
       LET n(t) == IF t = "x" THEN x ELSE S!Literal[t]
           seen == {i \in n(a) .. n(b) - 1 : n(c) > 0 /\ (i - n(a)) % n(c) = 0}
           total == MapThenSumSet(LAMBDA i : i, seen)
           endless == n(c) = 0 /\ n(a) < n(b)
       IN Write("script", Script(
            <<"def", "s", "=", "0", ";", "for", "(", "def", "i", "=", a, ";", "i", "<", b, ";",
              "i", "+", "=", c, ")", "{", "s", "+", "=", "i", "}", "s">>, Num(x),
            IF endless \/ total > IntMax \/ Cardinality(seen) + 1 > MaxIterations THEN {}
            ELSE {Num(total)}))

(* x.split(sep).join(sep) and x.substring(0, n) + x.substring(n) are x     *)
(* again, unless there are too many parts.                                 *)
WriteText ==
  /\ step = "choose"
  /\ \E x \in {<<"a">>, <<"a", "b">>, <<"b", "a", "b">>, <<"b", "b", "a", "b">>} :
       \/ Write("script", Script(
            <<"x", ".", "split", "(", "'b'", ")", ".", "join", "(", "'b'", ")">>, Str(x),
            IF Cardinality({i \in DOMAIN x : x[i] = "b"}) + 1 > MaxParts THEN {} ELSE {Str(x)}))
       \/ \E n \in {"0", "1", "3", "5"} : Write("script", Script(
            <<"x", ".", "substring", "(", "0", ",", n, ")", "+", "x", ".", "substring", "(", n, ")">>,
            Str(x), {Str(x)}))

(* The days since 1970-01-01, counted year by year and month by month. *)
CountDays(d) ==
  MapThenSumSet(LAMBDA y : IF S!IsLeap(y) THEN 366 ELSE 365, 1970 .. d.year - 1)
    + MapThenSumSet(LAMBDA m : S!DaysIn(d.year, m), 1 .. d.month - 1) + d.day - 1
Dates == {[year |-> y, month |-> m, day |-> d] :
            y \in {1970, 1972, 1999, 2000, 2024, 2026}, m \in {1, 2, 3, 12}, d \in {1, 28, 29, 31}}
WriteDate ==
  /\ step = "choose"
  /\ \E d \in {d \in Dates : d.day <= S!DaysIn(d.year, d.month)}, time \in {0, 86399} :
       LET days == CountDays(d)
           ask(method, answer) == Write("script", Script(
             <<"x", ".", method, "(", ")">>, Num(days * S!Day + time), {Num(answer)}))
       IN \/ ask("getYear", d.year)
          \/ ask("getMonthValue", d.month)
          \/ ask("getDayOfMonth", d.day)
          \/ ask("getDayOfYear", days - CountDays([d EXCEPT !.month = 1, !.day = 1]) + 1)
          \/ ask("getDayOfWeek", ((days + 3) % 7) + 1)
          \/ ask("getHour", time \div 3600)

(* Statements: a field of the document is written and read back, or hidden *)
(* by the metadata; the items of an array are added up; a branch returns.  *)
WriteStatements ==
  /\ step = "choose"
  /\ \E x \in {-1, 0, 3} :
       \/ Write("script", Script(
            <<"ctx", ".", "_source", ".", "m", ".", "n", "=", "x", ";",
              "ctx", ".", "m", ".", "n", "*", "2">>, Num(x), InWidth({Num(2 * x)})))
       \/ Write("script", Script(
            <<"ctx", ".", "_source", ".", "_id", "=", "x", ";", "ctx", ".", "_id">>, Num(x),
            {Str(<<"k">>)}))
       \/ Write("script", Script(
            <<"def", "s", "=", "0", ";", "for", "(", "def", "i", ":", "[", "x", ",", "2", "]", ")",
              "{", "s", "-", "=", "i", "}", "s">>, Num(x), InWidth({Num(-x - 2)})))
       \/ Write("script", Script(
            <<"if", "(", "x", "<", "0", ")", "{", "return", "(", "String", ")", "x", "}",
              "else", "if", "(", "x", "=", "=", "0", ")", "{", "true", "}",
              "else", "{", "Math", ".", "max", "(", "x", ",", "4", ")", "}">>, Num(x),
            IF x = 0 THEN {Bool(TRUE)} ELSE IF x = 3 THEN {Num(4)} ELSE {Str(S!Shown(Num(x)))}))

ParseScript ==
  /\ part = "script" /\ step = "written"
  /\ result' = S!parse(input.chars)
  /\ step' = "read"
  /\ UNCHANGED <<part, input>>

Context(x) == [S!EmptyContext EXCEPT !.locals = S!Put(S!Put(@, "x", x), "_score", x),
                                     !.meta = [name \in {"_id"} |-> <<"k">>]]
RunScript ==
  /\ part = "script" /\ step = "read"
  /\ result' = IF result.ok
               THEN [tree |-> result.val,
                     got |-> S!evaluate(result.val, Context(input.x))]
               ELSE [tree |-> << >>, got |-> result]
  /\ step' = "done"
  /\ UNCHANGED <<part, input>>

Value(r) == IF r.ok THEN {r.val} ELSE {}
RECURSIVE Subexprs(_)
Subexprs(e) ==
  {e} \union CASE e.k = "bin" -> Subexprs(e.l) \union Subexprs(e.r)
               [] e.k = "un" -> Subexprs(e.e)
               [] e.k = "static" -> Subexprs(e.args[1])
               [] e.k = "ternary" -> Subexprs(e.c) \union Subexprs(e.l) \union Subexprs(e.r)
               [] OTHER -> {}
AsFloat(x) == IF x.t = "bool" THEN IF x.v THEN 2 ELSE 0 ELSE S!as_f64(x)

(* Floats can compute e: it has no division, and every integer on the way  *)
(* to its value is a float.                                                *)
FloatsDo(e, x) ==
  \A d \in Subexprs(e) :
    /\ d.k = "bin" => d.op \notin {"/", "%"}
    /\ \A a \in Exact(d, x) : a.t = "int" => S!as_f64(a) = 2 * a.v

(* A script gives exactly the value its text means by the language's       *)
(* precedence: an integer result that does not fit, a division by zero or  *)
(* a loop over the iteration limit is an error, never a wrong value (the   *)
(* parts of a date are asked for from 1970 on: the evaluator's are wrong   *)
(* before).  The compiled expression agrees where floats can compute it:   *)
(* where there is no division and no integer that `as f64` rounds.         *)
ScriptExact ==
  part = "script" /\ step = "done" =>
    /\ Value(result.got) = input.means
    /\ "expr" \in DOMAIN input /\ FloatsDo(input.expr, input.x.v) =>
         \A f \in S!execute_jit(result.tree, Context(input.x)), x \in input.means : f = AsFloat(x)

(***************************************************************************)
(* Configurations: a chain of branches with two plugins each, and a plugin *)
(* after it.                                                               *)
(***************************************************************************)

F == <<"f">>
Basic == {Equals(F, Num(1)), Greater(F, Num(1)), Exists(<<"g">>), HasTag("t")}
Conds == Basic \union {Not(Equals(F, Num(1))), And(Exists(F), HasTag("t")),
                       Or(And(Exists(F), Exists(<<"g">>)), HasTag("t")),
                       And(Or(Exists(<<"g">>), HasTag("t")), Exists(F))}
RECURSIVE Tokens(_)
Tokens(c) ==
  CASE c.op = "==" -> <<"[f]", "==", "1">>
    [] c.op = ">" -> <<"[f]", ">", "1">>
    [] c.op = "exists" -> IF c.field = F THEN <<"[f]">> ELSE <<"[g]">>
    [] c.op = "has_tag" -> <<"'t'", "in", "[tags]">>
    [] c.op = "not" -> <<"!", "(">> \o Tokens(c.left) \o <<")">>
    [] c.op = "and" -> (IF c.left.op = "or" THEN <<"(">> \o Tokens(c.left) \o <<")">>
                        ELSE Tokens(c.left)) \o <<"and">> \o Tokens(c.right)
    [] c.op = "or" -> Tokens(c.left) \o <<"or">> \o Tokens(c.right)

Names == <<<<"a1", "a2">>, <<"b1", "b2">>, <<"c1", "c2">>, <<"d1", "d2">>>>
Body(i) == <<"{", Names[i][1], "{", "}", Names[i][2], "{", "}", "}">>
ChainTokens(conds, else) ==
  <<"filter", "{">>
    \o FlattenSeq([i \in DOMAIN conds |->
         (IF i = 1 THEN <<"if">> ELSE <<"else", "if">>) \o Tokens(conds[i]) \o Body(i)])
    \o (IF else THEN <<"else">> \o Body(Len(conds) + 1) ELSE << >>)
    \o <<"z", "{", "}", "}">>

TestEvents == {[EmptyEvent EXCEPT !.fields = f @@ g, !.tags = t] :
                 f \in {EmptyMap, With(EmptyMap, "f", Num(1)), With(EmptyMap, "f", Num(2))},
                 g \in {EmptyMap, With(EmptyMap, "g", Num(1))}, t \in {<< >>, <<"t">>}}
Chains == UNION {[1 .. n -> Conds] : n \in 1 .. 2} \union [1 .. 3 -> Basic]

WriteChain ==
  /\ step = "choose"
  /\ \E conds \in Chains, else \in BOOLEAN, e \in TestEvents :
       Write("config", [tokens |-> ChainTokens(conds, else), conds |-> conds, else |-> else,
                        event |-> e])

(* The flattened plugins, each with its own condition. *)
ParseConfig ==
  /\ part = "config" /\ step = "written"
  /\ LET config == parse(input.tokens)
     IN IF config.ok
        THEN /\ result' = [todo |-> config.val.filter, event |-> input.event, ran |-> << >>]
             /\ step' = "read"
        ELSE /\ result' = [ran |-> <<"refused">>]
             /\ step' = "done"
  /\ UNCHANGED <<part, input>>

(* A worker runs the filters in their order; the condition of each is      *)
(* evaluated on the event as it is by then.                                *)
RunPlugin ==
  /\ part = "config" /\ step = "read" /\ result.todo # << >>
  /\ LET item == Head(result.todo)
         rest == [result EXCEPT !.todo = Tail(@)]
     IN IF evaluate(item.cond, result.event)
        THEN \E w \in BodyWrites :
               result' = [rest EXCEPT !.ran = Append(@, item.plugin.name),
                                      !.event = set(@, <<w>>, Num(2))]
        ELSE result' = rest
  /\ UNCHANGED <<part, step, input>>
FilterDone ==
  /\ part = "config" /\ step = "read" /\ result.todo = << >>
  /\ step' = "done"
  /\ UNCHANGED <<part, input, result>>

(* The branches whose condition holds of the event as it came in, from the *)
(* first; the else comes last.                                             *)
Holding == {i \in DOMAIN input.conds : evaluate(input.conds[i], input.event)}
           \union (IF input.else THEN {Len(input.conds) + 1} ELSE {})

(* Of an if / else if / else chain exactly the plugins of the first branch *)
(* whose condition holds run, in order, and what follows the chain runs    *)
(* too, although the parser has taken the chain apart into plugins with    *)
(* conditions of their own.  The plugins here write only BodyWrites, which  *)
(* no condition reads.                                                     *)
OneBranch ==
  part = "config" /\ step = "done" =>
    result.ran = (IF Holding = {} THEN << >> ELSE Names[Min(Holding)]) \o <<"z">>

(***************************************************************************)
(* Settings and codecs: what is written comes back                         *)
(***************************************************************************)

RECURSIVE ValueTokens(_)
ValueTokens(x) ==
  CASE x.t = "str" -> <<"'a'">>
    [] x.t = "int" -> <<"1">>
    [] x.t = "bool" -> <<"true">>
    [] x.t = "null" -> <<"nil">>
    [] x.t = "arr" -> <<"[">> \o FlattenSeq([i \in DOMAIN x.v |->
                        (IF i = 1 THEN << >> ELSE <<",">>) \o ValueTokens(x.v[i])]) \o <<"]">>
    [] x.t = "obj" -> <<"{">> \o FlattenSeq(SetToSeq({<<k, "=>">> \o ValueTokens(x.v[k]) : k \in DOMAIN x.v}))
                        \o <<"}">>
(* Values of several types, as sequences: what they hold has no order.     *)
Scalars == <<Str("a"), Num(1), Bool(TRUE), Nil>>
Pairs(Made(_, _)) == [n \in 1 .. Len(Scalars) * Len(Scalars) |->
                     Made(Scalars[((n - 1) \div Len(Scalars)) + 1], Scalars[((n - 1) % Len(Scalars)) + 1])]
Settings == Scalars \o <<Arr(<< >>)>> \o Pairs(LAMBDA x, y : Arr(<<x, y>>))
            \o Pairs(LAMBDA x, y : Obj(With(With(EmptyMap, "k", x), "'a'", Arr(<<y>>))))
(* The key of a hash may be quoted. *)
Unquoted(x) == IF x.t = "obj" THEN Obj([k \in {IF y = "'a'" THEN "a" ELSE y : y \in DOMAIN x.v} |->
                                          IF k = "a" THEN x.v["'a'"] ELSE x.v[k]]) ELSE x
(* The same setting in each language, and in a file whose name does not    *)
(* say which it is; in YAML the value may have a tag, or stand beside a     *)
(* number that is not finite.                                              *)
DslText(section, x) ==
  [tokens |-> <<section, "{", "z", "{", "s", "=>">> \o ValueTokens(x) \o <<"}", "}">>, doc |-> {}]
YamlText(section, x) ==
  [tokens |-> <<section, ":">>,
   doc |-> {Obj(With(EmptyMap, section,
                     Arr(<<Obj(With(With(EmptyMap, "type", Str("z")), "s", x))>>)))}]
WriteSettings ==
  /\ step = "choose"
  /\ \E i \in DOMAIN Settings, section \in {"input", "output"}, format \in {"dsl", "yaml", "auto"} :
       LET x == Settings[i]
           means(written, value) == Write("settings", [text |-> written, format |-> format,
                                                    section |-> section, value |-> value])
       IN \/ format # "yaml" /\ means(DslText(section, x), Unquoted(x))
          \/ format # "dsl" /\ means(YamlText(section, Tagged(x)), x)
          \/ format # "dsl" /\ means(YamlText(section, Arr(<<x, NonFinite>>)), Arr(<<x, Num(0)>>))
ParseSettings ==
  /\ part = "settings" /\ step = "written"
  /\ result' = parse_config(input.text, input.format)
  /\ step' = "done"
  /\ UNCHANGED <<part, input>>

At == <<5, 250>>                    \* a time that is not a whole second
Event(fields, tags) == [EmptyEvent EXCEPT !.fields = fields, !.tags = tags, !.time = At]
Records == <<EmptyMap, With(EmptyMap, "message", Str("a")),
             With(With(EmptyMap, "message", Str("a")), "n", Obj(With(EmptyMap, "k", Num(1)))),
             With(EmptyMap, "tags", Arr(<<Str("x")>>)), With(EmptyMap, "x", NonFinite),
             With(EmptyMap, "fluent_tag", Str("ft")), With(EmptyMap, "@timestamp", Str("a")),
             With(With(EmptyMap, "x", Flt(2)), "y", Arr(<<Flt(3), Nil>>)),
             With(EmptyMap, "message", Str("\""))>>
Cells(k1, x, k2, y) == Event(With(With(EmptyMap, k1, x), k2, y), << >>)
Columns(ks) == [Config EXCEPT !.columns = ks]
Use(name, c, e) == Write("codec", [name |-> name, config |-> c, event |-> e])

(* The events a codec is used on, and how it is configured. *)
WriteEvent ==
  /\ step = "choose"
  /\ \/ \E i \in DOMAIN Records, tags \in {<< >>, <<"t">>} :
          LET e == Event(Records[i], tags)
          IN \/ \E name \in Document \union {"edn"} : Use(name, Config, e)
             \/ \E name \in {"json", "msgpack", "avro"} : Use(name, [Config EXCEPT !.target = {"t"}], e)
     \/ \E name \in {"plain", "bytes", "multiline"} : Use(name, Config, Event(Records[2], << >>))
     \/ \E timed \in BOOLEAN, i \in 1 .. 2 :
          Use("graphite", [Config EXCEPT !.timed = timed],
              Cells("metric", Str("m"), "value", <<Num(1), Flt(3)>>[i]))
     \/ Use("csv", Columns(<<"a", "b">>), Cells("a", Str(""), "b", Str("b")))
     \/ Use("cloudfront", Columns(<<"sc-bytes", "time-taken">>),
            Cells("sc-bytes", Num(1), "time-taken", Flt(3)))
     \/ Use("cef", Config, Cells("name", Str("a"), "src", Str("s")))

Encode ==
  /\ part = "codec" /\ step = "written"
  /\ result' = encode(input.name, input.config, input.event)
  /\ step' = "read"
  /\ UNCHANGED <<part, input>>
Decode ==
  /\ part = "codec" /\ step = "read"
  /\ result' = decode(input.name, input.config, result)
  /\ step' = "done"
  /\ UNCHANGED <<part, input>>

(* A line of text; the script codec also runs its statements. *)
Note == [Config EXCEPT !.script = <<[op |-> "set", field |-> <<"copy">>,
                                     value |-> [t |-> "get", v |-> <<"message">>]],
                                    [op |-> "tag", tag |-> "t"], [op |-> "other"]>>]
WriteLine ==
  /\ step = "choose"
  /\ \E name \in {"plain", "dots", "bytes", "multiline", "rubydebug", "script"} :
       Write("line", [name |-> name, line |-> Str("a")])
DecodeLine ==
  /\ part = "line" /\ step = "written"
  /\ result' = decode(input.name, Note, input.line)
  /\ step' = "done"
  /\ UNCHANGED <<part, input>>

(* Many records in one message, as a sender of each kind writes them. *)
Actions == [type : {"index", "delete"}, id : {Str("1")}]
Batched(name, es, metadata) ==
  CASE name = "collectd" -> Arr([i \in DOMAIN es |-> Image(es[i])])
    [] name = "cloudtrail" -> Obj(With(EmptyMap, "Records", Arr([i \in DOMAIN es |-> Image(es[i])])))
    [] name = "fluent" -> Arr(<<Str("ft"), Arr([i \in DOMAIN es |->
                                Arr(<<Num(es[i].time[1]), Image(es[i])>>)])>>)
    [] name = "nmap" -> [meta |-> With(EmptyMap, "scanner", Str("a")),
                         hosts |-> [i \in DOMAIN es |-> es[i].fields]]
    [] name = "es_bulk" -> FlattenSeq([i \in DOMAIN es |->
                             es_bulk_encode(es[i], [action |-> metadata[i].type, id |-> metadata[i].id])])
WriteBatch ==
  /\ step = "choose"
  /\ \E name \in {"collectd", "cloudtrail", "fluent", "nmap", "es_bulk"}, n \in 1 .. 3 :
       \E rs \in [1 .. n -> {1, 2, 5}],
          ms \in [1 .. n -> IF name = "es_bulk" THEN Actions ELSE {[type |-> "index", id |-> Str("1")]}] :
         LET es == [i \in 1 .. n |-> Event(Records[rs[i]], << >>)]
         IN Write("batch", [name |-> name, events |-> es, metadata |-> ms,
                            wire |-> Batched(name, es, ms)])
DecodeBatch ==
  /\ part = "batch" /\ step = "written"
  /\ result' = IF input.name = "es_bulk" THEN es_bulk_decode(input.wire, << >>)
               ELSE decode(input.name, Config, input.wire)
  /\ step' = "done"
  /\ UNCHANGED <<part, input>>

(* What a codec carries of an event: the time to the second only in        *)
(* fluent's messages, the named cells of a line; edn the value of a number *)
(* but not its type, no number that is not finite and no string that needs *)
(* an escape.                                                              *)
Keeps(before, after, ks) ==
  \A k \in ks : k \in DOMAIN after /\ before[k].t = after[k].t /\ before[k] = after[k]
Whole(image) ==
  IF image["@timestamp"].t = "time"
  THEN [image EXCEPT !["@timestamp"] = Time(<<At[1], 0>>)] ELSE image
Same(x, y) == IF Numeric(x) THEN Numeric(y) /\ as_f64(x) = as_f64(y) ELSE x.t = y.t /\ x = y
EdnKeeps(x) == x.t # "inf" /\ (x.t = "str" => x.v # "\"")
Carried(name, e, d) ==
  CASE name = "edn" ->
         \A k \in {k \in DOMAIN e.fields : EdnKeeps(e.fields[k])} :
           k \in DOMAIN d.fields /\ Same(e.fields[k], d.fields[k])
    [] name \in Document ->
         LET sent == IF name = "fluent" THEN Whole(to_json(e)) ELSE to_json(e)
         IN Keeps(sent, to_json(d), DOMAIN sent)
    [] name = "graphite" ->
         /\ d.fields["metric"] = e.fields["metric"]
         /\ as_f64(d.fields["value"]) = as_f64(e.fields["value"])
    [] name = "cef" -> /\ d.fields["name"] = e.fields["name"]
                       /\ d.fields["sourceAddress"] = e.fields["src"]
    [] OTHER -> Keeps(e.fields, d.fields, DOMAIN e.fields)

(* What is encoded or configured is what is read back: the JSON image of   *)
(* an event (or the part of it a line format has room for), one event for  *)
(* each of a batch and in its order, deletes among them, the one line of a *)
(* message, and the settings of a plugin.                                  *)
RoundTrip ==
  step = "done" =>
    /\ part = "codec" =>
         /\ result # Refused /\ Len(result) = 1
         /\ IF input.config.target # {}
            THEN result[1].fields["t"] = from_json_value(Image(input.event))
            ELSE Carried(input.name, input.event, result[1])
    /\ part = "batch" =>
         /\ result # Refused /\ Len(result) = Len(input.events)
         /\ \A i \in DOMAIN result :
              IF input.name = "es_bulk"
              THEN /\ get(result[i], <<"@metadata", "action">>) = {Str(input.metadata[i].type)}
                   /\ input.metadata[i].type # "delete" =>
                        Carried("json", input.events[i], result[i])
              ELSE Carried(input.name, input.events[i], result[i])
    /\ part = "line" =>
         /\ Len(result) = 1 /\ get(result[1], <<"message">>) = {input.line}
         /\ input.name = "script" =>
              get(result[1], <<"copy">>) = {input.line} /\ has_tag(result[1], "t")
    /\ part = "settings" =>
         /\ result.ok
         /\ result.val[input.section][1].plugin.settings["s"] = input.value

LanguageNext ==
  \/ WriteExpr \/ WriteLoop \/ WriteText \/ WriteDate \/ WriteStatements \/ ParseScript \/ RunScript
  \/ WriteChain \/ ParseConfig \/ RunPlugin \/ FilterDone
  \/ WriteSettings \/ ParseSettings
  \/ WriteEvent \/ Encode \/ Decode \/ WriteBatch \/ DecodeBatch
  \/ WriteLine \/ DecodeLine
  \/ Again

=============================================================================
