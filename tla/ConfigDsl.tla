----------------------------- MODULE ConfigDsl -----------------------------
(***************************************************************************)
(* The configuration language: the recursive descent of logstash_dsl.rs    *)
(* over tokens, the flattening of if / else if / else into one condition   *)
(* per plugin, and the merging of several files.                           *)
(*                                                                         *)
(* A token is a string; Quoted and Digits say what the quoted and numeric  *)
(* ones stand for, and FieldTokens which field a bracketed reference       *)
(* names.  Reading is [ok, val, rest].                                     *)
(***************************************************************************)
EXTENDS Events, Reading

Quoted == [x \in {"'a'", "'t'"} |-> IF x = "'a'" THEN "a" ELSE "t"]
Digits == [x \in {"1", "2"} |-> IF x = "1" THEN 1 ELSE 2]
FieldTokens == [x \in {"[f]", "[g]", "[tags]"} |->
                  CASE x = "[f]" -> <<"f">> [] x = "[g]" -> <<"g">> [] OTHER -> <<"tags">>]
Punctuation == {"{", "}", "[", "]", ",", "=>", "(", ")", "!", "==", ">", ""}

(* Identifiers are anything that is neither quoted nor punctuation: digits *)
(* too.                                                                    *)
IsIdentifier(tok) ==
  tok \notin Punctuation \union DOMAIN Quoted \union DOMAIN FieldTokens

(***************************************************************************)
(* Values                                                                  *)
(***************************************************************************)

RECURSIVE read_value(_), read_array(_, _), read_hash(_, _), parse_plugin_body(_, _)

read_value(toks) ==
  LET tok == peek(toks)
      rest == Tail(toks)
  IN CASE tok = "" -> Fail
       [] tok \in DOMAIN Quoted -> Done(Str(Quoted[tok]), rest)
       [] tok = "[" -> read_array(rest, << >>)
       [] tok = "{" -> read_hash(rest, EmptyMap)
       [] tok \in DOMAIN Digits -> Done(Num(Digits[tok]), rest)
       [] tok \in {"true", "false"} -> Done(Bool(tok = "true"), rest)
       [] tok \in {"nil", "null"} -> Done(Nil, rest)
       [] ~IsIdentifier(tok) -> Fail
       [] OTHER ->
            IF peek(rest) # "{" THEN Done(Str(tok), rest)
            ELSE Then(parse_plugin_body(Tail(rest), EmptyMap), LAMBDA map, end :
                   After(expect("}", end), LAMBDA after :
                     Done(Obj(With(map, "_plugin", Str(tok))), after)))

read_array(toks, items) ==
  IF peek(toks) = "]" THEN Done(Arr(items), Tail(toks))
  ELSE Then(read_value(toks), LAMBDA item, rest :
         read_array(Skip(",", rest), Append(items, item)))

read_hash(toks, map) ==
  IF peek(toks) = "}" THEN Done(Obj(map), Tail(toks))
  ELSE IF ~(peek(toks) \in DOMAIN Quoted \/ IsIdentifier(peek(toks))) THEN Fail
  ELSE LET key == IF peek(toks) \in DOMAIN Quoted THEN Quoted[peek(toks)] ELSE peek(toks)
       IN After(expect("=>", Tail(toks)), LAMBDA after :
            Then(read_value(after), LAMBDA item, rest :
              read_hash(Skip(",", rest), With(map, key, item))))

(* The settings of a plugin, up to the brace, which it leaves. *)
parse_plugin_body(toks, map) ==
  IF peek(toks) \in {"}", ""} THEN Done(map, toks)
  ELSE IF ~IsIdentifier(peek(toks)) THEN Fail
  ELSE After(expect("=>", Tail(toks)), LAMBDA after :
         Then(read_value(after), LAMBDA item, rest :
           parse_plugin_body(rest, With(map, peek(toks), item))))

(***************************************************************************)
(* Conditions                                                              *)
(***************************************************************************)

Exists(path) == [op |-> "exists", field |-> path]
Equals(path, x) == [op |-> "==", field |-> path, value |-> x]
Greater(path, x) == [op |-> ">", field |-> path, value |-> x]
HasTag(tag) == [op |-> "has_tag", value |-> tag]
InList(path, xs) == [op |-> "in", field |-> path, value |-> xs]
Not(c) == [op |-> "not", left |-> c]
And(a, b) == [op |-> "and", left |-> a, right |-> b]
Or(a, b) == [op |-> "or", left |-> a, right |-> b]

read_condition_value(tok) ==
  CASE tok \in DOMAIN Quoted -> {Str(Quoted[tok])}
    [] tok \in DOMAIN Digits -> {Num(Digits[tok])}
    [] tok \in {"true", "false"} -> {Bool(tok = "true")}
    [] OTHER -> {}

(* A quoted string has to be followed by in and a field; a field may be    *)
(* followed by an operator, of which in is not one.                        *)
parse_comparison(toks) ==
  LET tok == peek(toks)
      rest == Tail(toks)
  IN CASE tok \in DOMAIN Quoted ->
            IF Len(rest) >= 2 /\ rest[1] = "in" /\ rest[2] \in DOMAIN FieldTokens
            THEN Done(IF rest[2] = "[tags]" THEN HasTag(Quoted[tok])
                      ELSE InList(FieldTokens[rest[2]], {Str(Quoted[tok])}),
                      SubSeq(rest, 3, Len(rest)))
            ELSE Fail
       [] tok \in DOMAIN FieldTokens \/ IsIdentifier(tok) ->
            LET path == IF tok \in DOMAIN FieldTokens THEN FieldTokens[tok] ELSE <<tok>>
                op == peek(rest)
            IN IF op \notin {"==", ">"} THEN Done(Exists(path), rest)
               ELSE LET x == read_condition_value(peek(Tail(rest)))
                        after == SubSeq(rest, 3, Len(rest))
                    IN IF x = {} THEN Fail
                       ELSE LET v == CHOOSE v \in x : TRUE
                            IN Done(IF op = "==" THEN Equals(path, v) ELSE Greater(path, v), after)
       [] OTHER -> Fail

RECURSIVE parse_or_condition(_), parse_and_condition(_), parse_unary_condition(_)
RECURSIVE OrLoop(_), AndLoop(_)

parse_unary_condition(toks) ==
  CASE peek(toks) = "!" ->
         Then(parse_unary_condition(Tail(toks)), LAMBDA c, rest : Done(Not(c), rest))
    [] peek(toks) = "(" ->
         Then(parse_or_condition(Tail(toks)), LAMBDA c, rest :
           After(expect(")", rest), LAMBDA after : Done(c, after)))
    [] OTHER -> parse_comparison(toks)

AndLoop(left) ==
  IF ~left.ok \/ peek(left.rest) # "and" THEN left
  ELSE Then(parse_unary_condition(Tail(left.rest)), LAMBDA right, rest :
         AndLoop(Done(And(left.val, right), rest)))
parse_and_condition(toks) == AndLoop(parse_unary_condition(toks))

OrLoop(left) ==
  IF ~left.ok \/ peek(left.rest) # "or" THEN left
  ELSE Then(parse_and_condition(Tail(left.rest)), LAMBDA right, rest :
         OrLoop(Done(Or(left.val, right), rest)))
parse_or_condition(toks) == OrLoop(parse_and_condition(toks))

(***************************************************************************)
(* Sections                                                                *)
(***************************************************************************)

Plugin(name, settings) == [name |-> name, settings |-> settings]
Always == [op |-> "true"]

(* name { settings } *)
parse_plugin(toks) ==
  IF ~IsIdentifier(peek(toks)) THEN Fail
  ELSE After(expect("{", Tail(toks)), LAMBDA inside :
         Then(parse_plugin_body(inside, EmptyMap), LAMBDA map, rest :
           After(expect("}", rest), LAMBDA after : Done(Plugin(peek(toks), map), after))))

RECURSIVE parse_block(_, _), parse_branches(_, _), parse_section(_, _, _), parse_sections(_, _)

(* The plugins of a branch; there is no condition inside a branch. *)
parse_block(toks, plugins) ==
  IF peek(toks) = "}" THEN Done(plugins, toks)
  ELSE Then(parse_plugin(toks), LAMBDA one, rest : parse_block(rest, Append(plugins, one)))

parse_block_body(toks) ==
  After(expect("{", toks), LAMBDA inside :
    Then(parse_block(inside, << >>), LAMBDA body, rest :
      After(expect("}", rest), LAMBDA after : Done(body, after))))

(* if c { .. } else if c { .. } else { .. }, from the condition on.  A     *)
(* branch without a condition is the else.                                 *)
parse_branches(toks, branches) ==
  Then(parse_or_condition(toks), LAMBDA cond, r1 :
    Then(parse_block_body(r1), LAMBDA body, r2 :
      LET sofar == Append(branches, [cond |-> {cond}, body |-> body])
      IN IF peek(r2) # "else" THEN Done(sofar, r2)
         ELSE IF peek(Tail(r2)) = "if" THEN parse_branches(Tail(Tail(r2)), sofar)
         ELSE Then(parse_block_body(Tail(r2)), LAMBDA final, r3 :
                Done(Append(sofar, [cond |-> {}, body |-> final]), r3))))

(* Every plugin of a branch gets the branch's own condition and the        *)
(* negation of all earlier ones.                                           *)
Disjunction(cs) == FoldLeft(Or, Head(cs), Tail(cs))
Condition(b) == CHOOSE c \in b.cond : TRUE
Earlier_last_only(branches, i) == <<Condition(branches[i - 1])>>     \* a mutant
Earlier(branches, i) == [j \in 1 .. i - 1 |-> Condition(branches[j])]
parse_conditional_filter(branches) ==
  LET others(i) == Not(Disjunction(Earlier(branches, i)))
      effective(i) ==
        IF i = 1 THEN Condition(branches[1])
        ELSE IF branches[i].cond = {} THEN others(i)
        ELSE And(Condition(branches[i]), others(i))
      emitted(i) == [k \in DOMAIN branches[i].body |->
                       [plugin |-> branches[i].body[k], cond |-> effective(i)]]
  IN FlattenSeq([i \in DOMAIN branches |-> emitted(i)])

(* The same code again, for outputs. *)
parse_conditional_output(branches) == parse_conditional_filter(branches)

(* filter and output sections take conditions, input sections do not. *)
parse_section(kind, toks, items) ==
  IF peek(toks) = "}" THEN Done(items, toks)
  ELSE IF kind # "input" /\ peek(toks) = "if"
  THEN Then(parse_branches(Tail(toks), << >>), LAMBDA chain, rest :
         parse_section(kind, rest, items \o
           (IF kind = "filter" THEN parse_conditional_filter(chain)
            ELSE parse_conditional_output(chain))))
  ELSE Then(parse_plugin(toks), LAMBDA one, rest :
         parse_section(kind, rest, Append(items, [plugin |-> one, cond |-> Always])))

EmptyConfig == [input |-> << >>, filter |-> << >>, output |-> << >>, queue |-> "memory"]

(* A second section of a kind replaces the first. *)
parse_sections(toks, config) ==
  IF toks = << >> THEN Done(config, toks)
  ELSE IF peek(toks) \notin {"input", "filter", "output"} THEN Fail
  ELSE After(expect("{", Tail(toks)), LAMBDA inside :
         Then(parse_section(peek(toks), inside, << >>), LAMBDA items, rest :
           After(expect("}", rest), LAMBDA after :
             parse_sections(after, [config EXCEPT ![peek(toks)] = items]))))

parse(toks) == parse_sections(toks, EmptyConfig)

(***************************************************************************)
(* YAML: lists of plugins without conditions, and the kind of queue.       *)
(* Whatever is missing has its default.                                    *)
(***************************************************************************)

Tagged(y) == [t |-> "tagged", v |-> y]

(* A tag is dropped, and a number that JSON cannot hold becomes 0. *)
RECURSIVE yaml_to_json(_)
yaml_to_json(y) ==
  CASE y.t = "tagged" -> yaml_to_json(y.v)
    [] y.t = "arr" -> Arr([i \in DOMAIN y.v |-> yaml_to_json(y.v[i])])
    [] y.t = "obj" -> Obj([k \in DOMAIN y.v |-> yaml_to_json(y.v[k])])
    [] y.t = "inf" -> Num(0)
    [] OTHER -> y

(* The items of a section: each a mapping that names its type.  The plugin *)
(* is given the whole mapping, its type included.                          *)
parse_plugins(list) ==
  IF list.t # "arr" \/ \E i \in DOMAIN list.v :
       ~(IsObj(list.v[i]) /\ "type" \in DOMAIN list.v[i].v /\ list.v[i].v["type"].t = "str")
  THEN Fail
  ELSE Done([i \in DOMAIN list.v |->
               [plugin |-> Plugin(list.v[i].v["type"].v, yaml_to_json(list.v[i]).v),
                cond |-> Always]], << >>)

parse_yaml(doc) ==
  LET section(s) == IF s \in DOMAIN doc.v THEN parse_plugins(doc.v[s]) ELSE Done(<< >>, << >>)
  IN IF ~IsObj(doc) THEN Fail
     ELSE IF \E s \in {"input", "filter", "output"} : ~section(s).ok THEN Fail
     ELSE Done([EmptyConfig EXCEPT !.input = section("input").val,
                                   !.filter = section("filter").val,
                                   !.output = section("output").val,
                                   !.queue = IF "queue" \in DOMAIN doc.v THEN doc.v["queue"].v ELSE @],
               << >>)

(* What a text is in each of the two languages: its tokens, and the YAML   *)
(* document it is, if it is one.  Unless the name of the file says which,  *)
(* YAML is tried first.                                                    *)
parse_config(text, format) ==
  LET yaml == IF text.doc = {} THEN Fail ELSE parse_yaml(CHOOSE d \in text.doc : TRUE)
  IN CASE format = "dsl" -> parse(text.tokens)
       [] format = "yaml" -> yaml
       [] format = "auto" -> IF yaml.ok THEN yaml ELSE parse(text.tokens)

=============================================================================
