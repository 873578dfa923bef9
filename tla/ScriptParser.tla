---------------------------- MODULE ScriptParser ----------------------------
(***************************************************************************)
(* The script language: the tokenizer, and the recursive descent over its  *)
(* tokens.  A token is a string; words, numbers and quoted strings are     *)
(* tokens already (their letters do not matter), operators are put         *)
(* together from their characters, because how many of them belong         *)
(* together is what the tokenizer decides.                                 *)
(*                                                                         *)
(* An expression is a record with its kind in k.                           *)
(***************************************************************************)
EXTENDS Integers, Reading

Literal == [x \in {"0", "1", "2", "3", "4", "5", "7", "9"} |->
              CASE x = "0" -> 0 [] x = "1" -> 1 [] x = "2" -> 2 [] x = "3" -> 3
                [] x = "4" -> 4 [] x = "5" -> 5 [] x = "7" -> 7 [] x = "9" -> 9]
CONSTANT IntMax          \* the largest integer (i64::MAX)

Quoted == [x \in {"'a'", "'b'"} |-> IF x = "'a'" THEN "a" ELSE "b"]
Strings == DOMAIN Quoted
Keywords == {"true", "false", "null", "if", "else", "return", "for", "def", "int", "new"}
Three == {"==~"}
Two == {"==", "!=", ">=", "<=", "&&", "||", "+=", "-=", "*=", "/=", "=~"}
Single == {"+", "-", "*", "/", "%", ">", "<", "!", "=", "(", ")", "{", "}", "[", "]",
           ".", ",", ";", "?", ":"}
Regexes == [x \in {"/a/", "/b/"} |-> IF x = "/a/" THEN "a" ELSE "b"]
IsRegex(tok) == tok \in DOMAIN Regexes
IsIdent(tok) ==
  /\ tok \notin DOMAIN Literal \union Strings \union Keywords \union Three \union Two
                \union Single \union {""}
  /\ ~IsRegex(tok)

(***************************************************************************)
(* Tokens: three characters before two before one.  A slash begins a       *)
(* regular expression unless what is before it is a value; two begin a     *)
(* comment up to the end of the line.                                      *)
(***************************************************************************)

RECURSIVE tokenize(_, _), SkipLine(_)
SkipLine(chars) == IF chars = << >> \/ Head(chars) = "nl" THEN chars ELSE SkipLine(Tail(chars))
EndsValue(toks) ==
  /\ toks # << >>
  /\ LET last == toks[Len(toks)]
     IN last \in {")", "]", "true", "false", "null"} \union DOMAIN Literal \union Strings
        \/ IsIdent(last)
tokenize(chars, toks) ==
  LET drop(n) == SubSeq(chars, n + 1, Len(chars))
      one == chars[1]
      two == IF Len(chars) < 2 THEN "" ELSE one \o chars[2]
      three == IF Len(chars) < 3 THEN "" ELSE two \o chars[3]
  IN CASE chars = << >> -> Done(toks, << >>)
       [] one \in {" ", "nl"} -> tokenize(drop(1), toks)
       [] two = "//" -> tokenize(SkipLine(chars), toks)
       [] three \in Three -> tokenize(drop(3), Append(toks, three))
       [] two \in Two -> tokenize(drop(2), Append(toks, two))
       [] one = "/" /\ ~EndsValue(toks) ->
            IF Len(chars) >= 3 /\ chars[3] = "/" /\ chars[2] \in {"a", "b"}
            THEN tokenize(drop(3), Append(toks, three)) ELSE Fail
       [] one = "#" -> Fail                     \* no token begins with it
       [] one \in DOMAIN Literal /\ Literal[one] > IntMax -> Fail
       [] OTHER -> tokenize(drop(1), Append(toks, one))

(***************************************************************************)
(* Expressions                                                             *)
(***************************************************************************)

Lit(x) == [k |-> "lit", v |-> x]
IntLit(n) == Lit([t |-> "int", v |-> n])
Var(name) == [k |-> "var", name |-> name]
Bin(op, l, r) == [k |-> "bin", op |-> op, l |-> l, r |-> r]
Un(op, e) == [k |-> "un", op |-> op, e |-> e]
Ternary(c, a, b) == [k |-> "ternary", c |-> c, l |-> a, r |-> b]
Node(k, name, args) == [k |-> k, name |-> name, args |-> args]
Source(path) == [k |-> "source", path |-> path]
Return(e) == [s |-> "return", e |-> e]
VarDecl(name, e) == [s |-> "decl", name |-> name, e |-> e]
Stmt(e) == [s |-> "expr", e |-> e]

(* Left associative, from the loosest to the tightest. *)
Levels == <<{"||"}, {"&&"}, {"==", "!=", "=~", "==~"}, {">", "<", ">=", "<="},
            {"+", "-"}, {"*", "/", "%"}>>
Compound == [op \in {"+=", "-=", "*=", "/="} |->
               CASE op = "+=" -> "+" [] op = "-=" -> "-" [] op = "*=" -> "*" [] op = "/=" -> "/"]
Casts == {"long", "float", "double", "String", "boolean"}
Classes == {"Integer", "Long", "Float", "Double", "String", "Boolean"}

RECURSIVE parse_stmt(_), parse_expr(_), parse_if(_), parse_block(_, _), parse_args(_, _)
RECURSIVE Level(_, _), LevelLoop(_, _), parse_unary(_), parse_postfix(_), DottedPath(_, _, _)

(* How a binary operator is parsed at its level: the operands are of the   *)
(* next one.                                                               *)
Level(n, toks) == IF n > Len(Levels) THEN parse_unary(toks)
                  ELSE LevelLoop(n, Level(n + 1, toks))
LevelLoop_right(n, left) ==
  IF ~left.ok \/ peek(left.rest) \notin Levels[n] THEN left
  ELSE Then(Level(n, Tail(left.rest)), LAMBDA r, rest :
         Done(Bin(peek(left.rest), left.val, r), rest))
LevelLoop(n, left) ==
  IF ~left.ok \/ peek(left.rest) \notin Levels[n] THEN left
  ELSE LevelLoop(n, Then(Level(n + 1, Tail(left.rest)), LAMBDA r, rest :
                      Done(Bin(peek(left.rest), left.val, r), rest)))

parse_ternary(toks) ==
  Then(Level(1, toks), LAMBDA c, rest :
    IF peek(rest) # "?" THEN Done(c, rest)
    ELSE Then(parse_expr(Tail(rest)), LAMBDA a, after :
           After(expect(":", after), LAMBDA other :
             Then(parse_expr(other), LAMBDA b, end : Done(Ternary(c, a, b), end)))))

parse_unary(toks) ==
  IF peek(toks) \in {"!", "-"}
  THEN Then(parse_unary(Tail(toks)), LAMBDA e, rest : Done(Un(Head(toks), e), rest))
  ELSE parse_postfix(toks)

(* Expressions up to the closing token, which is consumed. *)
parse_args(toks, close) ==
  LET loop == Then(parse_expr(toks), LAMBDA e, rest :
                IF peek(rest) = "," THEN Then(parse_args(Tail(rest), close), LAMBDA es, end :
                                           IF es = << >> THEN Fail ELSE Done(<<e>> \o es, end))
                ELSE After(expect(close, rest), LAMBDA end : Done(<<e>>, end)))
  IN IF peek(toks) = close THEN Done(<< >>, Tail(toks)) ELSE loop

(* a.b.c, as far as it goes; a name that is called is left for the method  *)
(* call when calls is set.                                                 *)
DottedPath(path, toks, calls) ==
  IF peek(toks) = "." /\ Len(toks) >= 2 /\ IsIdent(toks[2])
     /\ ~(calls /\ Len(toks) >= 3 /\ toks[3] = "(")
  THEN DottedPath(Append(path, toks[2]), Tail(Tail(toks)), calls)
  ELSE Done(path, toks)

(* ctx._source.a.b, ctx._source['a'], ctx.a.b: what can be assigned to.    *)
try_parse_source_lvalue(toks) ==
  IF ~(peek(toks) = "ctx" /\ Len(toks) >= 3 /\ toks[2] = ".") THEN Fail
  ELSE LET rest == SubSeq(toks, 4, Len(toks))
       IN IF toks[3] # "_source"
          THEN IF IsIdent(toks[3]) THEN DottedPath(<<toks[3]>>, rest, FALSE) ELSE Fail
          ELSE IF peek(rest) = "." /\ Len(rest) >= 2 /\ IsIdent(rest[2])
          THEN DottedPath(<<rest[2]>>, Tail(Tail(rest)), FALSE)
          ELSE IF peek(rest) = "[" /\ Len(rest) >= 3 /\ rest[2] \in Strings /\ rest[3] = "]"
          THEN Done(<<Quoted[rest[2]]>>, SubSeq(rest, 4, Len(rest)))
          ELSE Fail

(* The same read as a value, where a method may follow the path. *)
parse_ctx_access(toks) ==
  IF ~(peek(toks) = "." /\ Len(toks) >= 2 /\ IsIdent(toks[2])) THEN Fail
  ELSE LET rest == Tail(Tail(toks))
           read(r) == Then(r, LAMBDA path, end : Done(Source(path), end))
       IN IF toks[2] # "_source" THEN read(DottedPath(<<toks[2]>>, rest, FALSE))
          ELSE IF peek(rest) = "[" THEN
            IF Len(rest) >= 3 /\ rest[2] \in Strings /\ rest[3] = "]"
            THEN Done(Source(<<Quoted[rest[2]]>>), SubSeq(rest, 4, Len(rest))) ELSE Fail
          ELSE Then(DottedPath(<< >>, rest, TRUE), LAMBDA path, end :
                 Done(IF path = << >> THEN Var("_source") ELSE Source(path), end))

(* ['field'], perhaps .value *)
parse_doc_access(toks) ==
  IF ~(Len(toks) >= 3 /\ toks[1] = "[" /\ toks[2] \in Strings /\ toks[3] = "]") THEN Fail
  ELSE LET rest == SubSeq(toks, 4, Len(toks))
       IN Done(Node("doc", Quoted[toks[2]], << >>),
               IF peek(rest) = "." THEN Skip("value", Tail(rest)) ELSE rest)
parse_params_access(toks) ==
  IF peek(toks) = "." /\ Len(toks) >= 2 /\ IsIdent(toks[2])
  THEN Done(Node("param", toks[2], << >>), Tail(Tail(toks))) ELSE Fail

(* name(args) *)
Call(k, name, toks) ==
  After(expect("(", toks), LAMBDA inside :
    Then(parse_args(inside, ")"), LAMBDA args, end : Done(Node(k, name, args), end)))

parse_identifier(name, toks) ==
  CASE name = "doc" -> parse_doc_access(toks)
    [] name = "ctx" -> parse_ctx_access(toks)
    [] name = "params" -> parse_params_access(toks)
    [] name = "Math" \/ (name \in Classes /\ peek(toks) = ".") ->
         IF ~(peek(toks) = "." /\ Len(toks) >= 2 /\ IsIdent(toks[2])) THEN Fail
         ELSE IF toks[2] = "PI" /\ name = "Math"
         THEN Done(Lit([t |-> "flt", v |-> 6]), Tail(Tail(toks)))
         ELSE Then(Call("static", toks[2], Tail(Tail(toks))), LAMBDA call, end :
                Done([k |-> "static", name |-> call.name, args |-> call.args, class |-> name], end))
    [] peek(toks) = "(" -> Call("call", name, toks)
    [] OTHER -> Done(Var(name), toks)

(* (type) e is a cast, any other parenthesis a group. *)
parse_paren(toks) ==
  IF Len(toks) >= 2 /\ toks[1] \in Casts \union {"int"} /\ toks[2] = ")"
  THEN Then(parse_unary(Tail(Tail(toks))), LAMBDA e, end : Done(Node("cast", toks[1], <<e>>), end))
  ELSE Then(parse_expr(toks), LAMBDA e, rest : After(expect(")", rest), LAMBDA end : Done(e, end)))

parse_primary(toks) ==
  LET tok == peek(toks)
      rest == Tail(toks)
  IN CASE tok \in DOMAIN Literal -> Done(IntLit(Literal[tok]), rest)
       [] tok \in Strings -> Done(Lit([t |-> "str", v |-> <<Quoted[tok]>>]), rest)
       [] tok \in {"true", "false"} -> Done(Lit([t |-> "bool", v |-> tok = "true"]), rest)
       [] tok = "null" -> Done(Lit([t |-> "null"]), rest)
       [] IsRegex(tok) -> Done(Lit([t |-> "regex", v |-> Regexes[tok]]), rest)
       [] tok = "[" -> Then(parse_args(rest, "]"), LAMBDA es, end : Done(Node("array", "", es), end))
       [] tok = "(" -> parse_paren(rest)
       [] IsIdent(tok) -> parse_identifier(tok, rest)
       [] OTHER -> Fail

(* .method(args), .method and [index], as many as there are. *)
RECURSIVE PostfixLoop(_)
PostfixLoop(left) ==
  IF ~left.ok \/ peek(left.rest) \notin {".", "["} THEN left
  ELSE LET rest == Tail(left.rest)
           method(args) == [k |-> "method", name |-> rest[1], args |-> args, e |-> left.val]
       IN IF peek(left.rest) = "["
          THEN PostfixLoop(Then(parse_expr(rest), LAMBDA i, after :
                 After(expect("]", after), LAMBDA end : Done(Node("index", "", <<left.val, i>>), end))))
          ELSE IF ~IsIdent(peek(rest)) THEN Fail
          ELSE IF peek(Tail(rest)) = "("
          THEN PostfixLoop(Then(parse_args(Tail(Tail(rest)), ")"), LAMBDA args, end :
                             Done(method(args), end)))
          ELSE PostfixLoop(Done(method(<< >>), Tail(rest)))
parse_postfix(toks) == PostfixLoop(parse_primary(toks))

(***************************************************************************)
(* Statements                                                              *)
(***************************************************************************)

parse_if(toks) ==
  After(expect("(", toks), LAMBDA inside : Then(parse_expr(inside), LAMBDA c, rest :
    After(expect(")", rest), LAMBDA body : Then(parse_block(body, << >>), LAMBDA a, after :
      LET node(b) == [k |-> "if", c |-> c, body |-> a, other |-> b]
      IN IF peek(after) # "else" THEN Done(node(<< >>), after)
         ELSE IF peek(Tail(after)) = "if"
         THEN Then(parse_if(Tail(Tail(after))), LAMBDA b, end : Done(node(<<Stmt(b)>>), end))
         ELSE Then(parse_block(Tail(after), << >>), LAMBDA b, end : Done(node(b), end))))))

(* for (def x : items) and for (init; cond; step).  The semicolon after    *)
(* init is the statement's own, and may be left out.                       *)
parse_for(toks) ==
  After(expect("(", toks), LAMBDA inside :
    IF Len(inside) >= 3 /\ inside[1] \in {"def", "int"} /\ IsIdent(inside[2]) /\ inside[3] = ":"
    THEN Then(parse_expr(SubSeq(inside, 4, Len(inside))), LAMBDA items, rest :
           After(expect(")", rest), LAMBDA body : Then(parse_block(body, << >>), LAMBDA b, end :
             Done([k |-> "each", name |-> inside[2], c |-> items, body |-> b], end))))
    ELSE Then(parse_stmt(inside), LAMBDA init, r1 : Then(parse_expr(r1), LAMBDA c, r2 :
           After(expect(";", r2), LAMBDA r3 : Then(parse_expr(r3), LAMBDA step, r4 :
             After(expect(")", r4), LAMBDA body : Then(parse_block(body, << >>), LAMBDA b, end :
               Done([k |-> "for", init |-> init, c |-> c, e |-> step, body |-> b], end))))))))

parse_block(toks, stmts) ==
  IF stmts = << >> /\ peek(toks) # "{" THEN Fail
  ELSE LET rest == IF stmts = << >> THEN Tail(toks) ELSE toks
       IN IF peek(rest) = "}" THEN Done(stmts, Tail(rest))
          ELSE Then(parse_stmt(rest), LAMBDA s, after : parse_block(after, Append(stmts, s)))

(* An assignment to the document or to a variable, else a value. *)
parse_expr(toks) ==
  LET field == try_parse_source_lvalue(toks)
      named == IsIdent(peek(toks))
      after == IF field.ok THEN peek(field.rest) ELSE ""
      next == IF named THEN peek(Tail(toks)) ELSE ""
      assign(k, target, op, rest) ==
        Then(parse_expr(rest), LAMBDA e, end :
          Done([k |-> k, path |-> target, op |-> op, e |-> e], end))
  IN CASE peek(toks) = "if" -> parse_if(Tail(toks))
       [] peek(toks) = "for" -> parse_for(Tail(toks))
       [] after = "=" -> assign("assign", field.val, "=", Tail(field.rest))
       [] after \in DOMAIN Compound -> assign("assign", field.val, Compound[after], Tail(field.rest))
       [] named /\ next = "=" -> assign("let", <<toks[1]>>, "=", Tail(Tail(toks)))
       [] named /\ next \in DOMAIN Compound ->
            assign("let", <<toks[1]>>, Compound[next], Tail(Tail(toks)))
       [] OTHER -> parse_ternary(toks)

parse_stmt(toks) ==
  LET ended(r, F(_)) == Then(r, LAMBDA e, rest : Done(F(e), Skip(";", rest)))
  IN CASE peek(toks) = "return" -> ended(parse_expr(Tail(toks)), Return)
       [] peek(toks) \in {"def", "int"} ->
            IF ~(Len(toks) >= 2 /\ IsIdent(toks[2])) THEN Fail
            ELSE IF Len(toks) >= 3 /\ toks[3] = "="
            THEN ended(parse_expr(SubSeq(toks, 4, Len(toks))), LAMBDA e : VarDecl(toks[2], e))
            ELSE Done(VarDecl(toks[2], Lit([t |-> "null"])), Skip(";", Tail(Tail(toks))))
       [] OTHER -> ended(parse_expr(toks), Stmt)

RECURSIVE parse_program(_, _)
parse_program(toks, stmts) ==
  IF toks = << >> THEN Done(stmts, toks)
  ELSE Then(parse_stmt(toks), LAMBDA s, rest : parse_program(rest, Append(stmts, s)))

parse(chars) == Then(tokenize(chars, << >>), LAMBDA toks, end : parse_program(toks, << >>))

=============================================================================
