------------------------------ MODULE Reading ------------------------------
(***************************************************************************)
(* Results of the two recursive descent parsers and of the evaluator:      *)
(* [ok, val, rest], where rest is what is left to read, or the state after *)
(* the evaluation.  A failure ends everything: ? in the code.              *)
(***************************************************************************)
EXTENDS Sequences

Fail == [ok |-> FALSE]
Done(x, rest) == [ok |-> TRUE, val |-> x, rest |-> rest]
Then(r, F(_, _)) == IF r.ok THEN F(r.val, r.rest) ELSE Fail
After(r, F(_)) == IF r.ok THEN F(r.rest) ELSE Fail

(* The token ahead, "" at the end. *)
peek(toks) == IF toks = << >> THEN "" ELSE Head(toks)
expect(tok, toks) == IF peek(toks) = tok THEN Done(tok, Tail(toks)) ELSE Fail
Skip(tok, toks) == IF peek(toks) = tok THEN Tail(toks) ELSE toks

=============================================================================
