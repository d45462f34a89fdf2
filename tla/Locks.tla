--------------------------------- MODULE Locks ---------------------------------
(***************************************************************************)
(* Lock expressions (mud-core locks/): the parser of "access:expression",  *)
(* the resolution of its functions, and its evaluation against what is     *)
(* known of a caller.  A text is a sequence of tokens: an identifier, or   *)
(* one of ( ) , and the colon.                                             *)
(***************************************************************************)
EXTENDS Integers, Sequences, FiniteSets, SequencesExt

Keyword     == {"and", "or", "not"}
Punctuation == {"(", ")", ",", ":"}

\* SyntaxExpr.
Call(name, args) == [op |-> "Call", name |-> name, args |-> args]
Not(e)           == [op |-> "Not", of |-> e]
And(l, r)        == [op |-> "And", lhs |-> l, rhs |-> r]
Or(l, r)         == [op |-> "Or",  lhs |-> l, rhs |-> r]

\* What a parser makes of the start of a text, and the rest of it.
Parsed(e, rest) == [ok |-> TRUE, expr |-> e, rest |-> rest]
ParseError      == [ok |-> FALSE]

At(ts, i, t) == i \in DOMAIN ts /\ ts[i] = t
From(ts, i)  == SubSeq(ts, i, Len(ts))
IsIdent(t)   == t \notin Punctuation
IsName(t)    == IsIdent(t) /\ t \notin Keyword

\* call: a name, and identifiers between parentheses with a comma between two.
ParseCall(ts) ==
  LET ends  == {i \in DOMAIN ts : ts[i] = ")"}
      close == CHOOSE i \in ends : \A j \in ends : i <= j
      args  == SubSeq(ts, 3, close - 1)
      Good  == /\ Len(args) = 0 \/ Len(args) % 2 = 1
               /\ \A i \in DOMAIN args :
                    IF i % 2 = 1 THEN IsIdent(args[i]) ELSE args[i] = ","
  IN  IF ts # <<>> /\ IsName(ts[1]) /\ At(ts, 2, "(") /\ ends # {} /\ Good
      THEN Parsed(Call(ts[1], [k \in 1 .. (Len(args) + 1) \div 2 |-> args[2 * k - 1]]),
                  From(ts, close + 1))
      ELSE ParseError

\* expr: or binds looser than and, which binds looser than not; both chain to
\* the left, and a word that nothing follows is left over.
RECURSIVE ParseOr(_), ParseUnary(_), AndChain(_), OrChain(_)
ParseAtom(ts) ==
  IF At(ts, 1, "(")
  THEN LET inner == ParseOr(Tail(ts))
       IN  IF inner.ok /\ At(inner.rest, 1, ")")
           THEN Parsed(inner.expr, Tail(inner.rest)) ELSE ParseError
  ELSE ParseCall(ts)
ParseUnary(ts) ==
  IF At(ts, 1, "not")
  THEN LET inner == ParseUnary(Tail(ts))
       IN  IF inner.ok THEN Parsed(Not(inner.expr), inner.rest) ELSE ParseError
  ELSE ParseAtom(ts)
AndChain(lhs) ==
  LET rhs == ParseUnary(Tail(lhs.rest))
  IN  IF lhs.ok /\ At(lhs.rest, 1, "and") /\ rhs.ok
      THEN AndChain(Parsed(And(lhs.expr, rhs.expr), rhs.rest)) ELSE lhs
ParseAnd(ts) == AndChain(ParseUnary(ts))
OrChain(lhs) ==
  LET rhs == ParseAnd(Tail(lhs.rest))
  IN  IF lhs.ok /\ At(lhs.rest, 1, "or") /\ rhs.ok
      THEN OrChain(Parsed(Or(lhs.expr, rhs.expr), rhs.rest)) ELSE lhs
\* Mutant: one chain for both words, each operand an unary.
RECURSIVE FlatChain(_)
FlatChain(lhs) ==
  LET rhs == ParseUnary(Tail(lhs.rest))
  IN  IF lhs.ok /\ lhs.rest # <<>> /\ lhs.rest[1] \in {"and", "or"} /\ rhs.ok
      THEN FlatChain(Parsed(IF lhs.rest[1] = "and" THEN And(lhs.expr, rhs.expr)
                            ELSE Or(lhs.expr, rhs.expr), rhs.rest)) ELSE lhs
ParseFlat(ts) == FlatChain(ParseUnary(ts))
ParseOr(ts) == OrChain(ParseAnd(ts))

\* parse: the access type, a colon, and an expression to the end.
Parse(ts) ==
  IF ts # <<>> /\ IsName(ts[1]) /\ At(ts, 2, ":")
  THEN LET e == ParseOr(From(ts, 3))
       IN  IF e.ok /\ e.rest = <<>> THEN e ELSE ParseError
  ELSE ParseError

-----------------------------------------------------------------------------
\* resolve: the arguments each function takes.
Arity == [f \in {"perm", "attr", "tag", "status", "self"} |-> IF f = "self" THEN 0 ELSE 1]

RECURSIVE ResolveExpr(_)
ResolveExpr(e) ==
  CASE e.op = "Call" -> e.name \in DOMAIN Arity /\ Len(e.args) = Arity[e.name]
    [] e.op = "Not"  -> ResolveExpr(e.of)
    [] OTHER         -> ResolveExpr(e.lhs) /\ ResolveExpr(e.rhs)

\* LockContext::new, with_perm, with_attr, with_tag, with_status and as_self.
NoAccess == [perm |-> {}, attr |-> {}, tag |-> {}, status |-> {}, self |-> FALSE]

\* Lock::evaluate.
RECURSIVE Evaluate(_, _)
Evaluate(e, ctx) ==
  CASE e.op = "Call" -> IF e.name = "self" THEN ctx.self ELSE e.args[1] \in ctx[e.name]
    [] e.op = "Not"  -> ~Evaluate(e.of, ctx)
    [] e.op = "And"  -> Evaluate(e.lhs, ctx) /\ Evaluate(e.rhs, ctx)
    [] e.op = "Or"   -> Evaluate(e.lhs, ctx) \/ Evaluate(e.rhs, ctx)

\* The text makes a lock that can gate a command.
MakesLock(ts) == Parse(ts).ok /\ ResolveExpr(Parse(ts).expr)
Permits(ts, ctx) == Evaluate(Parse(ts).expr, ctx)
=============================================================================
