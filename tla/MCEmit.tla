------------------------------- MODULE MCEmit -------------------------------
(***************************************************************************)
(* Emit on the terms of small subs: additions up to three levels deep, of  *)
(* variables, constants and calls that stay perl, alone, in an assignment, *)
(* under a call, in a condition, and in sequences of statements.  A term   *)
(* is written down with its kids in it and then laid out by paths.         *)
(***************************************************************************)
EXTENDS Emit

Term(kind, kids) ==
  [kind |-> kind, ctx |-> "scalar", assign |-> FALSE, shared |-> FALSE, kids |-> kids]

RECURSIVE PathsIn(_), TermAt(_, _)

PathsIn(t) == {<<>>} \union UNION {{<<i>> \o p : p \in PathsIn(t.kids[i])} : i \in 1..Len(t.kids)}

TermAt(t, p) == IF p = <<>> THEN t ELSE TermAt(t.kids[Head(p)], Tail(p))

Laid(t) ==
  [p \in PathsIn(t) |->
     LET u == TermAt(t, p)
     IN [kind |-> u.kind, ctx |-> u.ctx, assign |-> u.assign, shared |-> u.shared,
         size |-> Len(u.kids)]]

Leaf == {Term(k, <<>>) : k \in {"lexical", "const", "optree"}}

Lexical == Term("lexical", <<>>)

Rare == {Term(k, <<>>) : k \in {"opaque", "string", "integer", "decl", "global"}}

Add(a, b)   == Term("add", <<a, b>>)
AddTo(a, b) == [Add(a, b) EXCEPT !.assign = TRUE]
Call(kid)   == Term("op", <<kid>>)

\* $x += ... : the target of the assignment form is an lvalue
Sums(kids1, kids2) ==
  {Add(a, b) : a \in kids1, b \in kids2}
  \union {AddTo(a, b) : a \in {k \in kids1 : k.kind \in {"lexical", "optree", "op"} \/ k.assign},
                        b \in kids2}

Sum1 == Sums(Leaf, Leaf)

SumRare == Sums({Lexical} \union Rare, Rare)

Small1 == Sums({Lexical}, {Term("const", <<>>), Term("optree", <<>>)})

\* srand(...), $x || ..., and $x ? ... : $x || ...
Calls1(kids)  == {Call(k) : k \in kids}
Either(kids)  == {Term("and", <<Lexical, k>>) : k \in kids}

Conditions == {Term("cond", <<Lexical, a, Term("and", <<Lexical, b>>)>>) : a, b \in Small1 \union Leaf}

Operands ==
  Leaf \union Small1 \union Calls1(Small1 \union Leaf) \union Either(Small1 \union Leaf)

Sum2 == Sums(Operands, Operands)

Deep == {Add(Call(a), b) : a \in Sum2, b \in Small1}

\* $x = ... with the addition or call writing to $x itself: one op for three terms
Targeted(terms) ==
  {Term("op", <<[Lexical EXCEPT !.shared = TRUE], [t EXCEPT !.shared = TRUE]>>) : t \in terms}

Stmt(t) == [Term("statement", <<t>>) EXCEPT !.ctx = "void"]

InStatement ==
  {Lexical, Call(Lexical)} \union {[s EXCEPT !.ctx = "void"] : s \in Small1}
  \union Calls1(Small1) \union Targeted(Small1)

Sequences2 ==
  {Term("sequence", <<Stmt(a), Stmt(b)>>) : a, b \in InStatement}
  \union {Term("sequence", <<Stmt(Call(Term("sequence", <<Stmt(a)>>))), Stmt(b)>>) :
            a, b \in InStatement}

\* do { ... } + ...
Blocks == {Add(Call(Term("sequence", <<Stmt(a)>>)), b) : a \in InStatement, b \in Small1}

Candidates(list) == Laid([Term("op", list) EXCEPT !.kind = "candidates"])

MCSubs ==
  {Candidates(<<t>>) : t \in Sum1 \union SumRare \union Sum2 \union Deep \union Targeted(Sum1)
                             \union Calls1(Sum2) \union Sums({Lexical}, Conditions) \union Sequences2 \union Blocks
                             \union Sums({Lexical} \union Targeted(Small1), Targeted(Small1 \union Calls1(Small1)))}
  \union {Candidates(<<a, b>>) : a \in Small1, b \in Small1 \union Calls1(Small1)}
=============================================================================
