------------------------- MODULE MCCandidateFinder -------------------------
(***************************************************************************)
(* CandidateFinder on the optrees perl compiles a grammar of small subs    *)
(* to.  A number identifies a statement or an operand: 21 is the first one *)
(* of the second one.                                                      *)
(***************************************************************************)
EXTENDS CandidateFinder

Named(kind, p, name, flags, kids) ==
  [kind |-> kind, id |-> <<kind, p>>, name |-> name, flags |-> flags, kids |-> kids, repl |-> <<>>]

Op(kind, p, kids) == Named(kind, p, "", {}, kids)
Null(p, former, kids) == Named("null", p, former, {}, kids)
State(p, label) == Named("state", p, label, {}, <<>>)
Mark(p) == Op("pushmark", p, <<>>)
Stmt(p, op) == <<State(p, ""), op>>

\* 1 | $v | my $v, once for each v | @g | the sub in \\&g | $a[1],
\* whose index stays behind
Const(p)  == Op("const", p, <<>>)
Var(p, v) == Named("padxv", p, v, {}, <<>>)
My(p, v)  == Named("padxv", p, v, {"my"}, <<>>)
Global(p) == Op("rv2xv", p, <<Op("gv", p, <<>>)>>)
Code(p)   == Named("rv2xv", p, "rv2cv", {}, <<Op("gv", p, <<>>)>>)
Elem(p)   == Null(p, "aelem", <<Named("aelemfast", p, "a", {"lex"}, <<>>), Const(10 * p)>>)

List(p, kids) == Null(p, "list", <<Mark(p)>> \o kids)

\* foo(...) | $x->foo(...) | $x->$m(...) | s/.../.../e on x | a unary op | x = ... | x = y + z by OPpTARGET_MY
Call(p, args)  == Op("entersub", p, <<List(p, args \o <<Null(10 * p, "rv2cv", <<Op("gv", p, <<>>)>>)>>)>>)
Method(p, args) == Op("entersub", p, <<Mark(p), Var(p, "o")>> \o args \o <<Op("method", p, <<>>)>>)
MethodIn(p, args, m) ==
  Op("entersub", p, <<Mark(p), Var(p, "o")>> \o args \o <<Op("method", p, <<m>>)>>)
Subst(p, x, e) == [Op("listop", p, <<x>>) EXCEPT !.repl = <<Op("substcont", p, <<e>>)>>]
Unop(p, kid)   == Op("unop", p, <<kid>>)
Assign(p, x, e) == Op("sassign", p, <<e, x>>)
AddTo(p)       == Named("binop", p, "t", {"targmy"}, <<Const(10 * p + 1), Const(10 * p + 2)>>)

Foo(p)  == Stmt(p, Call(p, <<>>))
Jump(p) == Stmt(p, Op("jump", p, <<>>))

\* do {}; | {;}
DoNothing(p)  == Stmt(p, Null(p, "", <<Op("scope", p, <<Op("stub", p, <<>>)>>)>>))
EmptyBlock(p) == Stmt(p, Op("leaveloop", p, <<Op("enterloop", p, <<>>), Op("stub", p, <<>>)>>))

Enter(p)  == Op("enterloop", p, <<>>)
Lines(p, stmts) == Op("lineseq", p, stmts)
Unstack(p)    == Op("unstack", p, <<>>)
Leave(p, block) == Op("leave", p, <<Op("enter", p, <<>>)>> \o block)
Logic(p, name, a, b) == Null(p, "", <<Named("logic", p, name, {}, <<a, b>>)>>)

\* L: { ... } | L: while (x) { ... } | L: until (x) { ... } continue { ... }
Bare(p, l, block) == <<State(p, l), Op("leaveloop", p, <<Enter(p), Lines(p, block)>>)>>
While(p, l, block) ==
  <<State(p, l), Op("leaveloop", p,
      <<Enter(p), Logic(p, "and", Unop(10 * p + 6, Var(p, "c")), Lines(p, block \o <<Unstack(p)>>))>>)>>
Until(p, l, block, cont) ==
  <<State(p, l), Op("leaveloop", p,
      <<Enter(p), Logic(p, "or", Null(10 * p, "not", <<Unop(10 * p + 6, Var(p, "c"))>>),
                        Lines(p, <<Leave(p, block), Leave(10 * p + 5, cont), Unstack(p)>>))>>)>>

\* L: for (init; ; step) { ... }
CFor(p, l, init, block) ==
  <<State(p, l), init, Unstack(10 * p + 8),
    Op("leaveloop", p, <<Enter(p), Lines(p,
       <<Leave(p, block), Unop(10 * p + 8, Var(10 * p + 8, "c")), Unstack(p)>>)>>)>>

\* L: for (; ; step) { ... }
StepFor(p, l, block) == LET all == CFor(p, l, Const(p), block) IN <<all[1], all[4]>>

\* for my $x (args) { ... }, for $g (reverse args) { ... }
Foreach(p, name, flags, args, block) ==
  Stmt(p, Op("leaveloop", p,
    <<Named("enteriter", p, name, flags,
            <<Mark(p), List(p, args)>> \o (IF name = "" THEN <<Op("gv", p, <<>>)>> ELSE <<>>)),
      Null(p, "", <<Named("logic", p, "and", {}, <<Op("iter", p, <<>>),
                                                   Lines(p, block \o <<Unstack(p)>>)>>)>>)>>))

\* e while x; | e while 1; | do { ... }; | $x = do { ... }; | foo() and do { ... };
Modifier(p, e) ==
  Stmt(p, Op("leave", p, <<Op("enter", p, <<>>),
              Logic(p, "and", Var(p, "c"), Lines(p, <<e, Unstack(p)>>))>>))
Forever(p, e) ==
  Stmt(p, Op("leave", p, <<Op("enter", p, <<>>), Null(p, "", <<Lines(p, <<e, Unstack(p)>>)>>)>>))
Do(p, block)       == Null(p, "", <<Leave(p, block)>>)
AssignDo(p, block) == Stmt(p, Assign(p, Var(p, "x"), Do(p, block)))
If(p, block)       == Stmt(p, Logic(p, "and", Unop(p, Var(p, "x")), Leave(p, block)))
Eval(p, block)     == Stmt(p, Op("leavetry", p, block))

\* if (...) { op }: a block of one statement is a scope, whose nextstate is nulled.
Folding(p, ops) == Op("scope", p, <<Null(10 * p, "nextstate", <<>>)>> \o ops)
IfScope(p, op)  == Stmt(p, Logic(p, "and", Unop(p, Var(p, "x")), Folding(p, <<op>>)))

\* 1; L: while (...) { ... }: the constant is folded away.
Folded(p, l, block) == <<State(10 * p + 9, ""), Null(100 * p, "const", <<>>)>> \o While(p, l, block)

Sub(stmts) == Op("leavesub", 0, <<Lines(9, stmts)>>)

\* for (my $x = 1; ...) | for (my $x = do { ...; ... }; ...)
Init1(p)  == Assign(10 * p + 7, My(p, ToString(p)), Const(p))
InitDo(p) == Assign(10 * p + 7, My(p, ToString(p)), Do(10 * p + 7, Foo(100 * p + 71) \o Foo(100 * p + 72)))

Inner(p) ==
  {Foo(p), Jump(p), DoNothing(p), EmptyBlock(p),
   While(p, "M", Foo(10 * p + 1)), CFor(p, "M", Init1(p), Jump(10 * p + 1)),
   Eval(p, Foo(10 * p + 1)), Folded(p, "M", Foo(10 * p + 1)),
   IfScope(p, Call(10 * p + 1, <<>>))}

Block(p) ==
  Inner(10 * p + 1) \union
  {a \o b : a \in Inner(10 * p + 1),
            b \in {Foo(10 * p + 2), While(10 * p + 2, "M", Jump(100 * p + 21)),
                   CFor(10 * p + 2, "M", Init1(10 * p + 2), Foo(100 * p + 21))}}

Outer(p, blocks) ==
  {Foo(p), DoNothing(p), EmptyBlock(p), Modifier(p, Call(p, <<>>)), Forever(p, Call(p, <<>>)),
   IfScope(p, While(10 * p + 1, "", Foo(10 * p + 2))[2]),
   While(p, "L", <<Folding(p, <<Call(10 * p + 1, <<>>)>>)>>), While(p, "L", <<Op("stub", p, <<>>)>>),
   Until(p, "L", <<Folding(p, <<Jump(10 * p + 1)[2]>>)>>, Foo(10 * p + 4))}
  \union UNION {{While(p, "L", b), Bare(p, "L", b), Until(p, "L", b, Foo(10 * p + 4)),
                 StepFor(p, "L", b), CFor(p, "L", Init1(p), b), CFor(p, "L", InitDo(p), b),
                 Foreach(p, "i", {"my", "stacked"}, <<Const(10 * p + 3), Const(10 * p + 4)>>, b),
                 Stmt(p, Do(p, b)), AssignDo(p, b), If(p, b), Eval(p, b),
                 Folded(p, "L", b)} : b \in blocks}

Small(p) ==
  {Foo(p), EmptyBlock(p), While(p, "L", Foo(10 * p + 1)),
   CFor(p, "L", Init1(p), Foo(10 * p + 1)), Eval(p, Foo(10 * p + 1))}

Statements ==
  {Sub(a) : a \in Outer(1, Block(1))}
  \union {Sub(a \o b) : a \in Outer(1, Block(1)), b \in Small(2)}
  \union {Sub(a \o b) : a \in Small(1), b \in Outer(2, Inner(21))}

-----------------------------------------------------------------------------
Left(p)  == {Const(p), Var(p, "x"), My(p, "x"), Global(p), Elem(p)}
Right(p) == {Var(p, "y"), My(p, "y"), Elem(p)}

\* One construct around two operands.
Around(p, a, b) ==
  {Assign(p, a, b), AddTo(p), Call(p, <<a, b>>), Method(p, <<a>>), MethodIn(p, <<a>>, b),
   Subst(p, a, Call(10 * p, <<b>>)), Call(p, <<Op("stub", p, <<>>)>>),
   Logic(p, "or", Null(10 * p, "not", <<a>>), b),
   Op("listop", p, <<Null(p, "stringify", <<a>>), b>>),
   Op("listop", p, <<Mark(p), Op("foreign", p, <<a>>), b>>),
   Op("listop", p, <<a, List(p, <<b, List(10 * p, <<Const(10 * p + 5)>>)>>)>>),
   Named("list", p, "", {"list"}, <<Mark(p), a, b>>), Op("list", p, <<Mark(p), a, b>>),
   Op("repeat", p, <<List(p, <<a, b>>)>>), Op("repeat", p, <<a, b>>),
   Op("aassign", p, <<List(p, <<b>>), List(10 * p, <<a>>)>>),
   Op("aslice", p, <<Mark(p), Op("list", p, <<Mark(p), a, b>>), Global(p)>>),
   Op("lslice", p, <<List(p, <<a>>), List(10 * p, <<b, List(10 * p + 5, <<Const(p)>>)>>)>>),
   Op("mapwhile", p, <<Op("mapstart", p, <<Mark(p), Null(p, "", <<a>>), b>>)>>),
   Op("grepwhile", p, <<Op("grepstart", p, <<Mark(p), a, List(p, <<b>>)>>)>>),
   Named("opassign", p, "or", {}, <<a, Op("sassign", p, <<b>>)>>),
   Op("delete", p, <<Null(p, "helem", <<a, b>>)>>),
   Named("sort", p, "", {"stacked"}, <<Mark(p), Null(p, "", <<Op("scope", p, <<Null(10 * p, "nextstate", <<>>), a>>)>>), b>>),
   Op("sort", p, <<Mark(p), a, b>>),
   Null(p, "reverse", <<Mark(p), Op("sort", 10 * p, <<Mark(10 * p), b>>)>>),
   Op("unop", p, <<>>), Op("binop", p, <<a>>), Op("unop", p, <<List(p, <<Code(p), a>>)>>),
   Op("leavegiven", p, <<Op("entergiven", p, <<a, Leave(p, Stmt(10 * p + 1, b))>>)>>),
   Op("leavewhen", p, <<Op("enterwhen", p, <<Op("scope", p, <<Null(10 * p, "nextstate", <<>>), b>>)>>)>>)}

Loops(p, a, b) ==
  {Foreach(p, "i", {"stacked"}, <<a, b>>, Foo(10 * p + 4)),
   Foreach(p, "", {}, <<a, b>>, Foo(10 * p + 4)),
   Foreach(p, "i", {"my", "reversed"}, <<Null(10 * p + 6, "reverse", <<Mark(10 * p), a, b>>)>>, Foo(10 * p + 4)),
   Foreach(p, "", {"stacked", "reversed"}, <<Null(10 * p + 6, "reverse", <<Mark(10 * p), a>>)>>, Foo(10 * p + 4)),
   Modifier(p, a), Until(p, "", Stmt(10 * p + 1, a), Stmt(10 * p + 2, b))}

Once == UNION {Around(1, a, b) : a \in Left(11), b \in Right(12)}

Twice ==
  UNION {UNION {Around(1, a, Var(12, "y")), Around(1, My(11, "y"), a)} :
           a \in Around(13, My(14, "x"), Const(15))}

\* The statement after it: a use of $x, or $z declared below a fallback.
After == {Unop(2, Var(2, "x")), Logic(2, "or", Null(20, "not", <<My(2, "z")>>), Var(3, "x"))}

Expressions ==
  {Sub(Stmt(1, e) \o Stmt(2, f)) :
     e \in Once \union {Op("foreign", 1, <<a>>) : a \in Left(11)}
                \union {Logic(1, "and", Var(12, "y"), Unop(13, a)) : a \in Left(11)},
     f \in After}
  \union {Sub(Stmt(1, e) \o Stmt(2, Unop(2, Var(2, "x")))) : e \in Twice}
  \union {Sub(s \o Foo(2)) : s \in UNION {Loops(1, a, b) : a \in Left(11), b \in Right(12)}}

MCSubs == Statements \union Expressions
=============================================================================
