--------------------------- MODULE CandidateFinder ---------------------------
(***************************************************************************)
(* OPTreeJITCandidateFinder, OPTreeVisitor::visit and pj_build_ast         *)
(* (src/pj_optree.cpp): how the optree of one sub is cut into candidates   *)
(* and what becomes of the terms built on the way.                         *)
(*                                                                         *)
(* An op is a record of its kind, an identity, a name, flags, its kids and *)
(* the replacement of a PMOP (pmreplroot: none or one op); op_sibling is   *)
(* the next element of the sequence it stands in.  The kinds               *)
(* are the op classes this code tells apart, under the names of the ops    *)
(* ("padxv" is OP_PADSV, OP_PADAV, OP_PADHV); a kind that has no AST, such *)
(* as "lineseq", "jump" (OP_NEXT, ...) or "foreign", is searched below.    *)
(* The name is the label of a state, the pad entry of a padxv, an          *)
(* enteriter or a TARGMY op, the operator of a logic and the former type   *)
(* of a null.  The tables are src/pj_ast_op_switch-gen.inc as checked in.  *)
(*                                                                         *)
(* pj_build_ast returns NULL only for an OP_LEAVELOOP that holds neither a *)
(* condition nor a LINESEQ nor a STUB (560); perl compiles none, so its    *)
(* callers' unwinding is left out.  So are constants' values.              *)
(***************************************************************************)
EXTENDS Terms, FiniteSets

CONSTANT Subs      \* the optrees of the subs

VARIABLES
  sub,       \* the root op of the sub
  backlog,   \* OPTreeVisitor::visit's list: [chain, at] of the ops to visit
  finder     \* the members of the OPTreeJITCandidateFinder and what it built

vars == <<sub, backlog, finder>>

\* variables maps a pad entry to its declaration; result is the term last
\* returned; follow is op_sibling->op_sibling of the current sequence's last
\* statement; backwards says whether the compiler evaluates the arguments of a
\* constructor from right to left, asserts whether the build has assertions
\* (Build.PL:38); failed names what the search came to grief on: a loop without a
\* nextstate, or the assertion that a sort has a comparison.  built and loops are history: the ops that
\* went through pj_build_ast, the loop scopes with the label read for them.
NewFinder(backwards, asserts) ==
  [heap |-> <<>>, variables |-> <<>>, candidates |-> <<>>, last |-> NoOp,
   current |-> 0, follow |-> NoOp, skip |-> FALSE, result |-> 0, failed |-> "",
   backwards |-> backwards, asserts |-> asserts, built |-> <<>>, loops |-> <<>>]

IsRootOp(o) ==
  o.kind \in {"baseop", "unop", "binop", "listop", "method", "padxv", "rv2xv", "repeat",
    "sassign", "aassign", "scope", "leave", "leaveloop", "leavegiven", "leavewhen",
    "mapwhile", "grepwhile", "opassign", "delete", "stub", "list", "sort", "entersub",
    "aslice", "lslice"}

IsAstOp(o) ==
  IsRootOp(o) \/ o.kind \in {"const", "gv", "aelemfast", "logic", "null"}

IsNull(o, name) == o.kind = "null" /\ o.name = name

\* An OP_NULL without kids
IsNothing(o) == o.kind = "null" /\ o.kids = <<>>

\* What stands between a nextstate and its statement
IsBetween(o) == IsNothing(o) \/ o.kind \in {"state", "unstack"}

\* pj_build_kid_terms builds no term for these.
IsNoKid(o) == IsNothing(o) \/ o.kind = "padrange" \/ (o.kind = "pushmark" /\ o.kids = <<>>)

Place(chain, at) == [chain |-> chain, at |-> at]

NoPlace == Place(<<>>, 0)

OpAt(p) == p.chain[p.at]

-----------------------------------------------------------------------------
(* Terms on the finder's heap. *)

New(f, term) == [f EXCEPT !.heap = Append(@, term), !.result = Len(f.heap) + 1]

Make(f, class, o, kids) == New(f, Term(class, o.id, kids))

MakeEmpty(f) == New(f, Term("empty", NoOp, <<>>))

MakeList(f, terms) ==
  New([f EXCEPT !.heap = Unnested(@, terms)], Term("list", NoOp, ListKids(f.heap, terms)))

\* pj_free_term_vector, delete
Freed(f, terms) == [f EXCEPT !.heap = Deleted(@, terms)]

Returning(f, t) == [f EXCEPT !.result = t]

\* The process ends there: what is built afterwards has no meaning.
Failing(f, why) == IF f.failed = "" THEN [f EXCEPT !.failed = why] ELSE f

ResultIs(f, class) == f.heap[f.result].class = class

\* get_declaration: the declaration of the op's pad entry, made by whichever op
\* comes first; a reference has no op for it.
GetDeclaration(f, declaration, o) ==
  IF o.name \in DOMAIN f.variables
    THEN Returning(f, f.variables[o.name])
    ELSE LET made == New(f, Term("declaration", declaration, <<>>))
         IN [made EXCEPT !.variables = @ @@ (o.name :> made.result)]

\* new AST::Lexical(o, get_declaration(0, o))
MakeLexical(f, o) ==
  LET known == GetDeclaration(f, NoOp, o)
  IN New(known, [Term("lexical", o.id, <<>>) EXCEPT !.declaration = known.result])

MakeVariable(f, o) == IF "my" \in o.flags THEN GetDeclaration(f, o.id, o) ELSE MakeLexical(f, o)

\* pj_build_targmy_assignment
AssignTarg(f, o) ==
  IF "targmy" \notin o.flags THEN f
  ELSE LET var == MakeLexical(f, o) IN Make(var, "binop", o, <<var.result, f.result>>)

-----------------------------------------------------------------------------
(* Building. *)

RECURSIVE BuildAst(_, _, _), BuildKids(_, _, _, _), BuildEach(_, _, _),
          BuildStatements(_, _, _, _), Visit(_, _)

\* The op at this place heads  initializer -> unstack -> leaveloop.
IsInitializer(chain, at) ==
  /\ at + 2 <= Len(chain)
  /\ chain[at + 1].kind = "unstack"
  /\ chain[at + 2].kind = "leaveloop"

\* Faulty variant: the empty list is left in the kids after its deletion.
BuildKidsWithEmpty(f, chain, at, terms) ==
  LET Then(g) == BuildKids(IF ResultIs(g, "empty list") THEN Freed(g, <<g.result>>) ELSE g,
                           chain, at + 1, Append(terms, g.result))
  IN IF at > Len(chain) THEN [f |-> f, terms |-> terms]
     ELSE IF IsNoKid(chain[at]) THEN BuildKids(f, chain, at + 1, terms)
     ELSE Then(BuildAst(f, chain, at))

\* pj_build_kid_terms: the terms of the kids; an empty list is none.
BuildKids(f, chain, at, terms) ==
  LET Then(g) == IF ResultIs(g, "empty list")
                   THEN BuildKids(Freed(g, <<g.result>>), chain, at + 1, terms)
                   ELSE BuildKids(g, chain, at + 1, Append(terms, g.result))
  IN IF at > Len(chain) THEN [f |-> f, terms |-> terms]
     ELSE IF IsNoKid(chain[at]) THEN BuildKids(f, chain, at + 1, terms)
     ELSE Then(BuildAst(f, chain, at))

\* Faulty variant: set_last_nextstate is left out.
BuildStatementsKeepLast(f, chain, at, stmts) ==
  LET ahead  == {j \in at + 1..Len(chain) : ~ IsBetween(chain[j])}
      first  == CHOOSE j \in ahead : \A k \in ahead : j <= k
      Done(g) == IF stmts = <<>> THEN MakeEmpty(g) ELSE New(g, Term("sequence", NoOp, stmts))
      Added(g) == BuildStatements(g, chain, first + 1, Append(stmts, g.result))
      Then(g) == IF ResultIs(g, "empty") THEN BuildStatements(g, chain, first, stmts)
                 ELSE Added(Make(g, "statement", chain[at], <<g.result>>))
  IN IF at >= Len(chain) \/ chain[at].kind # "state" \/ ahead = {} THEN Done(f)
     ELSE Then(BuildAst(f, chain, first))

\* The while loop of pj_build_block_or_term: the first nextstate of a run sets
\* last_nextstate, the last one is the statement's.  An Empty term is passed over
\* by continue, which leaves start on its op: the loop ends.
BuildStatements(f, chain, at, stmts) ==
  LET ahead  == {j \in at + 1..Len(chain) : ~ IsBetween(chain[j])}
      first  == CHOOSE j \in ahead : \A k \in ahead : j <= k
      states == {j \in at..first - 1 : chain[j].kind = "state"}
      own    == CHOOSE j \in states : \A k \in states : k <= j
      Done(g) == IF stmts = <<>> THEN MakeEmpty(g) ELSE New(g, Term("sequence", NoOp, stmts))
      Added(g) == BuildStatements(g, chain, first + 1, Append(stmts, g.result))
      Then(g) == IF ResultIs(g, "empty") THEN BuildStatements(g, chain, first, stmts)
                 ELSE Added(Make(g, "statement", chain[own], <<g.result>>))
      in == [f EXCEPT !.last = chain[at]]
  IN IF at >= Len(chain) \/ chain[at].kind # "state" THEN Done(f)
     ELSE IF ahead = {} THEN Done(in)
     ELSE Then(BuildAst(in, chain, first))

\* pj_build_block_or_term on the op at this place
BuildBlock(f, chain, at) ==
  IF chain[at].kind = "state" \/ IsNothing(chain[at])
    THEN BuildStatements(f, chain, at, <<>>)
    ELSE BuildAst(f, chain, at)

\* pj_build_body: the op after the former nextstate of a scope, or a block
BuildBody(f, p) ==
  IF p = NoPlace \/ OpAt(p).kind = "stub" THEN MakeEmpty(f)
  ELSE IF OpAt(p).kind # "scope" THEN BuildBlock(f, p.chain, p.at)
  ELSE LET kids == OpAt(p).kids
       IN IF kids[1].kind = "stub" THEN MakeEmpty(f)
          ELSE BuildBlock(f, kids, IF IsNull(kids[1], "nextstate") THEN 2 ELSE 1)

\* The terms of a list of places, in order: an AST, a body or a present Empty.
Ast(p)  == [how |-> "ast", place |-> p]
Body(p) == [how |-> "body", place |-> p]
Absent  == [how |-> "absent", place |-> NoPlace]

BuildEach(f, requests, terms) ==
  LET Built(r) == CASE r.how = "ast"    -> BuildAst(f, r.place.chain, r.place.at)
                    [] r.how = "body"   -> BuildBody(f, r.place)
                    [] r.how = "absent" -> MakeEmpty(f)
      Then(g)  == BuildEach(g, Tail(requests), Append(terms, g.result))
  IN IF requests = <<>> THEN [f |-> f, terms |-> terms] ELSE Then(Built(Head(requests)))

\* The same for the arguments of one constructor call.
BuildArguments(f, requests) ==
  IF ~ f.backwards THEN BuildEach(f, requests, <<>>)
  ELSE LET done == BuildEach(f, Reverse(requests), <<>>)
       IN [f |-> done.f, terms |-> Reverse(done.terms)]

\* new AST::X(o, terms ...)
MakeOf(class, o, done) == Make(done.f, class, o, done.terms)

\* Faulty variant: a loop without an initializer gets none, not an Empty.
BuildForNull(f, o, init, condition, body, step) ==
  LET done == BuildEach(f, <<condition, body, step>>, <<init>>)
      op   == IF init = 0 THEN o.id ELSE f.heap[init].op
  IN New(done.f, Term("for", op, <<done.terms[1], done.terms[2], done.terms[4], done.terms[3]>>))

\* pj_build_for: the step is built last and kept before the body.
BuildFor(f, o, init, condition, body, step) ==
  LET in   == IF init = 0 THEN MakeEmpty(f) ELSE Returning(f, init)
      op   == IF init = 0 THEN o.id ELSE f.heap[init].op
      done == BuildEach(in, <<condition, body, step>>, <<in.result>>)
  IN New(done.f, Term("for", op, <<done.terms[1], done.terms[2], done.terms[4], done.terms[3]>>))

\* pj_build_while's condition: that of an until stands below the nulled OP_NOT.
WhileCondition(logic) ==
  IF logic.name = "or" /\ IsNull(logic.kids[1], "not")
    THEN Ast(Place(logic.kids[1].kids, 1))
    ELSE Ast(Place(logic.kids, 1))

\* pj_build_foreach: the iterator, the expression, the body and continue block
BuildForeach(f, o, body, cont) ==
  LET enter    == o.kids[1]
      args     == enter.kids[2].kids
      iterator ==
        IF enter.name # "" THEN MakeVariable(f, enter)
        ELSE IF enter.kids[3].kind = "gv" THEN Make(f, "global", enter.kids[3], <<>>)
        ELSE BuildAst(f, enter.kids, 3)
      expr     == IF "stacked" \in enter.flags THEN Place(args, 2) ELSE Place(enter.kids, 2)
      unnulled == IF IsNull(OpAt(expr), "reverse") THEN Place(OpAt(expr).kids, 2) ELSE expr
      is_range == "stacked" \in enter.flags /\ Len(args) > 2
      listed   ==
        IF is_range
          THEN MakeOf("binop", enter.kids[2],
                      BuildArguments(iterator, <<Ast(Place(args, 2)), Ast(Place(args, 3))>>))
          ELSE BuildAst(iterator, unnulled.chain, unnulled.at)
      reversed ==
        IF "reversed" \in enter.flags THEN Make(listed, "listop", enter.kids[2], <<listed.result>>)
        ELSE listed
  IN MakeOf("foreach", o,
            BuildEach(reversed, <<body, cont>>, <<iterator.result, reversed.result>>))

\* get_label_from_nextstate(get_last_nextstate()) and push_loop_scope; a null
\* nextstate is dereferenced.  Modifiers have no scope.
OpenScope(f, o) ==
  IF o.kind # "leaveloop" THEN f
  ELSE IF f.last = NoOp THEN Failing(f, "no nextstate")
  ELSE [f EXCEPT !.loops = Append(@, [loop |-> o.id, label |-> f.last.name])]

\* The ops of a loop's LINESEQ, which the condition may wrap.
LoopLines(o) ==
  IF o.kids[2].kind = "null" THEN o.kids[2].kids[1].kids[2].kids ELSE o.kids[2].kids

\* pj_build_loop: below the OP_LEAVELOOP, or the OP_LEAVE of a modifier, stand the
\* enter op and a LINESEQ of the body and the step or continue block.
BuildLoop(f, o, init) ==
  LET below     == o.kids[2]
      is_while  == below.kind = "null"
      logic     == below.kids[1]
      lines     == LoopLines(o)
      condition == IF is_while THEN Ast(Place(logic.kids, 1)) ELSE Absent
      one       == lines[1].kind = "state"
      has_continue == ~ one /\ lines[2].kind \in {"leave", "scope"}
      has_step  == /\ ~ one /\ ~ has_continue /\ lines[1].kind # "stub"
                   /\ Len(lines) > 1 /\ lines[2].kind # "unstack"
      body      == Body(Place(lines, 1))
      cont      == IF has_continue THEN Body(Place(lines, 2)) ELSE Absent
      in        == OpenScope(f, o)
  IN IF below.kind = "stub" THEN MakeEmpty(f)
     ELSE IF init # 0 \/ has_step
       THEN BuildFor(in, o, init, condition, body,
                     IF has_step THEN Ast(Place(lines, 2)) ELSE Absent)
     ELSE IF o.kids[1].kind = "enteriter" THEN BuildForeach(in, o, body, cont)
     ELSE IF lines[Len(lines)].kind = "unstack"
       THEN MakeOf("while", o,
                   BuildEach(in, <<IF is_while THEN WhileCondition(logic) ELSE Absent,
                                   body, cont>>, <<>>))
     ELSE MakeOf("bareblock", o, BuildEach(in, <<body, cont>>, <<>>))

\* case OP_LEAVE: a statement modifier, or a do block
BuildLeave(f, o) ==
  LET start == o.kids[2]
      below == start.kids[1]
      Block(g) == Make(g, "block", o, <<g.result>>)
  IN IF start.kind = "null" /\ start.kids # <<>> /\ below.kind = "logic" /\ below.name # "dor"
       THEN BuildLoop(f, o, 0)
     ELSE IF /\ start.kind = "null" /\ start.kids # <<>> /\ below.kind = "lineseq"
             /\ Len(below.kids) > 1 /\ below.kids[2].kind = "unstack"
       THEN MakeOf("while", o, BuildEach(f, <<Absent, Body(Place(below.kids, 1)), Absent>>, <<>>))
     ELSE Block(BuildBlock(f, o.kids, 2))

\* case OP_SCOPE: its statement, without the nulled nextstate
BuildScope(f, o) ==
  LET Then(g) == IF ResultIs(g, "empty") THEN g ELSE Make(g, "block", o, <<g.result>>)
  IN IF Len(o.kids) = 1 /\ o.kids[1].kind = "stub" THEN MakeEmpty(f)
     ELSE Then(BuildAst(f, o.kids, IF Len(o.kids) > 1 THEN 2 ELSE 1))

\* pj_build_given_when_default
BuildGivenWhen(f, o) ==
  LET kids == o.kids[1].kids
  IN IF Len(kids) = 1 THEN MakeOf("unop", o, BuildArguments(f, <<Ast(Place(kids, 1))>>))
     ELSE MakeOf("binop", o, BuildArguments(f, <<Ast(Place(kids, 1)), Ast(Place(kids, 2))>>))

\* pj_build_grep_or_map: OP_MAPSTART holds a pushmark, the body, the arguments.
BuildGrepOrMap(f, o) ==
  LET kids == o.kids[1].kids
      done == BuildEach(f, [i \in 1..Len(kids) - 1 |-> Ast(Place(kids, i + 1))], <<>>)
      args == MakeList(done.f, Tail(done.terms))
  IN Make(args, IF o.kind = "mapwhile" THEN "map" ELSE "grep", o,
          <<done.terms[1], args.result>>)

\* pj_build_logical_assign: the OP_SASSIGN around the right side is patched out.
BuildLogicalAssign(f, o) ==
  MakeOf("binop", o, BuildEach(f, <<Ast(Place(o.kids, 1)), Ast(Place(o.kids[2].kids, 1))>>, <<>>))

\* pj_build_array_slice: a list2scalar becomes a List, its kids taken over.
BuildArraySlice(f, o) ==
  LET indices == BuildAst(f, o.kids, 2)
      kids    == indices.heap[indices.result].kids
      emptied == [indices EXCEPT !.heap[indices.result].kids = <<>>]
      listed  == IF ~ ResultIs(indices, "list2scalar") THEN indices
                 ELSE Freed(MakeList(emptied, kids), <<indices.result>>)
  IN MakeOf("binop", o, BuildEach(listed, <<Ast(Place(o.kids, 3))>>, <<listed.result>>))

\* pj_build_list_slice
BuildListSlice(f, o) ==
  LET List(done) == MakeList(done.f, done.terms)
      left  == List(BuildKids(f, o.kids[1].kids, 1, <<>>))
      right == List(BuildKids(left, o.kids[2].kids, 1, <<>>))
  IN Make(right, "binop", o, <<left.result, right.result>>)

\* pj_build_sub_call: the last kid is the code or the method, and the first kid
\* of a method call its invocant.
BuildSubCall(f, o) ==
  LET wrapped == Len(o.kids) = 1 /\ IsNull(o.kids[1], "list")
      done    == BuildKids(f, IF wrapped THEN o.kids[1].kids ELSE o.kids, 1, <<>>)
      cv      == Last(done.terms)
  IN Make(done.f, IF done.f.heap[cv].class = "method" THEN "methodcall" ELSE "call", o,
          <<cv>> \o Front(done.terms))

\* pj_build_sort: without OPf_STACKED there is no comparison function, which the
\* assertion behind the branches asks for all the same.
BuildSort(f, o) ==
  LET done    == BuildKids(f, o.kids, 1, <<>>)
      stacked == "stacked" \in o.flags
      checked == IF done.f.asserts /\ ~ stacked THEN Failing(done.f, "no comparison") ELSE done.f
  IN Make(checked, "sort", o, IF stacked THEN done.terms ELSE <<0>> \o done.terms)

\* case OP_NULL: most former ops are passed through; the others are searched
\* again, become an Optree, and the terms built below them are deleted.
BuildNull(f, chain, at) ==
  LET o    == chain[at]
      done == BuildKids(f, o.kids, 1, <<>>)
      Only == Returning(done.f, done.terms[1])
      is_one     == Len(done.terms) = 1
      is_sorted  == o.name = "reverse" /\ done.f.heap[done.terms[1]].class = "sort"
      Optree(g)   == Freed(Make(g, "optree", o, <<>>), done.terms)
  IN IF o.name = "aelem"
       THEN IF is_one THEN Only ELSE Freed(Only, <<done.terms[2]>>)
     ELSE IF o.name = "list" THEN MakeList(done.f, done.terms)
     ELSE IF is_one /\ (is_sorted \/ o.name \in {"", "rv2av", "rv2cv", "rv2sv"}) THEN Only
     ELSE Optree(Visit(done.f, <<Place(chain, at)>>))

\* The ops whose kids are all built: EMIT_BASEOP_CODE to EMIT_LISTOP_CODE, the
\* cases of OP_REPEAT, OP_SASSIGN, OP_AASSIGN and OP_LIST.  A method that is known
\* by its name (OP_METHOD_NAMED) has no kids, any other one has one.
BuildFromKids(f, o) ==
  LET done  == BuildKids(f, o.kids, 1, <<>>)
      terms == done.terms
      one   == Len(terms) = 1
      list  == done.f.heap[terms[1]].kids
      split == [done.f EXCEPT !.heap[terms[1]].kids = Front(@)]
  IN CASE o.kind = "baseop" -> AssignTarg(Make(done.f, "baseop", o, <<>>), o)
       [] o.kind = "method" -> AssignTarg(Make(done.f, "method", o, terms), o)
       [] o.kind = "unop" ->
            AssignTarg(Make(done.f, "unop", o, IF terms = <<>> THEN <<0>> ELSE terms), o)
       [] o.kind \in {"binop", "logic"} ->
            AssignTarg(Make(done.f, "binop", o, IF one THEN terms \o <<0>> ELSE terms), o)
       [] o.kind = "listop" -> Make(done.f, "listop", o, terms)
       [] o.kind = "repeat" ->
            IF one THEN Make(split, "listop", o, <<terms[1], Last(list)>>)
            ELSE Make(done.f, "listop", o, terms)
       [] o.kind \in {"sassign", "aassign"} -> Make(done.f, "binop", o, Reverse(terms))
       [] o.kind = "list" ->
            IF one THEN Returning(done.f, terms[1])
            ELSE IF "list" \in o.flags THEN MakeList(done.f, terms)
            ELSE Make(done.f, "list2scalar", o, terms)

\* The ops that name a variable or a value.
BuildLeaf(f, o) ==
  CASE o.kind = "const" -> Make(f, "constant", o, <<>>)
    [] o.kind = "gv"    -> Make(f, "global", o, <<>>)
    [] o.kind = "padxv" -> MakeVariable(f, o)
    [] o.kind = "aelemfast" ->
         LET array == IF "lex" \in o.flags THEN MakeLexical(f, o) ELSE Make(f, "global", o, <<>>)
             index == Make(array, "constant", o, <<>>)
         IN Make(index, "binop", o, <<array.result, index.result>>)
    [] o.kind = "rv2xv" ->
         IF o.kids[1].kind = "gv"
           THEN Make(f, IF o.name = "rv2cv" THEN "code" ELSE "global", o, <<>>)
         ELSE IF o.kids[1].kind = "const" THEN Make(f, "constant", o.kids[1], <<>>)
         ELSE MakeOf("unop", o, BuildEach(f, <<Ast(Place(o.kids, 1))>>, <<>>))
    [] o.kind = "stub" ->
         IF "scalar" \in o.flags THEN New(f, Term("undef", NoOp, <<>>))
         ELSE Make(f, "empty list", o, <<>>)

\* OP_DELETE and OP_EXISTS: the element below is built from its two ends.
BuildDelete(f, o) ==
  LET kids == o.kids[1].kids
  IN MakeOf("binop", o, BuildEach(f, <<Ast(Place(kids, 1)), Ast(Place(kids, Len(kids)))>>, <<>>))

\* The last cases of pj_build_ast's switch.
BuildLast(f, o) ==
  CASE o.kind = "delete"   -> BuildDelete(f, o)
    [] o.kind = "sort"     -> BuildSort(f, o)
    [] o.kind = "entersub" -> BuildSubCall(f, o)
    [] o.kind = "aslice"   -> BuildArraySlice(f, o)
    [] o.kind = "lslice"   -> BuildListSlice(f, o)

\* The ops of EMIT_BASEOP_CODE to EMIT_LISTOP_CODE and those like them
IsFromKids(o) ==
  o.kind \in {"baseop", "method", "unop", "binop", "logic", "listop", "repeat", "sassign",
             "aassign", "list"}

\* The switch of pj_build_ast.
BuildSwitch(f, chain, at) ==
  LET o == chain[at]
  IN CASE o.kind \in {"const", "gv", "padxv", "aelemfast", "rv2xv", "stub"} -> BuildLeaf(f, o)
       [] o.kind = "null"      -> BuildNull(f, chain, at)
       [] o.kind = "scope"     -> BuildScope(f, o)
       [] o.kind = "leave"     -> BuildLeave(f, o)
       [] o.kind = "leaveloop" -> BuildLoop(f, o, 0)
       [] o.kind \in {"leavegiven", "leavewhen"} -> BuildGivenWhen(f, o)
       [] o.kind \in {"mapwhile", "grepwhile"}   -> BuildGrepOrMap(f, o)
       [] o.kind = "opassign"  -> BuildLogicalAssign(f, o)
       [] IsFromKids(o) -> BuildFromKids(f, o)
       [] OTHER -> BuildLast(f, o)

\* pj_build_ast: an op that has no AST becomes an Optree and is searched for
\* candidates of its own; an initializer takes its loop along.
BuildAst(f, chain, at) ==
  LET in == [f EXCEPT !.built = Append(@, chain[at].id)]
      Then(g) == IF IsInitializer(chain, at) THEN BuildLoop(g, chain[at + 2], g.result) ELSE g
      Optree(g) == Returning(Visit(g, <<Place(chain, at)>>), g.result)
  IN IF IsAstOp(chain[at]) THEN Then(BuildSwitch(in, chain, at))
     ELSE Optree(Make(in, "optree", chain[at], <<>>))

-----------------------------------------------------------------------------
(* Searching. *)

\* candidates.push_back(ast)
AddCandidate(f) == [f EXCEPT !.candidates = Append(@, f.result)]

\* Faulty variant: the new sequence is not pushed to the candidates.
CreateStatementUnpushed(f, chain, at) ==
  LET stmt == Make(f, "statement", f.last, <<f.result>>)
      made == New(stmt, Term("sequence", NoOp, <<stmt.result>>))
  IN [made EXCEPT !.current = made.result]

\* Faulty variant: any statement joins the current sequence.
CreateStatementAnywhere(f, chain, at) ==
  LET stmt == Make(f, "statement", f.last, <<f.result>>)
      made == New(stmt, Term("sequence", NoOp, <<stmt.result>>))
  IN IF f.current # 0 THEN [stmt EXCEPT !.heap[f.current].kids = Append(@, stmt.result)]
     ELSE [AddCandidate(made) EXCEPT !.current = made.result]

\* create_statement: the statement joins the current sequence if its nextstate
\* follows the sequence's last statement, and starts a new one otherwise.
CreateStatement(f, chain, at) ==
  LET stmt   == [Make(f, "statement", f.last, <<f.result>>) EXCEPT
                   !.follow = IF at < Len(chain) THEN chain[at + 1].id ELSE NoOp]
      made   == New(stmt, Term("sequence", NoOp, <<stmt.result>>))
  IN IF f.current # 0 /\ f.follow = f.last.id
       THEN [stmt EXCEPT !.heap[f.current].kids = Append(@, stmt.result)]
       ELSE [AddCandidate(made) EXCEPT !.current = made.result]

\* A block whose OP_SCOPE hangs below an OP_NULL is built from the scope.
Astified(o) == o.kind = "null" /\ o.kids # <<>> /\ o.kids[1].kind = "scope"

\* visit_op's attempt on a root op.
Attempt(f, chain, at) ==
  LET o     == chain[at]
      heads == at > 1 /\ chain[at - 1].kind = "state"
      Add(g) ==
        [(IF heads /\ g.last = chain[at - 1] THEN CreateStatement(g, chain, at)
          ELSE AddCandidate(g))
         EXCEPT !.last = NoOp,
                !.skip = @ \/ (o.kind # "leaveloop" /\ ResultIs(g, "for"))]
  IN Add(IF Astified(o) THEN BuildAst(f, o.kids, 1) ELSE BuildAst(f, chain, at))

\* visit_op, without the kids a VISIT_CONT asks for.
VisitOp(f, chain, at) ==
  LET o == chain[at]
  IN IF o.kind = "state" THEN [f EXCEPT !.last = o]
     ELSE IF o.kind = "leaveloop" /\ f.skip THEN [f EXCEPT !.skip = FALSE]
     ELSE IF IsRootOp(o) \/ Astified(o) THEN Attempt(f, chain, at)
     ELSE f

AllOf(chain) == [i \in 1..Len(chain) |-> Place(chain, i)]

\* Faulty variant: VISIT_CONT after a candidate.
DescendAlways(o) ==
  IF o.kind = "state" THEN <<>> ELSE AllOf(o.kids) \o AllOf(o.repl)

\* What is put on the backlog after o, VISIT_CONT or VISIT_SKIP: the kids and the
\* replacement of a PMOP.  A substitution is a root op, so that its is skipped.
Descend(o) ==
  IF o.kind = "state" \/ IsRootOp(o) \/ Astified(o)
    THEN <<>>
    ELSE AllOf(o.kids) \o AllOf(o.repl)

\* A re-entrant visit, to its end.
Visit(f, todo) ==
  LET p == Head(todo)
  IN IF todo = <<>> \/ f.failed # "" THEN f
     ELSE Visit(VisitOp(f, p.chain, p.at), Tail(todo) \o Descend(OpAt(p)))

Init ==
  /\ sub \in Subs
  /\ backlog = <<Place(<<sub>>, 1)>>
  /\ finder \in {NewFinder(b, a) : b, a \in BOOLEAN}

\* One round of OPTreeVisitor::visit on the root op of the sub.
VisitNext ==
  /\ backlog # <<>>
  /\ finder.failed = ""
  /\ LET p == Head(backlog)
     IN /\ finder' = VisitOp(finder, p.chain, p.at)
        /\ backlog' = Tail(backlog) \o Descend(OpAt(p))
  /\ UNCHANGED sub

Next == VisitNext

Spec == Init /\ [][Next]_vars
-----------------------------------------------------------------------------
RECURSIVE Places(_), Below(_), MakesEmpty(_)

\* Every place of a chain of ops and of the chains below it.
Places(chain) ==
  UNION {{Place(chain, i)} \union Places(chain[i].kids) \union Places(chain[i].repl) : i \in 1..Len(chain)}

\* An op and all that hang below it.
Below(o) == {o} \union UNION {Below(kid) : kid \in ToSet(o.kids \o o.repl)}

\* The constructs that are built as an Empty term: {;} and do {}.
MakesEmpty(o) ==
  \/ o.kind = "leaveloop" /\ o.kids[2].kind = "stub"
  \/ o.kind = "scope" /\ o.kids[1].kind = "stub"
  \/ o.kind = "scope" /\ Len(o.kids) > 1 /\ MakesEmpty(o.kids[2])
  \/ IsNull(o, "") /\ o.kids # <<>> /\ MakesEmpty(o.kids[1])

AllPlaces == Places(<<sub>>)

\* The blocks of the sub: the chains that pj_build_block_or_term walks.
Blocks ==
  LET ops(kind) == {o \in Below(sub) : o.kind = kind}
  IN {o.kids : o \in ops("leave")}
     \union {b \in {LoopLines(o) : o \in ops("leaveloop")} : b # <<>> /\ b[1].kind = "state"}

\* After this op the rest of its block is not looked at: an Empty term or the
\* initializer of a C-style for, whose loop stands two ops further.
EndsBlock(chain, at) == MakesEmpty(chain[at]) \/ IsInitializer(chain, at)

\* The ops behind such an op, and the Empty ones themselves.
LostOps ==
  UNION {UNION {Below(b[i]) : i \in {j \in 1..Len(b) :
                   \/ MakesEmpty(b[j])
                   \/ \E k \in 1..j - 1 : EndsBlock(b, k)
                        /\ ~ (k = j - 2 /\ IsInitializer(b, k))}} : b \in Blocks}

\* The ops below a null that fell back to an Optree are searched twice.
SearchedTwice ==
  LET optrees == {finder.heap[t].op : t \in {u \in DOMAIN finder.heap :
                                               finder.heap[u].class = "optree"}}
  IN UNION {Below(o) : o \in {p \in Below(sub) : p.kind = "null" /\ p.id \in optrees}}

Done == backlog = <<>> /\ finder.failed = ""

Times(o) ==
  IF o.kind = "leaveloop"
    THEN Cardinality({i \in DOMAIN finder.loops : finder.loops[i].loop = o.id})
    ELSE Cardinality({i \in DOMAIN finder.built : finder.built[i] = o.id})

Live == {t \in DOMAIN finder.heap : finder.heap[t].freed = 0}

Declarations == Range(finder.variables)

\* Every variable has its type: places and nextstates are those of the sub,
\* terms are on the heap and have the kids of their class.
TypeOK ==
  /\ {OpAt(p) : p \in ToSet(backlog)} \subseteq Below(sub)
  /\ finder.last \in Below(sub) \union {NoOp}
  /\ ToSet(finder.candidates) \subseteq DOMAIN finder.heap
  /\ finder.current \in ToSet(finder.candidates) \union {0}
  /\ finder.skip \in BOOLEAN
  /\ finder.failed \in {"", "no nextstate", "no comparison"}
  /\ finder.result \in DOMAIN finder.heap \union {0}
  /\ \A t \in DOMAIN finder.heap :
       /\ Pointers(finder.heap[t]) \subseteq DOMAIN finder.heap
       /\ WellFormed(finder.heap, finder.heap[t])

\* The root ops that no call is made for: the assignment that ||= and its like
\* have around their right side, a scope or stub that is a loop's body, the stub
\* of {;} and do {}, and the code that a substitution evaluates.
PassedOver ==
  LET all    == Below(sub)
      loops  == {o \in all : o.kind = "lineseq" /\ o # sub.kids[1]}
      bodies == UNION {{kid \in ToSet(o.kids) : kid.kind \in {"scope", "stub"}} : o \in loops}
      empty  == {o \in all : o.kind \in {"leaveloop", "scope"} /\ MakesEmpty(o)}
  IN bodies
     \union UNION {{kid \in ToSet(o.kids) : kid.kind = "stub"} : o \in empty \union bodies}
     \union {o.kids[2] : o \in {q \in all : q.kind = "opassign"}}
     \union UNION {UNION {Below(r) : r \in ToSet(o.repl)} : o \in {q \in all : IsRootOp(q)}}

\* When the search is over, every root op went through pj_build_ast, and every
\* loop that has a body through pj_build_loop, exactly once, however the walk of
\* the backlog, the re-entrant searches below foreign ops and the loops taken along
\* by their initializer interleave.  Only what a block loses behind an Empty term
\* or an initializer, and what no call is made for, is missing; what becomes an
\* Empty term and what hangs below a fallback are excepted.
EachOpOnce ==
  LET missing == LostOps \union PassedOver
      twice   == SearchedTwice
  IN Done => \A o \in Below(sub) :
       IsRootOp(o) /\ ~ MakesEmpty(o) /\ o \notin twice =>
         Times(o) = IF o \in missing THEN 0 ELSE 1

\* The nextstate at this distance before a loop, which no folded statement
\* precedes.
Heads(p, distance) ==
  /\ OpAt(p).kind = "leaveloop"
  /\ p.at > distance
  /\ p.chain[p.at - distance].kind = "state"
  /\ p.at > distance + 1 => ~ IsBetween(p.chain[p.at - distance - 1])

\* A loop is filed under its own label, whatever was built since the search
\* began; for a loop with an initializer, whatever but a block was built for the
\* initializer.
LabelIsOwn ==
  Done => \A p \in AllPlaces, s \in ToSet(finder.loops) : s.loop = OpAt(p).id =>
    /\ Heads(p, 1) => s.label = p.chain[p.at - 1].name
    /\ Heads(p, 3) /\ IsInitializer(p.chain, p.at - 2)
         /\ (\A o \in Below(p.chain[p.at - 2]) : o.kind # "state")
       => s.label = p.chain[p.at - 3].name

\* The ops of a sequence of statements are built from one stretch of one chain
\* of siblings, from which replace_sequence can cut them as a whole.
SequenceIsStretch ==
  \A c \in ToSet(finder.candidates) :
    LET stmts == finder.heap[c].kids
        Op(i) == finder.heap[stmts[i]].op
    IN finder.heap[c].class = "sequence" /\ Len(stmts) > 1 =>
         \E p \in AllPlaces : \A i \in 1..Len(stmts) :
           /\ p.at + 2 * i - 1 <= Len(p.chain)
           /\ p.chain[p.at + 2 * i - 2].id = Op(i)

\* The declarations of the variables declared below a fallback go with its terms.
DoomedDeclarations ==
  {finder.variables[o.name] : o \in {q \in SearchedTwice : q.kind = "padxv" /\ "my" \in q.flags}}

\* No term is deleted twice, and none that the variables, a candidate or a term
\* of a candidate still points to; but for the declarations below a fallback.
PointersLive ==
  LET held   == Reached(finder.heap, ToSet(finder.candidates) \union Declarations)
      doomed == DoomedDeclarations
  IN \A t \in DOMAIN finder.heap :
       t \notin doomed =>
         finder.heap[t].freed <= (IF t \in held THEN 0 ELSE 1)

\* When the search is over and nothing fell back, every term that was not deleted
\* is a declaration or belongs to a candidate: no expression is dropped on the
\* way, only the Empty terms of empty statements.
NothingDropped ==
  LET held == Reached(finder.heap, ToSet(finder.candidates) \union Declarations)
  IN Done /\ SearchedTwice = {} =>
       \A t \in Live : t \in held \/ finder.heap[t].class = "empty"

\* When the search is over, which in a build with assertions it never is for a sub
\* with a sort without a comparison, every candidate can be dumped, as each term is
\* as soon as it is built in a debugging build: the dump meets no NULL and no
\* deleted term but the declarations below a fallback, it gets to every term below
\* the candidate but the Empty continuations and the declarations its lexicals tell
\* of, and it aborts at nothing but the name of a sub.
DumpWhole ==
  Done => \A c \in ToSet(finder.candidates) :
    LET dumped == Dumped(finder.heap, {c})
        below  == Reached(finder.heap, {c})
    IN /\ dumped \subseteq Live \union DoomedDeclarations
       /\ \A t \in below \ dumped : finder.heap[t].class \in {"empty", "declaration"}
       /\ \A t \in dumped : AbortsLine(finder.heap[t]) =>
            \E o \in Below(sub) :
              o.id = finder.heap[t].op /\ o.kind = "rv2xv" /\ o.name = "rv2cv"

-----------------------------------------------------------------------------
\* What the repository says of the same walk.

\* LoopCtlTracker.cpp:17: a loop is met with a nextstate at hand.
NextstateKnown == finder.failed # "no nextstate"

\* t/031_ast_blocks.t: the statements of a block that leave a trace in the
\* program are all in the sequence built for it.
StatementsKept ==
  Done => \A p \in AllPlaces :
    OpAt(p).kind \in {"entersub", "leaveloop"} /\ ~ MakesEmpty(OpAt(p)) => Times(OpAt(p)) > 0
=============================================================================
