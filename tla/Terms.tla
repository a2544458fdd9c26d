------------------------------- MODULE Terms -------------------------------
(***************************************************************************)
(* The terms of the AST (src/pj_ast_terms.h, src/pj_ast_terms.cpp): their  *)
(* constructors, what a destructor takes along, and what dump gets to.     *)
(*                                                                         *)
(* The heap is a sequence of terms; a pointer is an index into it and 0 is *)
(* NULL.  Of an Op's operator only what pj_build_ast asks for is kept: the *)
(* classes "empty list" (pj_baseop_empty), "list2scalar" and "method" are  *)
(* Ops too.                                                                *)
(***************************************************************************)
EXTENDS Naturals, Sequences, SequencesExt

CONSTANT NoOp      \* a null OP *

OpClasses ==
  {"baseop", "unop", "binop", "listop", "block", "empty list", "list2scalar", "method"}

ConstantClasses == {"constant", "undef"}
NameClasses == {"declaration", "lexical", "global", "code"}   \* "code": of that sigil
LoopClasses == {"bareblock", "while", "for", "foreach"}

\* op is perl_op; kids are all the terms it was built from, in order;
\* declaration is that of a Lexical.  freed counts the deletions.
Term(class, op, kids) ==
  [class |-> class, op |-> op, kids |-> kids, declaration |-> 0, freed |-> 0]

\* Op::~Op and List::~List delete their kids; the other classes do not.
OwnedKids(term) == IF term.class \in OpClasses \union {"list"} THEN term.kids ELSE <<>>

RECURSIVE Deleted(_, _)

\* delete of each of these terms
Deleted(heap, terms) ==
  IF terms = <<>> THEN heap
  ELSE IF Head(terms) = 0 THEN Deleted(heap, Tail(terms))
  ELSE Deleted([heap EXCEPT ![Head(terms)].freed = @ + 1],
               OwnedKids(heap[Head(terms)]) \o Tail(terms))

IsList(heap, t) == heap[t].class = "list"

\* The kids of List(kid_terms): one level of nested lists is flattened ...
ListKids(heap, terms) ==
  FlattenSeq([i \in 1..Len(terms) |->
    IF IsList(heap, terms[i]) THEN heap[terms[i]].kids ELSE <<terms[i]>>])

\* ... and the nested lists are deleted, their kids cleared.
Unnested(heap, terms) ==
  [t \in 1..Len(heap) |->
     IF IsList(heap, t) /\ Contains(terms, t)
       THEN [heap[t] EXCEPT !.kids = <<>>, !.freed = @ + 1]
       ELSE heap[t]]

-----------------------------------------------------------------------------
(***************************************************************************)
(* The classes, by the members they declare; only an Op may lack a kid,    *)
(* and a Sort its comparison function.                                     *)
(***************************************************************************)
IsListTerm(term) ==
  term.class = "list" \/ (term.class = "empty" /\ term.kids = <<>>)

\* The body and a List
IsTransformTerm(heap, term) ==
  /\ term.class \in {"map", "grep"}
  /\ Len(term.kids) = 2 /\ IsList(heap, term.kids[2])

IsValueTerm(heap, term) ==
  /\ term.class \in ConstantClasses \union NameClasses
  /\ term.kids = <<>>
  /\ term.class = "lexical" => heap[term.declaration].class = "declaration"

IsOpTerm(term) ==
  /\ term.class \in OpClasses
  /\ CASE term.class \in {"baseop", "empty list"} -> term.kids = <<>>
       [] term.class = "method" -> Len(term.kids) <= 1   \* what holds its name
       [] term.class \in {"unop", "block"} -> Len(term.kids) = 1
       [] term.class = "binop" -> Len(term.kids) = 2
       [] OTHER -> TRUE

IsLoopTerm(term) ==
  /\ term.class \in LoopClasses
  /\ Len(term.kids) = CASE term.class = "bareblock" -> 2   \* body, continuation
                        [] term.class = "while" -> 3       \* and a condition
                        [] OTHER -> 4   \* and a step, or iterator and expression

\* The code, the invocant of a method, the arguments
IsCallTerm(term) ==
  \/ term.class = "call" /\ term.kids # <<>>
  \/ term.class = "methodcall" /\ Len(term.kids) >= 2

\* The comparison function, or NULL, and the arguments
IsSortTerm(term) == term.class = "sort" /\ term.kids # <<>>

IsStatementTerm(heap, term) ==
  \/ term.class = "optree" /\ term.kids = <<>>
  \/ term.class = "statement" /\ Len(term.kids) = 1
  \/ /\ term.class = "sequence" /\ term.kids # <<>>
     /\ \A t \in ToSet(term.kids) : heap[t].class = "statement"

WellFormed(heap, term) ==
  /\ \/ IsListTerm(term) \/ IsTransformTerm(heap, term)
     \/ IsValueTerm(heap, term) \/ IsOpTerm(term) \/ IsLoopTerm(term)
     \/ IsCallTerm(term) \/ IsSortTerm(term) \/ IsStatementTerm(heap, term)
  /\ \A i \in 1..Len(term.kids) :
       term.kids[i] # 0 \/ term.class \in OpClasses \/ (term.class = "sort" /\ i = 1)

-----------------------------------------------------------------------------
(* dump: the terms whose dump is called, 0 where that is a null pointer. *)

NotNull(terms) == SelectSeq(terms, LAMBDA t : t # 0)

\* Faulty variant: S_dump_op does not look for NULL.
ShownOfOpUnguarded(term) == IF term.class = "baseop" THEN <<>> ELSE term.kids

\* S_dump_op
ShownOfOp(term) == IF term.class = "baseop" THEN <<>> ELSE NotNull(term.kids)

\* An Empty continuation is passed over; a For has none.
ShownOfLoop(heap, term) ==
  LET continued == term.class = "for" \/ heap[Last(term.kids)].class # "empty"
  IN IF continued THEN term.kids ELSE Front(term.kids)

\* List; body and parameters of a Map or Grep
ShownOfList(term) == IF term.class = "list" THEN NotNull(term.kids) ELSE term.kids

\* The code, the invocant and the arguments of a call
ShownOfCall(term) == term.kids

\* The comparison function, if there is one, and the arguments of a Sort
ShownOfSort(term) == IF Head(term.kids) = 0 THEN Tail(term.kids) ELSE term.kids

\* The Statement, and the Statements of a StatementSequence
ShownOfStatement(term) == term.kids

Shown(heap, t) ==
  LET term == heap[t]
  IN CASE term.class \in OpClasses -> ShownOfOp(term)
       [] term.class \in LoopClasses -> ShownOfLoop(heap, term)
       [] term.class \in {"list", "map", "grep"} -> ShownOfList(term)
       [] term.class \in {"call", "methodcall"} -> ShownOfCall(term)
       [] term.class = "sort" -> ShownOfSort(term)
       [] term.class \in {"statement", "sequence"} -> ShownOfStatement(term)
       [] OTHER -> <<>>

\* The terms of one line: a variable shows the sigil and the type of its
\* declaration, and S_sigil_character aborts at that of a code variable.
AbortsLine(term) == term.class = "code"

RECURSIVE Dumped(_, _)

\* All that the dump of these terms gets to, as far as it can
Dumped(heap, terms) ==
  LET more == terms \union UNION {ToSet(Shown(heap, t)) : t \in terms \ {0}}
  IN IF more = terms THEN terms ELSE Dumped(heap, more)

-----------------------------------------------------------------------------
\* What a term points to, owned or not.
Pointers(term) == (ToSet(term.kids) \union {term.declaration}) \ {0}

RECURSIVE Reached(_, _)

\* Every term that can be reached from these.
Reached(heap, terms) ==
  LET more == terms \union UNION {Pointers(heap[t]) : t \in terms}
  IN IF more = terms THEN terms ELSE Reached(heap, more)
=============================================================================
