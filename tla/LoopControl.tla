----------------------------- MODULE LoopControl -----------------------------
(***************************************************************************)
(* LoopCtlTracker (src/LoopCtlTracker.cpp) as pj_build_loop and            *)
(* pj_build_ast of src/pj_optree.cpp drive it while one sub is built.      *)
(*                                                                         *)
(* The tracker holds a hash map from labels to stacks of scopes; a scope   *)
(* is the list of loop control statements met since the loop that owns it  *)
(* was opened.  A labelled loop pushes two scopes, one under its label and *)
(* one under "".  Operator[] of the map creates the entry it looks up, so  *)
(* a statement whose label names no open loop leaves an empty entry: that  *)
(* is how pj_find_jit_candidates sees, at the end, that a jump target      *)
(* could not be resolved.                                                  *)
(*                                                                         *)
(* The table checked in with this code does not list the three ops: they   *)
(* stay Optree terms (CandidateFinder) and the tracker, whose code and     *)
(* test are in place, sees loops only.  Admitted stands for the table.     *)
(***************************************************************************)
EXTENDS Naturals, Sequences

CONSTANTS
  Names, Bare, Dynamic, Unseen, Loops, Nodes, NoLoop,   \* see LoopTargets
  Admitted   \* the generated op table lists OP_NEXT, OP_LAST and OP_REDO

ASSUME LoopControlConstants ==
  /\ Bare \notin Names
  /\ Dynamic \notin Names \union {Bare}
  /\ Unseen \notin Names \union {Bare, Dynamic}
  /\ NoLoop \notin Loops
  /\ Admitted \in BOOLEAN

VARIABLES
  open,      \* the active pj_build_loop calls of LEAVELOOPs: term and label
  index,     \* loop_control_index; an absent entry reads as the empty stack
  keys,      \* the labels that have an entry in loop_control_index
  built,     \* the label of every loop opened so far, Unseen for the others
  label,     \* LoopControlStatement::label of the statements built so far
  target,    \* LoopControlStatement::jump_target
  warned,    \* pj_find_jit_candidates warned about unresolved targets
  phase      \* "build", then "done" once pj_find_jit_candidates returned

vars == <<open, index, keys, built, label, target, warned, phase>>

Labels == Names \union {Bare}

Frame == [loop : Loops, label : Labels]

\* One LoopCtlStatementList.  depth is the position in open of the loop that
\* pushed the list: history, never read by an action.
Scope == [depth : Nat \ {0}, nodes : SUBSET Nodes]

NewScope(d) == [depth |-> d, nodes |-> {}]

Top(stack) == stack[Len(stack)]

Pop(stack) == SubSeq(stack, 1, Len(stack) - 1)

With(scope, n) == [depth |-> scope.depth, nodes |-> scope.nodes \union {n}]

\* loop_control_index[label].back().push_back(ctrl_term)
FileIn(stack, n) == [stack EXCEPT ![Len(stack)] = With(Top(stack), n)]

\* push_loop_scope(loop_label), and push_loop_scope("") when it is not empty
ScopesOf(l) == {l, Bare}

Init ==
  /\ open = <<>>
  /\ index = [l \in Labels |-> <<>>]
  /\ keys = {}
  /\ built = [loop \in Loops |-> Unseen]
  /\ label = [n \in Nodes |-> Unseen]
  /\ target = [n \in Nodes |-> NoLoop]
  /\ warned = FALSE
  /\ phase = "build"

\* Faulty variant: a labelled loop forgets its second scope, the one under "".
OpenLoopNamedOnly(loop, l) ==
  /\ phase = "build"
  /\ built[loop] = Unseen
  /\ built' = [built EXCEPT ![loop] = l]
  /\ open' = Append(open, [loop |-> loop, label |-> l])
  /\ index' = [index EXCEPT ![l] = Append(@, NewScope(Len(open) + 1))]
  /\ keys' = keys \union {l}
  /\ UNCHANGED <<label, target, warned, phase>>

\* The part of pj_build_loop before the kids are built.  A modifier loop and
\* the early returns open no scope: they are steps that change nothing here.
OpenLoop(loop, l) ==
  /\ phase = "build"
  /\ built[loop] = Unseen
  /\ built' = [built EXCEPT ![loop] = l]
  /\ open' = Append(open, [loop |-> loop, label |-> l])
  /\ index' = [k \in Labels |->
                 IF k \in ScopesOf(l)
                   THEN Append(index[k], NewScope(Len(open) + 1))
                   ELSE index[k]]
  /\ keys' = keys \union ScopesOf(l)
  /\ UNCHANGED <<label, target, warned, phase>>

\* Faulty variant: the statement is filed under the outermost scope.
AddNodeOutermost(n, l) ==
  /\ Admitted
  /\ phase = "build"
  /\ label[n] = Unseen
  /\ label' = [label EXCEPT ![n] = l]
  /\ keys' = keys \union {l}
  /\ index' = IF index[l] = <<>>
                THEN index
                ELSE [index EXCEPT ![l][1] = With(@, n)]
  /\ UNCHANGED <<open, built, target, warned, phase>>

\* Faulty variant: the statement is filed under every open scope of its label.
AddNodeEverywhere(n, l) ==
  /\ Admitted
  /\ phase = "build"
  /\ label[n] = Unseen
  /\ label' = [label EXCEPT ![n] = l]
  /\ keys' = keys \union {l}
  /\ index' = [index EXCEPT ![l] = [i \in 1..Len(index[l]) |-> With(index[l][i], n)]]
  /\ UNCHANGED <<open, built, target, warned, phase>>

\* Faulty variant: find instead of operator[], so that a statement without a
\* loop leaves no trace.
AddNodeByFind(n, l) ==
  /\ Admitted
  /\ phase = "build"
  /\ label[n] = Unseen
  /\ label' = [label EXCEPT ![n] = l]
  /\ index' = IF index[l] = <<>>
                THEN index
                ELSE [index EXCEPT ![l] = FileIn(index[l], n)]
  /\ UNCHANGED <<open, keys, built, target, warned, phase>>

\* Faulty variant: the constructor of the statement leaves jump_target unset,
\* so that it starts with whatever the memory holds, here something no loop is.
AddNodeUninitialised(n, l) ==
  /\ Admitted
  /\ phase = "build"
  /\ label[n] = Unseen
  /\ label' = [label EXCEPT ![n] = l]
  /\ target' = [target EXCEPT ![n] = Unseen]
  /\ keys' = keys \union {l}
  /\ index' = IF index[l] = <<>>
                THEN index
                ELSE [index EXCEPT ![l] = FileIn(index[l], n)]
  /\ UNCHANGED <<open, built, warned, phase>>

\* next/last/redo with a constant label or none: the statement is built and
\* add_loop_control_node files it under the innermost scope of its label.
AddNode(n, l) ==
  /\ Admitted
  /\ phase = "build"
  /\ label[n] = Unseen
  /\ label' = [label EXCEPT ![n] = l]
  /\ keys' = keys \union {l}
  /\ index' = IF index[l] = <<>>
                THEN index
                ELSE [index EXCEPT ![l] = FileIn(index[l], n)]
  /\ UNCHANGED <<open, built, target, warned, phase>>

\* next/last/redo EXPR: label_is_dynamic, so the tracker never sees it.
AddDynamic(n) ==
  /\ Admitted
  /\ phase = "build"
  /\ label[n] = Unseen
  /\ label' = [label EXCEPT ![n] = Dynamic]
  /\ UNCHANGED <<open, index, keys, built, target, warned, phase>>

\* Faulty variant: an entry left without a scope is not erased.
CloseLoopKeepsEntry ==
  /\ phase = "build"
  /\ open # <<>>
  /\ LET popped   == ScopesOf(Top(open).label)
         resolved == UNION {Top(index[k]).nodes : k \in popped}
     IN /\ target' = [n \in Nodes |->
                        IF n \in resolved THEN Top(open).loop ELSE target[n]]
        /\ index' = [k \in Labels |->
                       IF k \in popped THEN Pop(index[k]) ELSE index[k]]
  /\ open' = Pop(open)
  /\ UNCHANGED <<keys, built, label, warned, phase>>

\* Faulty variant: the scope under "" is popped without fixing its statements.
CloseLoopSkipsBare ==
  /\ phase = "build"
  /\ open # <<>>
  /\ LET popped   == ScopesOf(Top(open).label)
         resolved == Top(index[Top(open).label]).nodes
     IN /\ target' = [n \in Nodes |->
                        IF n \in resolved THEN Top(open).loop ELSE target[n]]
        /\ index' = [k \in Labels |->
                       IF k \in popped THEN Pop(index[k]) ELSE index[k]]
        /\ keys' = keys \ {k \in popped : Len(index[k]) = 1}
  /\ open' = Pop(open)
  /\ UNCHANGED <<built, label, warned, phase>>

\* pop_loop_scope for the label, then for "": every statement of the popped
\* scopes gets its jump target, and an entry left without a scope is erased.
CloseLoop ==
  /\ phase = "build"
  /\ open # <<>>
  /\ LET popped   == ScopesOf(Top(open).label)
         resolved == UNION {Top(index[k]).nodes : k \in popped}
     IN /\ target' = [n \in Nodes |->
                        IF n \in resolved THEN Top(open).loop ELSE target[n]]
        /\ index' = [k \in Labels |->
                       IF k \in popped THEN Pop(index[k]) ELSE index[k]]
        /\ keys' = keys \ {k \in popped : Len(index[k]) = 1}
  /\ open' = Pop(open)
  /\ UNCHANGED <<built, label, warned, phase>>

\* The end of pj_find_jit_candidates.
Finish ==
  /\ phase = "build"
  /\ open = <<>>
  /\ warned' = (keys # {})
  /\ phase' = "done"
  /\ UNCHANGED <<open, index, keys, built, label, target>>

Next ==
  \/ \E loop \in Loops, l \in Labels : OpenLoop(loop, l)
  \/ \E n \in Nodes, l \in Labels : AddNode(n, l)
  \/ \E n \in Nodes : AddDynamic(n)
  \/ CloseLoop
  \/ Finish

Spec == Init /\ [][Next]_vars

\* The builder is one C++ recursion over a finite optree: an open call
\* returns, and the driver reaches its end.
FairSpec == Spec /\ WF_vars(CloseLoop) /\ WF_vars(Finish)
-----------------------------------------------------------------------------
\* Every variable has its type; a label without an entry has no scope.
TypeOK ==
  /\ open \in Seq(Frame)
  /\ index \in [Labels -> Seq(Scope)]
  /\ keys \subseteq Labels
  /\ \A l \in Labels \ keys : index[l] = <<>>
  /\ built \in [Loops -> Labels \union {Unseen}]
  /\ label \in [Nodes -> Labels \union {Dynamic, Unseen}]
  /\ target \in [Nodes -> Loops \union {NoLoop}]
  /\ warned \in BOOLEAN
  /\ phase \in {"build", "done"}

Answers(frame, l) == l = Bare \/ frame.label = l

\* The stack of scopes of each label lists, from the outermost inwards,
\* exactly the open loops that answer to that label (the pushes and pops of
\* pj_build_loop stay paired for both labels of a labelled loop).
ScopesMirrorLoops ==
  \A l \in Labels :
    /\ \A i \in 1..Len(index[l]) :
         /\ index[l][i].depth \in 1..Len(open)
         /\ Answers(open[index[l][i].depth], l)
    /\ \A i, j \in 1..Len(index[l]) :
         i < j => index[l][i].depth < index[l][j].depth
    /\ \A d \in 1..Len(open) :
         Answers(open[d], l) => \E i \in 1..Len(index[l]) : index[l][i].depth = d

\* A statement waits in one scope only, one of its own label, and only as
\* long as it has no target: a second set_jump_target never happens.
WaitsOnce ==
  \A l \in Labels : \A i \in 1..Len(index[l]) : \A n \in index[l][i].nodes :
    /\ label[n] = l
    /\ target[n] = NoLoop
    /\ \A j \in 1..Len(index[l]) : n \in index[l][j].nodes => j = i

\* The loops in whose scope statement n waits: the open loop that pushed it.
WaitingFor(n) ==
  {d \in 1..Len(open) : \E l \in Labels : \E i \in 1..Len(index[l]) :
     n \in index[l][i].nodes /\ index[l][i].depth = d}

Dest(n) ==
  IF WaitingFor(n) = {}
    THEN target[n]
    ELSE open[CHOOSE d \in WaitingFor(n) : TRUE].loop

Targets == INSTANCE LoopTargets WITH dest <- [n \in Nodes |-> Dest(n)]

\* Deferring the decision to the closing of loops gives every statement the
\* target it has by lexical scoping: the innermost loop around it that
\* answers to its label, whatever loops open and close in between.
ResolvesLexically == Targets!Spec

Unresolved(n) == label[n] \in Labels /\ target[n] = NoLoop

\* No loop of the sub built so far carries a label that l could name.
NeverBuilt(l) ==
  \A loop \in Loops : built[loop] # Unseen => l # Bare /\ built[loop] # l

\* The warning of pj_find_jit_candidates is never raised for a sub whose
\* static jump targets are all known.
WarningJustified == warned => \E n \in Nodes : Unresolved(n)

\* A label that no loop of the sub carries is always reported, whichever
\* loops open and close around the statement (t/045: redo BAR).
UnknownLabelWarned ==
  (phase = "done" /\ \E n \in Nodes :
     Unresolved(n) /\ NeverBuilt(label[n])) => warned

Waiting(n) == WaitingFor(n) # {}

\* A statement filed under an open loop is given its jump target in the
\* end: the recursion of pj_build_loop closes every loop it has opened.
EventuallyResolved == \A n \in Nodes : Waiting(n) ~> target[n] # NoLoop

-----------------------------------------------------------------------------
\* Only a statement the tracker has filed ever gets a target.
OnlyFiledTargeted == \A n \in Nodes : label[n] \notin Labels => target[n] = NoLoop

\* The loops being built are on record with their labels.
OpenLoopsBuilt == \A d \in 1..Len(open) : built[open[d].loop] = open[d].label

\* An entry without a scope was left by a statement that got no target.
EmptyEntryExplained ==
  \A l \in keys : index[l] = <<>> => \E n \in Nodes : label[n] = l /\ target[n] = NoLoop

\* The entry left by a label no loop carries is not erased.
UnknownLabelKept ==
  \A n \in Nodes : Unresolved(n) /\ NeverBuilt(label[n]) => label[n] \in keys

\* The driver warns once, when everything is closed, by the entries left.
WarningSettled ==
  /\ phase = "build" => ~ warned
  /\ phase = "done" => open = <<>> /\ warned = (keys # {})

\* The strengthening that makes the properties above inductive.
IInv ==
  /\ TypeOK
  /\ ScopesMirrorLoops
  /\ WaitsOnce
  /\ OnlyFiledTargeted
  /\ OpenLoopsBuilt
  /\ EmptyEntryExplained
  /\ UnknownLabelKept
  /\ WarningSettled
=============================================================================
