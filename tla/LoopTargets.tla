----------------------------- MODULE LoopTargets -----------------------------
(***************************************************************************)
(* What resolving next/last/redo promises, independent of how the tracker  *)
(* stores its scopes.  While the AST of a sub is built, full loops (a      *)
(* LEAVELOOP op: for, foreach, while, until, bare block) open and close    *)
(* like brackets; a loop control statement with label l jumps to the       *)
(* innermost loop that is open where it stands and answers to l, decided   *)
(* once and for all when the statement is met.                             *)
(***************************************************************************)
EXTENDS Naturals, Sequences

CONSTANTS
  Names,     \* the non-empty loop labels
  Bare,      \* the empty label "" of an unlabelled loop or a bare next
  Dynamic,   \* stands for a label only known at run time: last $foo
  Unseen,    \* the label of a control statement not met so far
  Loops,     \* identities of the loop terms of one sub
  Nodes,     \* identities of its loop control statements
  NoLoop     \* the target of a statement that has none

VARIABLES
  open,      \* the full loops being built, outermost first
  label,     \* the label of every control statement met so far
  dest       \* the loop each control statement jumps to

lvars == <<open, label, dest>>

Labels == Names \union {Bare}

Frame == [loop : Loops, label : Labels]

\* An open loop can be named by its label, and by no label at all.
Answers(frame, l) == l = Bare \/ frame.label = l

Enclosing(l) == {d \in 1..Len(open) : Answers(open[d], l)}

Innermost(l) ==
  CHOOSE d \in Enclosing(l) : \A e \in Enclosing(l) : e <= d

Init ==
  /\ open = <<>>
  /\ label = [n \in Nodes |-> Unseen]
  /\ dest = [n \in Nodes |-> NoLoop]

Enter(loop, l) ==
  /\ open' = Append(open, [loop |-> loop, label |-> l])
  /\ UNCHANGED <<label, dest>>

Jump(n, l) ==
  /\ label[n] = Unseen
  /\ label' = [label EXCEPT ![n] = l]
  /\ dest' = IF Enclosing(l) = {}
               THEN dest
               ELSE [dest EXCEPT ![n] = open[Innermost(l)].loop]
  /\ UNCHANGED open

DynamicJump(n) ==
  /\ label[n] = Unseen
  /\ label' = [label EXCEPT ![n] = Dynamic]
  /\ UNCHANGED <<open, dest>>

Leave ==
  /\ open # <<>>
  /\ open' = SubSeq(open, 1, Len(open) - 1)
  /\ UNCHANGED <<label, dest>>

Next ==
  \/ \E loop \in Loops, l \in Labels : Enter(loop, l)
  \/ \E n \in Nodes, l \in Labels : Jump(n, l)
  \/ \E n \in Nodes : DynamicJump(n)
  \/ Leave

Spec == Init /\ [][Next]_lvars
=============================================================================
