-------------------------- MODULE LoopControl_proofs --------------------------
(***************************************************************************)
(* Proofs about LoopControl, for every set of labels, loops and control    *)
(* statements: typing, the correspondence between the scope stacks and the *)
(* open loops, the two halves of the unresolved-target warning that hold,  *)
(* and the refinement of LoopTargets.                                      *)
(***************************************************************************)
EXTENDS LoopControl, SequenceTheorems, TLAPS

\* Popping a non-empty scope stack removes its last element only.
LEMMA PopProperties ==
  ASSUME NEW S, NEW s \in Seq(S), s # <<>>
  PROVE  /\ Pop(s) \in Seq(S)
         /\ Len(s) \in Nat \ {0}
         /\ Len(Pop(s)) = Len(s) - 1
         /\ \A i \in 1..(Len(s) - 1) : Pop(s)[i] = s[i]
<1>1. Len(s) \in Nat \ {0}
  BY EmptySeq
<1>2. \A i \in 1..(Len(s) - 1) : s[i] \in S
  BY <1>1, ElementOfSeq
<1>3. /\ Pop(s) \in Seq(S)
      /\ Len(Pop(s)) = IF 1 <= Len(s) - 1 THEN (Len(s) - 1) - 1 + 1 ELSE 0
      /\ \A i \in 1..((Len(s) - 1) - 1 + 1) : Pop(s)[i] = s[1 + i - 1]
  <2>1. 1 \in Int /\ Len(s) - 1 \in Int
    BY <1>1
  <2>2. QED
    BY ONLY <1>2, <2>1, SubSeqProperties DEF Pop
<1>4. \A i \in 1..(Len(s) - 1) : Pop(s)[i] = s[i]
  BY <1>1, <1>3
<1>5. Len(Pop(s)) = Len(s) - 1
  <2>1. CASE Len(s) = 1
    BY <1>3, <2>1
  <2>2. CASE Len(s) > 1
    BY <1>1, <1>3, <2>2
  <2>3. \A m \in Nat \ {0} : m = 1 \/ m > 1
    OBVIOUS
  <2>4. QED
    BY <1>1, <2>1, <2>2, <2>3
<1>6. QED
  BY <1>1, <1>3, <1>4, <1>5

\* Pushing adds one element at the end and keeps the others.
LEMMA PushProperties ==
  ASSUME NEW S, NEW s \in Seq(S), NEW e \in S
  PROVE  /\ Append(s, e) \in Seq(S)
         /\ Len(Append(s, e)) = Len(s) + 1
         /\ \A i \in 1..Len(s) : Append(s, e)[i] = s[i]
         /\ Append(s, e)[Len(s) + 1] = e
BY AppendProperties

\* Filing a statement changes the nodes of the innermost scope only.
LEMMA FileInProperties ==
  ASSUME NEW s \in Seq(Scope), s # <<>>, NEW n \in Nodes
  PROVE  /\ FileIn(s, n) \in Seq(Scope)
         /\ Len(FileIn(s, n)) = Len(s)
         /\ \A i \in 1..Len(s) :
              FileIn(s, n)[i] = IF i = Len(s) THEN With(s[i], n) ELSE s[i]
<1>1. Len(s) \in 1..Len(s)
  BY EmptySeq
<1>2. With(s[Len(s)], n) \in Scope
  BY <1>1, ElementOfSeq DEF With, Scope
<1>3. QED
  BY <1>1, <1>2, ExceptSeq DEF FileIn, Top

\* Every step keeps the types.
LEMMA TypeStep == TypeOK /\ [Next]_vars => TypeOK'
<1> SUFFICES ASSUME TypeOK, [Next]_vars
             PROVE  TypeOK'
  OBVIOUS
<1> USE DEF TypeOK
<1>1. ASSUME NEW loop \in Loops, NEW l \in Labels, OpenLoop(loop, l)
      PROVE  TypeOK'
  <2>1. [loop |-> loop, label |-> l] \in Frame
    BY DEF Frame
  <2>2. open' \in Seq(Frame)
    BY <1>1, <2>1, PushProperties DEF OpenLoop
  <2>3. NewScope(Len(open) + 1) \in Scope
    BY LenProperties DEF NewScope, Scope
  <2>4. index' \in [Labels -> Seq(Scope)]
    BY <1>1, <2>3, PushProperties DEF OpenLoop
  <2>5. keys' \subseteq Labels /\ \A k \in Labels \ keys' : index'[k] = <<>>
    BY <1>1 DEF OpenLoop, ScopesOf, Labels
  <2>6. QED
    BY <1>1, <2>2, <2>4, <2>5 DEF OpenLoop
<1>2. ASSUME NEW n \in Nodes, NEW l \in Labels, AddNode(n, l)
      PROVE  TypeOK'
  <2>1. index' \in [Labels -> Seq(Scope)]
    <3>1. CASE index[l] = <<>>
      BY <1>2, <3>1 DEF AddNode
    <3>2. CASE index[l] # <<>>
      BY <1>2, <3>2, FileInProperties DEF AddNode
    <3>3. QED
      BY <3>1, <3>2
  <2>2. \A k \in Labels \ keys' : index'[k] = <<>>
    BY <1>2 DEF AddNode
  <2>3. QED
    BY <1>2, <2>1, <2>2 DEF AddNode, Labels
<1>3. ASSUME NEW n \in Nodes, AddDynamic(n)
      PROVE  TypeOK'
  BY <1>3 DEF AddDynamic
<1>4. CASE CloseLoop
  <2>1. open' \in Seq(Frame)
    BY <1>4, PopProperties DEF CloseLoop
  <2>2. Top(open) \in Frame
    BY <1>4, EmptySeq, ElementOfSeq DEF CloseLoop, Top
  <2>3. target' \in [Nodes -> Loops \union {NoLoop}]
    BY <1>4, <2>2 DEF CloseLoop, Frame
  <2>4. Top(open).label \in Labels
    BY <2>2 DEF Frame
  <2>5. \A k \in Labels : Pop(index[k]) \in Seq(Scope)
    <3> TAKE k \in Labels
    <3>1. CASE index[k] = <<>>
      BY <3>1, EmptySeq, SubSeqEmpty DEF Pop
    <3>2. CASE index[k] # <<>>
      BY <3>2, PopProperties
    <3>3. QED
      BY <3>1, <3>2
  <2>6. index' \in [Labels -> Seq(Scope)]
    BY <1>4, <2>5 DEF CloseLoop
  <2>7. ASSUME NEW k \in Labels \ keys'
        PROVE  index'[k] = <<>>
    <3>1. CASE k \in keys
      <4>1. k \in ScopesOf(Top(open).label) /\ Len(index[k]) = 1
        BY <1>4, <3>1, <2>7 DEF CloseLoop
      <4>2. Pop(index[k]) = <<>>
        BY <4>1, SubSeqEmpty DEF Pop
      <4>3. QED
        BY <1>4, <4>1, <4>2 DEF CloseLoop
    <3>2. CASE k \notin keys
      <4>1. index[k] = <<>> /\ Pop(<<>>) = <<>>
        BY <3>2, <2>7, EmptySeq, SubSeqEmpty DEF Pop
      <4>2. QED
        BY <1>4, <4>1 DEF CloseLoop
    <3>3. QED
      BY <3>1, <3>2
  <2>8. QED
    BY <1>4, <2>1, <2>3, <2>6, <2>7 DEF CloseLoop
<1>5. CASE Finish
  BY <1>5 DEF Finish
<1>6. CASE UNCHANGED vars
  BY <1>6 DEF vars
<1>7. QED
  BY <1>1, <1>2, <1>3, <1>4, <1>5, <1>6 DEF Next

\* Typing: LoopCtlTracker keeps well-formed scope stacks, and a label that is
\* not a key of loop_control_index has no scope.
THEOREM TypeCorrect == Spec => []TypeOK
<1>1. Init => TypeOK
  BY EmptySeq DEF Init, TypeOK, Labels
<1>2. TypeOK /\ [Next]_vars => TypeOK'
  BY TypeStep
<1>3. QED
  BY <1>1, <1>2, PTL DEF Spec

-----------------------------------------------------------------------------
(***************************************************************************)
(* The scope stack of a label and the open loops that answer to it: opening *)
(* a loop pushes on exactly the stacks it answers to, closing the innermost *)
(* loop pops exactly those, and filing a statement touches no depth.       *)
(***************************************************************************)
LEMMA OpenKeepsMirror ==
  ASSUME TypeOK, ScopesMirrorLoops,
         NEW loop \in Loops, NEW l \in Labels, OpenLoop(loop, l)
  PROVE  ScopesMirrorLoops'
<1> DEFINE D == Len(open) + 1
           f == [loop |-> loop, label |-> l]
<1>1. /\ Len(open) \in Nat
      /\ open' = Append(open, f)
      /\ Len(open') = D
      /\ open'[D] = f
      /\ \A d \in 1..Len(open) : open'[d] = open[d]
  <2>1. f \in Frame
    BY DEF Frame
  <2>2. open \in Seq(Frame)
    BY DEF TypeOK
  <2>3. QED
    BY <2>1, <2>2, PushProperties, LenProperties DEF OpenLoop
<1> HIDE DEF f
<1>2. SUFFICES ASSUME NEW k \in Labels
               PROVE  /\ \A i \in 1..Len(index'[k]) :
                           /\ index'[k][i].depth \in 1..D
                           /\ Answers(open'[index'[k][i].depth], k)
                      /\ \A i, j \in 1..Len(index'[k]) :
                           i < j => index'[k][i].depth < index'[k][j].depth
                      /\ \A d \in 1..D : Answers(open'[d], k) =>
                           \E i \in 1..Len(index'[k]) : index'[k][i].depth = d
  BY <1>1 DEF ScopesMirrorLoops
<1>3. /\ index[k] \in Seq(Scope)
      /\ Len(index[k]) \in Nat
  BY LenProperties DEF TypeOK
<1>4. Answers(f, k) <=> k \in ScopesOf(l)
  BY DEF Answers, ScopesOf, f
<1>5. CASE k \in ScopesOf(l)
  <2>1. NewScope(D) \in Scope /\ NewScope(D).depth = D
    BY <1>1 DEF NewScope, Scope
  <2>2. index'[k] = Append(index[k], NewScope(D))
    BY <1>5 DEF OpenLoop
  <2>3. /\ Len(index'[k]) = Len(index[k]) + 1
        /\ \A i \in 1..Len(index[k]) : index'[k][i] = index[k][i]
        /\ index'[k][Len(index[k]) + 1].depth = D
    BY <1>3, <2>1, <2>2, PushProperties
  <2>4. \A i \in 1..Len(index[k]) :
          /\ index[k][i].depth \in 1..Len(open)
          /\ Answers(open[index[k][i].depth], k)
    BY DEF ScopesMirrorLoops
  <2>5. \A i, j \in 1..Len(index[k]) : i < j => index[k][i].depth < index[k][j].depth
    BY DEF ScopesMirrorLoops
  <2>6. \A d \in 1..Len(open) :
          Answers(open[d], k) => \E i \in 1..Len(index[k]) : index[k][i].depth = d
    BY DEF ScopesMirrorLoops
  <2>7. \A i \in 1..Len(index'[k]) :
          /\ index'[k][i].depth \in 1..D
          /\ Answers(open'[index'[k][i].depth], k)
    <3> TAKE i \in 1..Len(index'[k])
    <3>1. CASE i = Len(index[k]) + 1
      BY <1>1, <1>4, <1>5, <2>3, <3>1
    <3>2. CASE i \in 1..Len(index[k])
      <4>1. index'[k][i].depth = index[k][i].depth
        BY <2>3, <3>2
      <4>2. /\ index[k][i].depth \in 1..Len(open)
            /\ Answers(open[index[k][i].depth], k)
        BY <2>4, <3>2
      <4>3. open'[index[k][i].depth] = open[index[k][i].depth]
        BY <1>1, <4>2
      <4>4. index[k][i].depth \in 1..D
        BY <1>1, <4>2
      <4>5. QED
        BY <4>1, <4>2, <4>3, <4>4
    <3>3. QED
      BY <1>3, <2>3, <3>1, <3>2
  <2>8. \A i, j \in 1..Len(index'[k]) :
          i < j => index'[k][i].depth < index'[k][j].depth
    <3> SUFFICES ASSUME NEW i \in 1..Len(index'[k]), NEW j \in 1..Len(index'[k]), i < j
                 PROVE  index'[k][i].depth < index'[k][j].depth
      OBVIOUS
    <3>1. i \in 1..Len(index[k])
      BY <1>3, <2>3
    <3>2. CASE j = Len(index[k]) + 1
      <4>1. index'[k][i].depth \in 1..Len(open)
        BY <2>3, <2>4, <3>1
      <4>2. index'[k][j].depth = Len(open) + 1
        BY <2>3, <3>2
      <4>3. QED
        BY <1>1, <4>1, <4>2
    <3>3. CASE j \in 1..Len(index[k])
      BY <2>3, <2>5, <3>1, <3>3
    <3>4. QED
      BY <1>3, <2>3, <3>2, <3>3
  <2>9. \A d \in 1..D : Answers(open'[d], k) =>
          \E i \in 1..Len(index'[k]) : index'[k][i].depth = d
    <3> SUFFICES ASSUME NEW d \in 1..D, Answers(open'[d], k)
                 PROVE  \E i \in 1..Len(index'[k]) : index'[k][i].depth = d
      OBVIOUS
    <3>1. CASE d = D
      BY <1>3, <2>3, <3>1
    <3>2. CASE d \in 1..Len(open)
      <4>1. PICK i \in 1..Len(index[k]) : index[k][i].depth = d
        BY <1>1, <2>6, <3>2
      <4>2. i \in 1..Len(index'[k]) /\ index'[k][i].depth = d
        BY <1>3, <2>3, <4>1
      <4>3. QED
        BY <4>2
    <3>3. QED
      BY <1>1, <3>1, <3>2
  <2>10. QED
    BY <2>7, <2>8, <2>9
<1>6. CASE k \notin ScopesOf(l)
  <2>1. index'[k] = index[k]
    BY <1>6 DEF OpenLoop
  <2>2. ~ Answers(open'[D], k)
    BY <1>1, <1>4, <1>6
  <2>3. \A d \in 1..D : Answers(open'[d], k) => d \in 1..Len(open)
    BY <1>1, <2>2
  <2>4. QED
    BY <1>1, <2>1, <2>3 DEF ScopesMirrorLoops
<1>7. QED
  BY <1>5, <1>6

\* The innermost scope of a label the innermost loop answers to is that
\* loop's, and no other scope of the label is.
LEMMA TopScope ==
  ASSUME TypeOK, ScopesMirrorLoops, open # <<>>,
         NEW k \in Labels, Answers(Top(open), k)
  PROVE  /\ index[k] # <<>>
         /\ index[k] \in Seq(Scope)
         /\ Len(index[k]) \in Nat \ {0}
         /\ index[k][Len(index[k])].depth = Len(open)
         /\ \A i \in 1..(Len(index[k]) - 1) : index[k][i].depth \in 1..(Len(open) - 1)
<1>1. Len(open) \in Nat \ {0} /\ index[k] \in Seq(Scope) /\ Len(index[k]) \in Nat
  BY EmptySeq, LenProperties DEF TypeOK
<1>2. PICK i \in 1..Len(index[k]) : index[k][i].depth = Len(open)
  BY <1>1 DEF ScopesMirrorLoops, Top
<1>3. i = Len(index[k])
  <2> SUFFICES ASSUME i < Len(index[k])
               PROVE  FALSE
    BY <1>1
  <2>1. index[k][i].depth < index[k][Len(index[k])].depth
    <3>1. Len(index[k]) \in 1..Len(index[k])
      BY <1>1
    <3>2. QED
      BY <3>1 DEF ScopesMirrorLoops
  <2>2. index[k][Len(index[k])].depth \in 1..Len(open)
    BY <1>1 DEF ScopesMirrorLoops
  <2>3. QED
    BY <1>1, <1>2, <2>1, <2>2
<1>4. index[k] # <<>> /\ Len(index[k]) \in Nat \ {0}
  BY <1>1, EmptySeq
<1>5. ASSUME NEW j \in 1..(Len(index[k]) - 1)
      PROVE  index[k][j].depth \in 1..(Len(open) - 1)
  <2>1. j \in 1..Len(index[k]) /\ j < Len(index[k])
    BY <1>1
  <2>2. index[k][j].depth < index[k][Len(index[k])].depth
    <3>1. Len(index[k]) \in 1..Len(index[k])
      BY <1>1
    <3>2. QED
      BY <2>1, <3>1 DEF ScopesMirrorLoops
  <2>3. index[k][j].depth \in 1..Len(open)
    BY <2>1 DEF ScopesMirrorLoops
  <2>4. QED
    BY <1>1, <1>2, <1>3, <2>2, <2>3
<1>6. QED
  BY <1>1, <1>2, <1>3, <1>4, <1>5

LEMMA CloseKeepsMirror ==
  ASSUME TypeOK, ScopesMirrorLoops, CloseLoop
  PROVE  ScopesMirrorLoops'
<1> DEFINE D == Len(open) - 1
<1>1. /\ open # <<>>
      /\ Len(open) \in Nat \ {0}
      /\ Len(open') = D
      /\ \A d \in 1..D : open'[d] = open[d]
  BY PopProperties DEF CloseLoop, TypeOK
<1>2. SUFFICES ASSUME NEW k \in Labels
               PROVE  /\ \A i \in 1..Len(index'[k]) :
                           /\ index'[k][i].depth \in 1..D
                           /\ Answers(open'[index'[k][i].depth], k)
                      /\ \A i, j \in 1..Len(index'[k]) :
                           i < j => index'[k][i].depth < index'[k][j].depth
                      /\ \A d \in 1..D : Answers(open'[d], k) =>
                           \E i \in 1..Len(index'[k]) : index'[k][i].depth = d
  BY <1>1 DEF ScopesMirrorLoops
<1>3. Answers(Top(open), k) <=> k \in ScopesOf(Top(open).label)
  BY DEF Answers, ScopesOf
<1>4. /\ \A i \in 1..Len(index[k]) :
           /\ index[k][i].depth \in 1..Len(open)
           /\ Answers(open[index[k][i].depth], k)
      /\ \A i, j \in 1..Len(index[k]) :
           i < j => index[k][i].depth < index[k][j].depth
      /\ \A d \in 1..Len(open) : Answers(open[d], k) =>
           \E i \in 1..Len(index[k]) : index[k][i].depth = d
  BY DEF ScopesMirrorLoops
<1>5. CASE Answers(Top(open), k)
  <2> DEFINE m == Len(index[k])
  <2>1. /\ index[k] # <<>>
        /\ index[k] \in Seq(Scope)
        /\ m \in Nat \ {0}
        /\ index[k][m].depth = Len(open)
        /\ \A i \in 1..(m - 1) : index[k][i].depth \in 1..D
    BY <1>1, <1>5, TopScope
  <2>2. index'[k] = Pop(index[k])
    BY <1>3, <1>5 DEF CloseLoop
  <2>3. /\ Len(index'[k]) = m - 1
        /\ \A i \in 1..(m - 1) : index'[k][i] = index[k][i]
    BY <2>1, <2>2, PopProperties
  <2>4. \A i \in 1..(m - 1) : i \in 1..m
    BY <2>1
  <2>5. \A i \in 1..Len(index'[k]) :
          /\ index'[k][i].depth \in 1..D
          /\ Answers(open'[index'[k][i].depth], k)
    BY <1>1, <1>4, <2>1, <2>3, <2>4
  <2>6. \A i, j \in 1..Len(index'[k]) :
          i < j => index'[k][i].depth < index'[k][j].depth
    BY <1>4, <2>3, <2>4
  <2>7. \A d \in 1..D : Answers(open'[d], k) =>
          \E i \in 1..Len(index'[k]) : index'[k][i].depth = d
    <3> SUFFICES ASSUME NEW d \in 1..D, Answers(open'[d], k)
                 PROVE  \E i \in 1..(m - 1) : index'[k][i].depth = d
      BY <2>3
    <3>1. PICK i \in 1..m : index[k][i].depth = d
      BY <1>1, <1>4
    <3>2. i # m
      BY <1>1, <2>1, <3>1
    <3>3. i \in 1..(m - 1)
      BY <2>1, <3>2
    <3>4. QED
      BY <2>3, <3>1, <3>3
  <2>8. QED
    BY <2>5, <2>6, <2>7
<1>6. CASE ~ Answers(Top(open), k)
  <2>1. index'[k] = index[k]
    BY <1>3, <1>6 DEF CloseLoop
  <2>2. \A i \in 1..Len(index[k]) : index[k][i].depth # Len(open)
    BY <1>4, <1>6 DEF Top
  <2>3. \A i \in 1..Len(index[k]) : index[k][i].depth \in 1..D
    BY <1>1, <1>4, <2>2
  <2>4. \A d \in 1..D : d \in 1..Len(open)
    BY <1>1
  <2>5. QED
    BY <1>1, <1>4, <2>1, <2>3, <2>4
<1>7. QED
  BY <1>5, <1>6

LEMMA AddKeepsMirror ==
  ASSUME TypeOK, ScopesMirrorLoops,
         NEW n \in Nodes, NEW l \in Labels, AddNode(n, l)
  PROVE  ScopesMirrorLoops'
<1>1. open' = open
  BY DEF AddNode
<1>2. ASSUME NEW k \in Labels
      PROVE  /\ Len(index'[k]) = Len(index[k])
             /\ \A i \in 1..Len(index[k]) : index'[k][i].depth = index[k][i].depth
  <2>1. CASE k = l /\ index[l] # <<>>
    <3>1. index'[k] = FileIn(index[l], n)
      BY <2>1 DEF AddNode, TypeOK
    <3>2. index[l] \in Seq(Scope)
      BY DEF TypeOK
    <3>3. /\ Len(index'[k]) = Len(index[l])
          /\ \A i \in 1..Len(index[l]) :
               index'[k][i] = IF i = Len(index[l]) THEN With(index[l][i], n)
                                                   ELSE index[l][i]
      BY <2>1, <3>1, <3>2, FileInProperties
    <3>4. \A i \in 1..Len(index[l]) : With(index[l][i], n).depth = index[l][i].depth
      BY DEF With
    <3>5. QED
      BY <2>1, <3>3, <3>4
  <2>2. CASE ~ (k = l /\ index[l] # <<>>)
    BY <2>2 DEF AddNode, TypeOK
  <2>3. QED
    BY <2>1, <2>2
<1>3. SUFFICES ASSUME NEW k \in Labels
               PROVE  /\ \A i \in 1..Len(index'[k]) :
                           /\ index'[k][i].depth \in 1..Len(open)
                           /\ Answers(open[index'[k][i].depth], k)
                      /\ \A i, j \in 1..Len(index'[k]) :
                           i < j => index'[k][i].depth < index'[k][j].depth
                      /\ \A d \in 1..Len(open) : Answers(open[d], k) =>
                           \E i \in 1..Len(index'[k]) : index'[k][i].depth = d
  BY <1>1 DEF ScopesMirrorLoops
<1>4. \A i \in 1..Len(index[k]) :
        /\ index[k][i].depth \in 1..Len(open)
        /\ Answers(open[index[k][i].depth], k)
  BY DEF ScopesMirrorLoops
<1>5. \A i, j \in 1..Len(index[k]) :
        i < j => index[k][i].depth < index[k][j].depth
  BY DEF ScopesMirrorLoops
<1>6. \A d \in 1..Len(open) : Answers(open[d], k) =>
        \E i \in 1..Len(index[k]) : index[k][i].depth = d
  BY DEF ScopesMirrorLoops
<1>7. QED
  BY <1>2, <1>4, <1>5, <1>6

\* Every step keeps the correspondence.
LEMMA MirrorStep == TypeOK /\ ScopesMirrorLoops /\ [Next]_vars => ScopesMirrorLoops'
<1> SUFFICES ASSUME TypeOK, ScopesMirrorLoops, [Next]_vars
             PROVE  ScopesMirrorLoops'
  OBVIOUS
<1>1. ASSUME NEW loop \in Loops, NEW l \in Labels, OpenLoop(loop, l)
      PROVE  ScopesMirrorLoops'
  BY <1>1, OpenKeepsMirror
<1>2. ASSUME NEW n \in Nodes, NEW l \in Labels, AddNode(n, l)
      PROVE  ScopesMirrorLoops'
  BY <1>2, AddKeepsMirror
<1>3. ASSUME NEW n \in Nodes, AddDynamic(n)
      PROVE  ScopesMirrorLoops'
  BY <1>3 DEF AddDynamic, ScopesMirrorLoops
<1>4. CASE CloseLoop
  BY <1>4, CloseKeepsMirror
<1>5. CASE Finish
  BY <1>5 DEF Finish, ScopesMirrorLoops
<1>6. CASE UNCHANGED vars
  BY <1>6 DEF vars, ScopesMirrorLoops
<1>7. QED
  BY <1>1, <1>2, <1>3, <1>4, <1>5, <1>6 DEF Next

\* The scopes of every label are the open loops answering to it: pushes and
\* pops stay paired under both labels, so pop_loop_scope always finds the
\* scope its own loop pushed, on top.
THEOREM MirrorCorrect == Spec => []ScopesMirrorLoops
<1>1. Init => ScopesMirrorLoops
  BY EmptySeq DEF Init, ScopesMirrorLoops
<1>2. TypeOK /\ ScopesMirrorLoops /\ [Next]_vars => ScopesMirrorLoops'
  BY MirrorStep
<1>3. QED
  BY <1>1, <1>2, TypeCorrect, PTL DEF Spec

-----------------------------------------------------------------------------
(***************************************************************************)
(* Where statements wait, before and after each operation.                 *)
(***************************************************************************)
Filed(n, l, i) == i \in 1..Len(index[l]) /\ n \in index[l][i].nodes

\* Opening a loop adds empty scopes: nobody moves.
LEMMA OpenMovesNobody ==
  ASSUME TypeOK, NEW loop \in Loops, NEW l \in Labels, OpenLoop(loop, l),
         NEW k \in Labels, NEW n \in Nodes, NEW i
  PROVE  /\ Filed(n, k, i)' <=> Filed(n, k, i)
         /\ Filed(n, k, i) => index'[k][i].depth = index[k][i].depth
<1>1. /\ index[k] \in Seq(Scope)
      /\ Len(index[k]) \in Nat
      /\ Len(open) \in Nat
  BY LenProperties DEF TypeOK
<1>2. CASE k \in ScopesOf(l)
  <2>1. NewScope(Len(open) + 1) \in Scope /\ NewScope(Len(open) + 1).nodes = {}
    BY <1>1 DEF NewScope, Scope
  <2>2. index'[k] = Append(index[k], NewScope(Len(open) + 1))
    BY <1>2 DEF OpenLoop
  <2>3. /\ Len(index'[k]) = Len(index[k]) + 1
        /\ \A j \in 1..Len(index[k]) : index'[k][j] = index[k][j]
        /\ index'[k][Len(index[k]) + 1].nodes = {}
    BY <1>1, <2>1, <2>2, PushProperties
  <2>4. \A j : j \in 1..(Len(index[k]) + 1) <=>
               j \in 1..Len(index[k]) \/ j = Len(index[k]) + 1
    BY <1>1
  <2>5. QED
    BY <2>3, <2>4 DEF Filed
<1>3. CASE k \notin ScopesOf(l)
  <2>1. index'[k] = index[k]
    BY <1>3 DEF OpenLoop
  <2>2. QED
    BY <2>1 DEF Filed
<1>4. QED
  BY <1>2, <1>3

\* Filing a statement adds it to the innermost scope of its label, if any.
LEMMA AddFiles ==
  ASSUME TypeOK, NEW m \in Nodes, NEW l \in Labels, AddNode(m, l),
         NEW k \in Labels, NEW n \in Nodes, NEW i
  PROVE  /\ Filed(n, k, i)' <=> \/ Filed(n, k, i)
                               \/ /\ n = m
                                  /\ k = l
                                  /\ index[l] # <<>>
                                  /\ i = Len(index[l])
         /\ Filed(n, k, i)' => index'[k][i].depth = index[k][i].depth
<1>1. index[l] \in Seq(Scope) /\ Len(index[l]) \in Nat
  BY LenProperties DEF TypeOK
<1>2. CASE k = l /\ index[l] # <<>>
  <2>1. index'[k] = FileIn(index[l], m)
    BY <1>2 DEF AddNode, TypeOK
  <2>2. /\ Len(index'[k]) = Len(index[l])
        /\ \A j \in 1..Len(index[l]) :
             index'[k][j] = IF j = Len(index[l]) THEN With(index[l][j], m)
                                                 ELSE index[l][j]
    BY <1>1, <1>2, <2>1, FileInProperties
  <2>3. \A j : With(index[l][j], m).depth = index[l][j].depth
               /\ With(index[l][j], m).nodes = index[l][j].nodes \union {m}
    BY DEF With
  <2>4. Len(index[l]) \in 1..Len(index[l])
    BY <1>1, <1>2, EmptySeq
  <2>5. CASE i = Len(index[l])
    <3>1. index'[k][i] = With(index[k][i], m)
      BY <1>2, <2>2, <2>4, <2>5
    <3>2. QED
      BY <1>2, <2>2, <2>3, <2>4, <2>5, <3>1 DEF Filed
  <2>6. CASE i # Len(index[l])
    <3>1. i \in 1..Len(index[l]) => index'[k][i] = index[k][i]
      BY <1>2, <2>2, <2>6
    <3>2. QED
      BY <1>2, <2>2, <2>6, <3>1 DEF Filed
  <2>7. QED
    BY <2>5, <2>6
<1>3. CASE ~ (k = l /\ index[l] # <<>>)
  <2>1. index'[k] = index[k]
    BY <1>3 DEF AddNode, TypeOK
  <2>2. QED
    BY <1>3, <2>1 DEF Filed
<1>4. QED
  BY <1>2, <1>3

\* Closing the innermost loop drops the innermost scope of the labels it
\* answers to; the statements in those scopes are the ones resolved.
LEMMA CloseDrops ==
  ASSUME TypeOK, ScopesMirrorLoops, CloseLoop,
         NEW k \in Labels, NEW n \in Nodes, NEW i
  PROVE  /\ Filed(n, k, i)' <=> Filed(n, k, i) /\ index[k][i].depth # Len(open)
         /\ Filed(n, k, i)' => index'[k][i].depth = index[k][i].depth
<1>1. open # <<>> /\ Len(open) \in Nat \ {0}
  BY EmptySeq DEF CloseLoop, TypeOK
<1>2. Answers(Top(open), k) <=> k \in ScopesOf(Top(open).label)
  BY DEF Answers, ScopesOf
<1>3. CASE Answers(Top(open), k)
  <2> DEFINE m == Len(index[k])
  <2>1. /\ index[k] # <<>>
        /\ index[k] \in Seq(Scope)
        /\ m \in Nat \ {0}
        /\ index[k][m].depth = Len(open)
        /\ \A j \in 1..(m - 1) : index[k][j].depth \in 1..(Len(open) - 1)
    BY <1>1, <1>3, TopScope
  <2>2. index'[k] = Pop(index[k])
    BY <1>2, <1>3 DEF CloseLoop
  <2>3. /\ Len(index'[k]) = m - 1
        /\ \A j \in 1..(m - 1) : index'[k][j] = index[k][j]
    BY <2>1, <2>2, PopProperties
  <2>4. \A j : j \in 1..m <=> j \in 1..(m - 1) \/ j = m
    BY <2>1
  <2>5. m \notin 1..(m - 1)
    BY <2>1
  <2>6. \A j \in 1..(m - 1) : index[k][j].depth # Len(open)
    BY <1>1, <2>1
  <2>7. QED
    BY <2>1, <2>3, <2>4, <2>5, <2>6 DEF Filed
<1>4. CASE ~ Answers(Top(open), k)
  <2>1. index'[k] = index[k]
    BY <1>2, <1>4 DEF CloseLoop
  <2>2. \A j \in 1..Len(index[k]) : index[k][j].depth # Len(open)
    BY <1>4 DEF ScopesMirrorLoops, Top
  <2>3. QED
    BY <2>1, <2>2 DEF Filed
<1>5. QED
  BY <1>3, <1>4

LEMMA CloseResolves ==
  ASSUME TypeOK, ScopesMirrorLoops, CloseLoop, NEW n \in Nodes
  PROVE  /\ (\E k \in Labels, i \in Nat : Filed(n, k, i) /\ index[k][i].depth = Len(open))
              => target'[n] = Top(open).loop
         /\ ~ (\E k \in Labels, i \in Nat : Filed(n, k, i) /\ index[k][i].depth = Len(open))
              => target'[n] = target[n]
<1> DEFINE popped   == ScopesOf(Top(open).label)
           resolved == UNION {Top(index[k]).nodes : k \in popped}
<1>1. open # <<>> /\ Len(open) \in Nat \ {0} /\ Top(open) \in Frame
  BY EmptySeq, ElementOfSeq DEF CloseLoop, TypeOK, Top
<1>2. popped \subseteq Labels
  BY <1>1 DEF Frame, ScopesOf, Labels
<1>3. target'[n] = IF n \in resolved THEN Top(open).loop ELSE target[n]
  BY DEF CloseLoop
<1>4. ASSUME n \in resolved
      PROVE  \E k \in Labels, i \in Nat : Filed(n, k, i) /\ index[k][i].depth = Len(open)
  <2>1. PICK k \in popped : n \in Top(index[k]).nodes
    BY <1>4
  <2>2. k \in Labels /\ Answers(Top(open), k)
    BY <1>2 DEF Answers, ScopesOf
  <2>3. /\ Len(index[k]) \in Nat \ {0}
        /\ index[k][Len(index[k])].depth = Len(open)
    BY <1>1, <2>2, TopScope
  <2>4. Filed(n, k, Len(index[k]))
    BY <2>1, <2>3 DEF Filed, Top
  <2>5. QED
    BY <2>2, <2>3, <2>4
<1>5. ASSUME NEW k \in Labels, NEW i \in Nat, Filed(n, k, i), index[k][i].depth = Len(open)
      PROVE  n \in resolved
  <2>1. Answers(Top(open), k)
    BY <1>5 DEF ScopesMirrorLoops, Filed, Top
  <2>2. k \in popped
    BY <2>1 DEF Answers, ScopesOf
  <2>3. /\ Len(index[k]) \in Nat \ {0}
        /\ \A j \in 1..(Len(index[k]) - 1) : index[k][j].depth \in 1..(Len(open) - 1)
    BY <1>1, <2>1, TopScope
  <2>4. i = Len(index[k])
    BY <1>1, <1>5, <2>3 DEF Filed
  <2>5. QED
    BY <1>5, <2>2, <2>4 DEF Filed, Top
<1>6. QED
  BY <1>3, <1>4, <1>5

-----------------------------------------------------------------------------
(***************************************************************************)
(* The inductive invariant.                                                *)
(***************************************************************************)
\* WaitsOnce, said of Filed.
WaitsFiled ==
  \A l \in Labels, n \in Nodes : \A i, j \in Nat : Filed(n, l, i) =>
    /\ label[n] = l
    /\ target[n] = NoLoop
    /\ Filed(n, l, j) => j = i

LEMMA WaitsOnceAsFiled ==
  ASSUME TypeOK
  PROVE  WaitsOnce <=> WaitsFiled
<1>1. \A l \in Labels : index[l] \in Seq(Scope) /\ Len(index[l]) \in Nat
  BY LenProperties DEF TypeOK
<1>2. ASSUME NEW l \in Labels, NEW i \in 1..Len(index[l])
      PROVE  i \in Nat /\ index[l][i].nodes \subseteq Nodes
  <2>1. index[l][i] \in Scope
    BY <1>1, ElementOfSeq
  <2>2. QED
    BY <1>1, <2>1 DEF Scope
<1>3. QED
  BY <1>2 DEF WaitsOnce, WaitsFiled, Filed

LEMMA WaitsStep ==
  ASSUME TypeOK, ScopesMirrorLoops, WaitsFiled, OnlyFiledTargeted, [Next]_vars
  PROVE  WaitsFiled' /\ OnlyFiledTargeted'
<1>1. ASSUME NEW loop \in Loops, NEW l \in Labels, OpenLoop(loop, l)
      PROVE  WaitsFiled' /\ OnlyFiledTargeted'
  <2>1. label' = label /\ target' = target
    BY <1>1 DEF OpenLoop
  <2>2. \A k \in Labels, n \in Nodes : \A i \in Nat : Filed(n, k, i)' <=> Filed(n, k, i)
    BY <1>1, OpenMovesNobody
  <2>3. QED
    BY <2>1, <2>2 DEF WaitsFiled, OnlyFiledTargeted
<1>2. ASSUME NEW m \in Nodes, NEW l \in Labels, AddNode(m, l)
      PROVE  WaitsFiled' /\ OnlyFiledTargeted'
  <2>1. /\ label[m] = Unseen
        /\ label' = [label EXCEPT ![m] = l]
        /\ target' = target
    BY <1>2 DEF AddNode
  <2>2. Unseen \notin Labels
    BY LoopControlConstants DEF Labels
  <2>3. \A k \in Labels : \A i \in Nat : ~ Filed(m, k, i)
    BY <2>1, <2>2 DEF WaitsFiled
  <2>4. target[m] = NoLoop
    BY <2>1, <2>2 DEF OnlyFiledTargeted
  <2>5. \A k \in Labels, n \in Nodes : \A i \in Nat :
          Filed(n, k, i)' <=> \/ Filed(n, k, i)
                              \/ (n = m /\ k = l /\ index[l] # <<>> /\ i = Len(index[l]))
    BY <1>2, AddFiles
  <2>6. \A n \in Nodes : label'[n] = IF n = m THEN l ELSE label[n]
    BY <2>1 DEF TypeOK
  <2>7. WaitsFiled'
    <3> SUFFICES ASSUME NEW k \in Labels, NEW n \in Nodes, NEW i \in Nat, NEW j \in Nat,
                        Filed(n, k, i)'
                 PROVE  /\ label'[n] = k
                        /\ target'[n] = NoLoop
                        /\ Filed(n, k, j)' => j = i
      BY DEF WaitsFiled
    <3>1. CASE n = m
      BY <2>1, <2>3, <2>4, <2>5, <2>6, <3>1
    <3>2. CASE n # m
      BY <2>1, <2>5, <2>6, <3>2 DEF WaitsFiled
    <3>3. QED
      BY <3>1, <3>2
  <2>8. OnlyFiledTargeted'
    BY <2>1, <2>6 DEF OnlyFiledTargeted
  <2>9. QED
    BY <2>7, <2>8
<1>3. ASSUME NEW m \in Nodes, AddDynamic(m)
      PROVE  WaitsFiled' /\ OnlyFiledTargeted'
  <2>1. /\ label[m] = Unseen
        /\ index' = index /\ target' = target
        /\ \A n \in Nodes : label'[n] = IF n = m THEN Dynamic ELSE label[n]
    BY <1>3 DEF AddDynamic, TypeOK
  <2>2. Unseen \notin Labels
    BY LoopControlConstants DEF Labels
  <2>3. \A k \in Labels, n \in Nodes : \A i \in Nat :
          (Filed(n, k, i)' <=> Filed(n, k, i)) /\ ~ Filed(m, k, i)
    BY <2>1, <2>2 DEF WaitsFiled, Filed
  <2>4. WaitsFiled'
    BY <2>1, <2>3 DEF WaitsFiled
  <2>5. target[m] = NoLoop
    BY <2>1, <2>2 DEF OnlyFiledTargeted
  <2>6. OnlyFiledTargeted'
    BY <2>1, <2>5 DEF OnlyFiledTargeted
  <2>7. QED
    BY <2>4, <2>6
<1>4. CASE CloseLoop
  <2>1. label' = label
    BY <1>4 DEF CloseLoop
  <2>2. \A k \in Labels, n \in Nodes : \A i \in Nat :
          Filed(n, k, i)' <=> Filed(n, k, i) /\ index[k][i].depth # Len(open)
    BY <1>4, CloseDrops
  <2>3. ASSUME NEW n \in Nodes,
               ~ (\E k \in Labels, i \in Nat : Filed(n, k, i) /\ index[k][i].depth = Len(open))
        PROVE  target'[n] = target[n]
    BY <1>4, <2>3, CloseResolves
  <2>4. WaitsFiled'
    <3> SUFFICES ASSUME NEW k \in Labels, NEW n \in Nodes, NEW i \in Nat, NEW j \in Nat,
                        Filed(n, k, i)'
                 PROVE  /\ label'[n] = k
                        /\ target'[n] = NoLoop
                        /\ Filed(n, k, j)' => j = i
      BY DEF WaitsFiled
    <3>1. Filed(n, k, i) /\ index[k][i].depth # Len(open)
      BY <2>2
    <3>2. label[n] = k /\ target[n] = NoLoop /\ (Filed(n, k, j)' => j = i)
      BY <2>2, <3>1 DEF WaitsFiled
    <3>3. ~ (\E q \in Labels, p \in Nat : Filed(n, q, p) /\ index[q][p].depth = Len(open))
      <4> SUFFICES ASSUME NEW q \in Labels, NEW p \in Nat,
                          Filed(n, q, p), index[q][p].depth = Len(open)
                   PROVE  FALSE
        OBVIOUS
      <4>1. q = k
        BY <3>2 DEF WaitsFiled
      <4>2. p = i
        BY <3>1, <4>1 DEF WaitsFiled
      <4>3. QED
        BY <3>1, <4>1, <4>2
    <3>4. QED
      BY <2>1, <2>3, <3>2, <3>3
  <2>5. OnlyFiledTargeted'
    <3> SUFFICES ASSUME NEW n \in Nodes, label[n] \notin Labels
                 PROVE  target'[n] = NoLoop
      BY <2>1 DEF OnlyFiledTargeted
    <3>1. \A k \in Labels : \A i \in Nat : ~ Filed(n, k, i)
      BY DEF WaitsFiled
    <3>2. QED
      BY <2>3, <3>1 DEF OnlyFiledTargeted
  <2>6. QED
    BY <2>4, <2>5
<1>5. CASE Finish
  BY <1>5 DEF Finish, WaitsFiled, Filed, OnlyFiledTargeted
<1>6. CASE UNCHANGED vars
  BY <1>6 DEF vars, WaitsFiled, Filed, OnlyFiledTargeted
<1>7. QED
  BY <1>1, <1>2, <1>3, <1>4, <1>5, <1>6 DEF Next

LEMMA OpenLoopsStep ==
  ASSUME TypeOK, OpenLoopsBuilt, [Next]_vars
  PROVE  OpenLoopsBuilt'
<1>1. ASSUME NEW loop \in Loops, NEW l \in Labels, OpenLoop(loop, l)
      PROVE  OpenLoopsBuilt'
  <2> DEFINE f == [loop |-> loop, label |-> l]
  <2>1. /\ Len(open) \in Nat
        /\ Len(open') = Len(open) + 1
        /\ open'[Len(open) + 1] = f
        /\ \A d \in 1..Len(open) : open'[d] = open[d]
    <3>1. f \in Frame /\ open \in Seq(Frame)
      BY DEF Frame, TypeOK
    <3>2. QED
      BY <1>1, <3>1, PushProperties, LenProperties DEF OpenLoop
  <2>2. /\ built[loop] = Unseen
        /\ built' = [built EXCEPT ![loop] = l]
    BY <1>1 DEF OpenLoop
  <2>3. ASSUME NEW d \in 1..Len(open)
        PROVE  open[d].loop \in Loops /\ open[d].loop # loop
    <3>1. open[d] \in Frame
      BY ElementOfSeq DEF TypeOK
    <3>2. built[open[d].loop] \in Labels
      BY <3>1 DEF OpenLoopsBuilt, Frame
    <3>3. Unseen \notin Labels
      BY LoopControlConstants DEF Labels
    <3>4. QED
      BY <2>2, <3>1, <3>2, <3>3 DEF Frame
  <2>4. ASSUME NEW d \in 1..Len(open')
        PROVE  built'[open'[d].loop] = open'[d].label
    <3>1. CASE d = Len(open) + 1
      BY <2>1, <2>2, <3>1 DEF TypeOK
    <3>2. CASE d \in 1..Len(open)
      BY <2>1, <2>2, <2>3, <3>2 DEF TypeOK, OpenLoopsBuilt
    <3>3. QED
      BY <2>1, <3>1, <3>2
  <2>5. QED
    BY <2>4 DEF OpenLoopsBuilt
<1>2. CASE CloseLoop
  <2>1. /\ Len(open) \in Nat \ {0}
        /\ Len(open') = Len(open) - 1
        /\ \A d \in 1..(Len(open) - 1) : open'[d] = open[d]
        /\ built' = built
    BY <1>2, PopProperties DEF CloseLoop, TypeOK
  <2>2. \A d \in 1..(Len(open) - 1) : d \in 1..Len(open)
    BY <2>1
  <2>3. QED
    BY <2>1, <2>2 DEF OpenLoopsBuilt
<1>3. CASE UNCHANGED <<open, built>>
  BY <1>3 DEF OpenLoopsBuilt
<1>4. QED
  BY <1>1, <1>2, <1>3 DEF Next, vars, AddNode, AddDynamic, Finish

LEMMA EntriesStep ==
  ASSUME TypeOK, ScopesMirrorLoops, WaitsFiled, OnlyFiledTargeted,
         EmptyEntryExplained, [Next]_vars
  PROVE  EmptyEntryExplained'
<1>0. Unseen \notin Labels
  BY LoopControlConstants DEF Labels
<1>1. ASSUME NEW loop \in Loops, NEW l \in Labels, OpenLoop(loop, l)
      PROVE  EmptyEntryExplained'
  <2>1. ASSUME NEW k \in ScopesOf(l)
        PROVE  index'[k] # <<>>
    <3>1. k \in Labels /\ index[k] \in Seq(Scope) /\ Len(index[k]) \in Nat
      BY LenProperties DEF ScopesOf, Labels, TypeOK
    <3>2. NewScope(Len(open) + 1) \in Scope
      BY LenProperties DEF NewScope, Scope, TypeOK
    <3>3. Len(index'[k]) = Len(index[k]) + 1
      BY <1>1, <3>1, <3>2, PushProperties DEF OpenLoop
    <3>4. QED
      BY <3>1, <3>3, EmptySeq
  <2>2. \A k \in keys' \ ScopesOf(l) : k \in keys /\ index'[k] = index[k]
    BY <1>1 DEF OpenLoop, TypeOK
  <2>3. label' = label /\ target' = target
    BY <1>1 DEF OpenLoop
  <2>4. QED
    BY <2>1, <2>2, <2>3 DEF EmptyEntryExplained
<1>2. ASSUME NEW m \in Nodes, NEW l \in Labels, AddNode(m, l)
      PROVE  EmptyEntryExplained'
  <2>1. /\ label[m] = Unseen
        /\ \A n \in Nodes : label'[n] = IF n = m THEN l ELSE label[n]
        /\ target' = target /\ keys' = keys \union {l}
    BY <1>2 DEF AddNode, TypeOK
  <2>2. target[m] = NoLoop
    BY <1>0, <2>1 DEF OnlyFiledTargeted
  <2>3. \A k \in Labels \ {l} : index'[k] = index[k]
    BY <1>2 DEF AddNode, TypeOK
  <2>4. SUFFICES ASSUME NEW k \in keys', index'[k] = <<>>
                 PROVE  \E n \in Nodes : label'[n] = k /\ target'[n] = NoLoop
    BY DEF EmptyEntryExplained
  <2>5. CASE k = l
    BY <2>1, <2>2, <2>5
  <2>6. CASE k # l
    <3>1. PICK n \in Nodes : label[n] = k /\ target[n] = NoLoop
      BY <2>1, <2>3, <2>4, <2>6 DEF EmptyEntryExplained, TypeOK
    <3>2. n # m
      BY <1>0, <2>1, <2>6, <3>1 DEF TypeOK
    <3>3. QED
      BY <2>1, <3>1, <3>2
  <2>7. QED
    BY <2>5, <2>6
<1>3. ASSUME NEW m \in Nodes, AddDynamic(m)
      PROVE  EmptyEntryExplained'
  <2>1. /\ label[m] = Unseen
        /\ \A n \in Nodes \ {m} : label'[n] = label[n]
        /\ index' = index /\ target' = target /\ keys' = keys
    BY <1>3 DEF AddDynamic, TypeOK
  <2>2. \A k \in keys : k # Unseen
    BY <1>0 DEF TypeOK
  <2>3. QED
    BY <2>1, <2>2 DEF EmptyEntryExplained
<1>4. CASE CloseLoop
  <2> DEFINE popped == ScopesOf(Top(open).label)
  <2>1. /\ label' = label
        /\ keys' = keys \ {k \in popped : Len(index[k]) = 1}
        /\ open # <<>>
    BY <1>4 DEF CloseLoop
  <2>2. SUFFICES ASSUME NEW k \in keys', index'[k] = <<>>
                 PROVE  \E n \in Nodes : label'[n] = k /\ target'[n] = NoLoop
    BY DEF EmptyEntryExplained
  <2>3. k \in Labels /\ k \in keys
    BY <2>1 DEF TypeOK
  <2>4. k \notin popped
    <3> SUFFICES ASSUME k \in popped
                 PROVE  FALSE
      OBVIOUS
    <3>1. Answers(Top(open), k)
      BY DEF Answers, ScopesOf
    <3>2. index[k] # <<>> /\ index[k] \in Seq(Scope) /\ Len(index[k]) \in Nat \ {0}
      BY <2>1, <2>3, <3>1, TopScope
    <3>3. Len(index[k]) # 1
      BY <2>1
    <3>4. index'[k] = Pop(index[k])
      BY <1>4, <2>3 DEF CloseLoop
    <3>5. Len(index'[k]) = Len(index[k]) - 1
      BY <3>2, <3>4, PopProperties
    <3>6. QED
      BY <2>2, <3>2, <3>3, <3>5, EmptySeq
  <2>5. index[k] = <<>>
    BY <1>4, <2>2, <2>3, <2>4 DEF CloseLoop
  <2>6. PICK n \in Nodes : label[n] = k /\ target[n] = NoLoop
    BY <2>3, <2>5 DEF EmptyEntryExplained
  <2>7. \A q \in Labels : \A i \in Nat : ~ Filed(n, q, i)
    <3> SUFFICES ASSUME NEW q \in Labels, NEW i \in Nat, Filed(n, q, i)
                 PROVE  FALSE
      OBVIOUS
    <3>1. q = k
      BY <2>6 DEF WaitsFiled
    <3>2. QED
      BY <2>5, <3>1, EmptySeq DEF Filed
  <2>8. target'[n] = target[n]
    BY <1>4, <2>7, CloseResolves
  <2>9. QED
    BY <2>1, <2>6, <2>8
<1>5. CASE UNCHANGED <<index, keys, label, target>>
  BY <1>5 DEF EmptyEntryExplained
<1>6. QED
  BY <1>1, <1>2, <1>3, <1>4, <1>5 DEF Next, vars, Finish

LEMMA UnknownStep ==
  ASSUME TypeOK, ScopesMirrorLoops, OpenLoopsBuilt, UnknownLabelKept, [Next]_vars
  PROVE  UnknownLabelKept'
<1>1. ASSUME NEW loop \in Loops, NEW l \in Labels, OpenLoop(loop, l)
      PROVE  UnknownLabelKept'
  <2>1. /\ built[loop] = Unseen
        /\ built' = [built EXCEPT ![loop] = l]
        /\ keys \subseteq keys' /\ label' = label /\ target' = target
    BY <1>1 DEF OpenLoop
  <2>2. \A k : NeverBuilt(k)' => NeverBuilt(k)
    BY <2>1 DEF NeverBuilt, TypeOK
  <2>3. QED
    BY <2>1, <2>2 DEF UnknownLabelKept, Unresolved
<1>2. ASSUME NEW m \in Nodes, NEW l \in Labels, AddNode(m, l)
      PROVE  UnknownLabelKept'
  <2>1. /\ \A n \in Nodes : label'[n] = IF n = m THEN l ELSE label[n]
        /\ target' = target /\ keys' = keys \union {l} /\ built' = built
    BY <1>2 DEF AddNode, TypeOK
  <2>2. QED
    BY <2>1 DEF UnknownLabelKept, Unresolved, NeverBuilt
<1>3. ASSUME NEW m \in Nodes, AddDynamic(m)
      PROVE  UnknownLabelKept'
  <2>1. /\ \A n \in Nodes : label'[n] = IF n = m THEN Dynamic ELSE label[n]
        /\ target' = target /\ keys' = keys /\ built' = built
    BY <1>3 DEF AddDynamic, TypeOK
  <2>2. Dynamic \notin Labels
    BY LoopControlConstants DEF Labels
  <2>3. QED
    BY <2>1, <2>2 DEF UnknownLabelKept, Unresolved, NeverBuilt
<1>4. CASE CloseLoop
  <2>1. /\ open # <<>>
        /\ keys' = keys \ {k \in ScopesOf(Top(open).label) : Len(index[k]) = 1}
        /\ label' = label /\ built' = built
    BY <1>4 DEF CloseLoop
  <2>2. /\ Len(open) \in 1..Len(open)
        /\ Top(open) \in Frame
    BY <2>1, EmptySeq, ElementOfSeq DEF TypeOK, Top
  <2>3. built[Top(open).loop] = Top(open).label
    BY <2>2 DEF OpenLoopsBuilt, Top
  <2>4. Top(open).loop \in Loops /\ Top(open).label # Unseen
    BY <2>2, LoopControlConstants DEF Frame, Labels
  <2>5. SUFFICES ASSUME NEW n \in Nodes, Unresolved(n)', NeverBuilt(label[n])
                 PROVE  label[n] \in keys'
    BY <2>1 DEF UnknownLabelKept, NeverBuilt
  <2>6. label[n] \notin ScopesOf(Top(open).label)
    BY <2>3, <2>4, <2>5 DEF NeverBuilt, ScopesOf
  <2>7. target[n] = NoLoop
    BY <1>4, <2>4, <2>5, LoopControlConstants DEF CloseLoop, Unresolved
  <2>8. QED
    BY <2>1, <2>5, <2>6, <2>7 DEF UnknownLabelKept, Unresolved
<1>5. CASE UNCHANGED <<keys, built, label, target>>
  BY <1>5 DEF UnknownLabelKept, Unresolved, NeverBuilt
<1>6. QED
  BY <1>1, <1>2, <1>3, <1>4, <1>5 DEF Next, vars, Finish

LEMMA WarningStep ==
  ASSUME WarningSettled, [Next]_vars
  PROVE  WarningSettled'
<1>1. ASSUME phase = "build", phase' = phase, warned' = warned
      PROVE  WarningSettled'
  BY <1>1 DEF WarningSettled
<1>2. CASE Finish
  BY <1>2 DEF Finish, WarningSettled
<1>3. CASE UNCHANGED vars
  BY <1>3 DEF vars, WarningSettled
<1>4. CASE CloseLoop
  BY <1>1, <1>4 DEF CloseLoop
<1>5. ASSUME NEW loop \in Loops, NEW l \in Labels, OpenLoop(loop, l)
      PROVE  WarningSettled'
  BY <1>1, <1>5 DEF OpenLoop
<1>6. ASSUME NEW n \in Nodes, NEW l \in Labels, AddNode(n, l)
      PROVE  WarningSettled'
  BY <1>1, <1>6 DEF AddNode
<1>7. ASSUME NEW n \in Nodes, AddDynamic(n)
      PROVE  WarningSettled'
  BY <1>1, <1>7 DEF AddDynamic
<1>8. QED
  BY <1>2, <1>3, <1>4, <1>5, <1>6, <1>7 DEF Next

LEMMA InvariantStep == IInv /\ [Next]_vars => IInv'
<1> SUFFICES ASSUME IInv, [Next]_vars
             PROVE  IInv'
  OBVIOUS
<1>1. TypeOK' /\ ScopesMirrorLoops'
  BY TypeStep, MirrorStep DEF IInv
<1>2. WaitsFiled
  BY WaitsOnceAsFiled DEF IInv
<1>3. WaitsFiled' /\ OnlyFiledTargeted'
  BY <1>2, WaitsStep DEF IInv
<1>4. WaitsOnce'
  <2>1. \A l \in Labels : index'[l] \in Seq(Scope) /\ Len(index'[l]) \in Nat
    BY <1>1, LenProperties DEF TypeOK
  <2>2. ASSUME NEW l \in Labels, NEW i \in 1..Len(index'[l])
        PROVE  i \in Nat /\ index'[l][i].nodes \subseteq Nodes
    <3>1. index'[l][i] \in Scope
      BY <2>1, ElementOfSeq
    <3>2. QED
      BY <2>1, <3>1 DEF Scope
  <2>3. QED
    BY <1>3, <2>2 DEF WaitsOnce, WaitsFiled, Filed
<1>5. OpenLoopsBuilt' /\ UnknownLabelKept'
  BY OpenLoopsStep, UnknownStep DEF IInv
<1>6. EmptyEntryExplained' /\ WarningSettled'
  BY <1>2, EntriesStep, WarningStep DEF IInv
<1>7. QED
  BY <1>1, <1>3, <1>4, <1>5, <1>6 DEF IInv

\* The tracker's inductive invariant.
THEOREM InvariantCorrect == Spec => []IInv
<1>1. Init => IInv
  <2> SUFFICES ASSUME Init
               PROVE  IInv
    OBVIOUS
  <2>1. TypeOK
    BY EmptySeq DEF Init, TypeOK, Labels
  <2>2. ScopesMirrorLoops /\ WaitsOnce /\ OpenLoopsBuilt
    BY EmptySeq DEF Init, ScopesMirrorLoops, WaitsOnce, OpenLoopsBuilt
  <2>3. Unseen \notin Labels
    BY LoopControlConstants DEF Labels
  <2>4. OnlyFiledTargeted /\ EmptyEntryExplained /\ UnknownLabelKept /\ WarningSettled
    BY <2>3 DEF Init, OnlyFiledTargeted, EmptyEntryExplained, UnknownLabelKept,
                Unresolved, WarningSettled
  <2>5. QED
    BY <2>1, <2>2, <2>4 DEF IInv
<1>2. QED
  BY <1>1, InvariantStep, PTL DEF Spec

\* A statement waits in one scope, of its own label, and is resolved once.
THEOREM WaitsOnceCorrect == Spec => []WaitsOnce
<1>1. IInv => WaitsOnce
  BY DEF IInv
<1>2. QED
  BY <1>1, InvariantCorrect, PTL

\* pj_find_jit_candidates warns only of a statement that has no jump target.
THEOREM WarningSound == Spec => []WarningJustified
<1>1. IInv => WarningJustified
  <2> SUFFICES ASSUME IInv, warned
               PROVE  \E n \in Nodes : Unresolved(n)
    BY DEF WarningJustified
  <2>1. open = <<>> /\ keys # {}
    BY DEF IInv, TypeOK, WarningSettled
  <2>2. PICK l \in keys : TRUE
    BY <2>1
  <2>3. l \in Labels /\ index[l] \in Seq(Scope)
    BY DEF IInv, TypeOK
  <2>4. index[l] = <<>>
    <3>1. Len(index[l]) \in Nat /\ Len(open) = 0
      BY <2>1, <2>3, LenProperties, EmptySeq
    <3>2. \A i \in 1..Len(index[l]) : index[l][i].depth \in 1..0
      BY <2>3, <3>1 DEF IInv, ScopesMirrorLoops
    <3>3. Len(index[l]) = 0
      <4> SUFFICES ASSUME Len(index[l]) # 0
                   PROVE  FALSE
        OBVIOUS
      <4>1. 1 \in 1..Len(index[l])
        BY <3>1
      <4>2. QED
        BY <3>2, <4>1
    <3>4. QED
      BY <2>3, <3>3, EmptySeq
  <2>5. PICK n \in Nodes : label[n] = l /\ target[n] = NoLoop
    BY <2>2, <2>4 DEF IInv, EmptyEntryExplained
  <2>6. QED
    BY <2>3, <2>5 DEF Unresolved
<1>2. QED
  BY <1>1, InvariantCorrect, PTL

\* A statement whose label no loop of the sub carries is always reported.
THEOREM UnknownLabelsReported == Spec => []UnknownLabelWarned
<1>1. IInv => UnknownLabelWarned
  BY DEF IInv, UnknownLabelWarned, UnknownLabelKept, WarningSettled
<1>2. QED
  BY <1>1, InvariantCorrect, PTL

-----------------------------------------------------------------------------
(* LoopControl implements LoopTargets: resolving a loop control statement  *)
(* when its loop closes gives the target lexical scoping gives it where it *)
(* stands.  The refinement mapping sends a statement that waits in a scope *)
(* to the loop that pushed the scope.                                      *)

\* The mapped target: the owner of the scope a statement waits in, or the
\* jump target it already has.
DestFacts ==
  \A n \in Nodes :
    /\ \A k \in Labels : \A i \in Nat :
         Filed(n, k, i) => Dest(n) = open[index[k][i].depth].loop
    /\ (\A k \in Labels : \A i \in Nat : ~ Filed(n, k, i)) => Dest(n) = target[n]

LEMMA DestCharacterised ==
  TypeOK /\ ScopesMirrorLoops /\ WaitsFiled => DestFacts
<1> SUFFICES ASSUME TypeOK, ScopesMirrorLoops, WaitsFiled, NEW n \in Nodes
             PROVE  /\ \A k \in Labels : \A i \in Nat :
                         Filed(n, k, i) => Dest(n) = open[index[k][i].depth].loop
                    /\ (\A k \in Labels : \A i \in Nat : ~ Filed(n, k, i))
                         => Dest(n) = target[n]
  BY DEF DestFacts
<1>1. \A k \in Labels : \A i \in 1..Len(index[k]) : i \in Nat
  BY LenProperties DEF TypeOK
<1>2. ASSUME NEW k \in Labels, NEW i \in Nat, Filed(n, k, i)
      PROVE  Dest(n) = open[index[k][i].depth].loop
  <2>1. index[k][i].depth \in WaitingFor(n)
    BY <1>2 DEF WaitingFor, Filed, ScopesMirrorLoops
  <2>2. ASSUME NEW e \in WaitingFor(n)
        PROVE  e = index[k][i].depth
    <3>1. PICK q \in Labels : \E p \in 1..Len(index[q]) :
            n \in index[q][p].nodes /\ index[q][p].depth = e
      BY DEF WaitingFor
    <3>2. PICK p \in 1..Len(index[q]) : n \in index[q][p].nodes /\ index[q][p].depth = e
      BY <3>1
    <3>3. Filed(n, q, p) /\ p \in Nat
      BY <1>1, <3>2 DEF Filed
    <3>4. q = k
      BY <1>2, <3>3 DEF WaitsFiled
    <3>5. p = i
      BY <1>2, <3>3, <3>4 DEF WaitsFiled
    <3>6. QED
      BY <3>2, <3>4, <3>5
  <2>3. (CHOOSE d \in WaitingFor(n) : TRUE) \in WaitingFor(n)
    BY <2>1
  <2>4. QED
    BY <2>1, <2>2, <2>3 DEF Dest
<1>3. ASSUME \A k \in Labels : \A i \in Nat : ~ Filed(n, k, i)
      PROVE  Dest(n) = target[n]
  <2>1. WaitingFor(n) = {}
    BY <1>1, <1>3 DEF WaitingFor, Filed
  <2>2. QED
    BY <2>1 DEF Dest
<1>4. QED
  BY <1>2, <1>3

\* The facts a step of an invariant state gives about the mapped targets.
LEMMA DestAcrossStep ==
  ASSUME IInv, [Next]_vars
  PROVE  /\ TypeOK /\ ScopesMirrorLoops /\ WaitsFiled /\ DestFacts
         /\ TypeOK' /\ ScopesMirrorLoops' /\ WaitsFiled' /\ DestFacts'
<1>1. TypeOK /\ ScopesMirrorLoops /\ WaitsFiled
  BY WaitsOnceAsFiled DEF IInv
<1>2. TypeOK' /\ ScopesMirrorLoops' /\ WaitsFiled'
  BY <1>1, TypeStep, MirrorStep, WaitsStep DEF IInv
<1>3. (TypeOK /\ ScopesMirrorLoops /\ WaitsFiled => DestFacts)'
  BY DestCharacterised, PTL
<1>4. QED
  BY <1>1, <1>2, <1>3, DestCharacterised

LEMMA OpenMaps ==
  ASSUME IInv, NEW loop \in Loops, NEW l \in Labels, OpenLoop(loop, l)
  PROVE  Targets!Enter(loop, l)
<1>1. /\ TypeOK /\ ScopesMirrorLoops /\ WaitsFiled /\ DestFacts
      /\ TypeOK' /\ ScopesMirrorLoops' /\ WaitsFiled' /\ DestFacts'
  BY DestAcrossStep DEF Next
<1>2. \A d \in 1..Len(open) : open'[d] = open[d]
  <2>1. [loop |-> loop, label |-> l] \in Frame /\ open \in Seq(Frame)
    BY <1>1 DEF Frame, TypeOK
  <2>2. QED
    BY <2>1, PushProperties DEF OpenLoop
<1>3. ASSUME NEW n \in Nodes
      PROVE  Dest(n)' = Dest(n)
  <2>1. \A k \in Labels : \A i \in Nat :
          /\ Filed(n, k, i)' <=> Filed(n, k, i)
          /\ Filed(n, k, i) => index'[k][i].depth = index[k][i].depth
    BY <1>1, OpenMovesNobody
  <2>2. CASE \E k \in Labels : \E i \in Nat : Filed(n, k, i)
    <3>1. PICK k \in Labels : \E i \in Nat : Filed(n, k, i)
      BY <2>2
    <3>2. PICK i \in Nat : Filed(n, k, i)
      BY <3>1
    <3>3. index[k][i].depth \in 1..Len(open)
      BY <1>1, <3>2 DEF Filed, ScopesMirrorLoops
    <3>4. Dest(n) = open[index[k][i].depth].loop
      BY <1>1, <3>2 DEF DestFacts
    <3>5. Dest(n)' = open'[index'[k][i].depth].loop
      BY <1>1, <2>1, <3>2 DEF DestFacts
    <3>6. QED
      BY <1>2, <2>1, <3>2, <3>3, <3>4, <3>5
  <2>3. CASE ~ \E k \in Labels : \E i \in Nat : Filed(n, k, i)
    <3>1. Dest(n) = target[n]
      BY <1>1, <2>3 DEF DestFacts
    <3>2. Dest(n)' = target'[n]
      BY <1>1, <2>1, <2>3 DEF DestFacts
    <3>3. QED
      BY <3>1, <3>2 DEF OpenLoop
  <2>4. QED
    BY <2>2, <2>3
<1>4. QED
  BY <1>3 DEF Targets!Enter, OpenLoop

LEMMA AddMaps ==
  ASSUME IInv, NEW m \in Nodes, NEW l \in Labels, AddNode(m, l)
  PROVE  Targets!Jump(m, l)
<1>1. /\ TypeOK /\ ScopesMirrorLoops /\ WaitsFiled /\ DestFacts
      /\ TypeOK' /\ ScopesMirrorLoops' /\ WaitsFiled' /\ DestFacts'
  BY DestAcrossStep DEF Next
<1>2. /\ open' = open /\ target' = target
      /\ label[m] = Unseen
  BY DEF AddNode
<1>3. \A n \in Nodes, k \in Labels : \A i \in Nat :
        /\ Filed(n, k, i)' <=> \/ Filed(n, k, i)
                              \/ (n = m /\ k = l /\ index[l] # <<>> /\ i = Len(index[l]))
        /\ Filed(n, k, i)' => index'[k][i].depth = index[k][i].depth
  BY <1>1, AddFiles
<1>4. \A k \in Labels : \A i \in Nat : ~ Filed(m, k, i)
  BY <1>1, <1>2, LoopControlConstants DEF WaitsFiled, Labels
<1>5. ASSUME NEW n \in Nodes, n # m \/ index[l] = <<>>
      PROVE  Dest(n)' = Dest(n)
  <2>1. \A k \in Labels : \A i \in Nat : Filed(n, k, i)' <=> Filed(n, k, i)
    BY <1>3, <1>5
  <2>2. CASE \E k \in Labels : \E i \in Nat : Filed(n, k, i)
    <3>1. PICK k \in Labels : \E i \in Nat : Filed(n, k, i)
      BY <2>2
    <3>2. PICK i \in Nat : Filed(n, k, i)
      BY <3>1
    <3>3. Dest(n) = open[index[k][i].depth].loop
      BY <1>1, <3>2 DEF DestFacts
    <3>4. Dest(n)' = open'[index'[k][i].depth].loop
      BY <1>1, <2>1, <3>2 DEF DestFacts
    <3>5. QED
      BY <1>2, <1>3, <2>1, <3>2, <3>3, <3>4
  <2>3. CASE ~ \E k \in Labels : \E i \in Nat : Filed(n, k, i)
    <3>1. Dest(n) = target[n]
      BY <1>1, <2>3 DEF DestFacts
    <3>2. Dest(n)' = target'[n]
      BY <1>1, <2>1, <2>3 DEF DestFacts
    <3>3. QED
      BY <1>2, <3>1, <3>2
  <2>4. QED
    BY <2>2, <2>3
<1>6. index[l] \in Seq(Scope) /\ Len(index[l]) \in Nat
  BY <1>1, LenProperties DEF TypeOK
<1>7. CASE index[l] = <<>>
  <2>1. Targets!Enclosing(l) = {}
    <3>1. Len(index[l]) = 0
      BY <1>7, EmptySeq
    <3>2. \A d \in 1..Len(open) : ~ Answers(open[d], l)
      BY <1>1, <3>1 DEF ScopesMirrorLoops
    <3>3. QED
      BY <3>2 DEF Targets!Enclosing, Targets!Answers, Answers
  <2>2. [n \in Nodes |-> Dest(n)]' = [n \in Nodes |-> Dest(n)]
    BY <1>5, <1>7
  <2>3. QED
    BY <1>2, <2>1, <2>2 DEF Targets!Jump, AddNode
<1>8. CASE index[l] # <<>>
  <2> DEFINE t == Len(index[l])
             D == index[l][t].depth
  <2>1. t \in 1..Len(index[l]) /\ t \in Nat
    BY <1>6, <1>8, EmptySeq
  <2>2. D \in 1..Len(open) /\ Answers(open[D], l)
    BY <1>1, <2>1 DEF ScopesMirrorLoops
  <2>3. D \in Targets!Enclosing(l)
    BY <2>2 DEF Targets!Enclosing, Targets!Answers, Answers
  <2>4. \A e \in Targets!Enclosing(l) : e <= D
    <3> SUFFICES ASSUME NEW e \in Targets!Enclosing(l)
                 PROVE  e <= D
      OBVIOUS
    <3>1. e \in 1..Len(open) /\ Answers(open[e], l)
      BY DEF Targets!Enclosing, Targets!Answers, Answers
    <3>2. PICK i \in 1..Len(index[l]) : index[l][i].depth = e
      BY <1>1, <3>1 DEF ScopesMirrorLoops
    <3>3. CASE i = t
      BY <2>2, <3>2, <3>3
    <3>4. CASE i # t
      <4>1. i < t
        BY <1>6, <3>4
      <4>2. e < D
        BY <1>1, <2>1, <3>2, <4>1 DEF ScopesMirrorLoops
      <4>3. Len(open) \in Nat
        BY <1>1, LenProperties DEF TypeOK
      <4>4. QED
        BY <2>2, <3>1, <4>2, <4>3
    <3>5. QED
      BY <3>3, <3>4
  <2>5. Targets!Innermost(l) = D
    <3> DEFINE c == Targets!Innermost(l)
    <3>1. c \in Targets!Enclosing(l) /\ \A e \in Targets!Enclosing(l) : e <= c
      BY <2>3, <2>4 DEF Targets!Innermost
    <3>2. c <= D /\ D <= c
      BY <2>3, <2>4, <3>1
    <3>3. Len(open) \in Nat /\ c \in 1..Len(open)
      BY <1>1, <3>1, LenProperties DEF TypeOK, Targets!Enclosing
    <3>4. QED
      BY <2>2, <3>2, <3>3
  <2>6. PICK i \in Nat : i = t
    BY <2>1
  <2>7. Dest(m)' = open[D].loop
    <3>1. Filed(m, l, i)' /\ index'[l][i].depth = D
      BY <1>3, <1>8, <2>6
    <3>2. Dest(m)' = open'[index'[l][i].depth].loop
      BY <1>1, <3>1 DEF DestFacts
    <3>3. QED
      BY <1>2, <3>1, <3>2
  <2>8. [n \in Nodes |-> Dest(n)]' =
          [[n \in Nodes |-> Dest(n)] EXCEPT ![m] = open[Targets!Innermost(l)].loop]
    BY <1>5, <2>5, <2>7
  <2>9. QED
    BY <1>2, <2>3, <2>8 DEF Targets!Jump, AddNode
<1>9. QED
  BY <1>7, <1>8

LEMMA DynamicMaps ==
  ASSUME IInv, NEW m \in Nodes, AddDynamic(m)
  PROVE  Targets!DynamicJump(m)
<1>1. open' = open /\ index' = index /\ target' = target
  BY DEF AddDynamic
<1>2. \A n \in Nodes : Dest(n)' = Dest(n)
  BY <1>1 DEF Dest, WaitingFor
<1>3. QED
  BY <1>2 DEF Targets!DynamicJump, AddDynamic

LEMMA CloseMaps ==
  ASSUME IInv, CloseLoop
  PROVE  Targets!Leave
<1>1. /\ TypeOK /\ ScopesMirrorLoops /\ WaitsFiled /\ DestFacts
      /\ TypeOK' /\ ScopesMirrorLoops' /\ WaitsFiled' /\ DestFacts'
  BY DestAcrossStep DEF Next
<1>2. /\ open # <<>>
      /\ Len(open) \in Nat \ {0}
      /\ \A d \in 1..(Len(open) - 1) : open'[d] = open[d]
  BY <1>1, PopProperties DEF CloseLoop, TypeOK
<1>3. \A n \in Nodes, k \in Labels : \A i \in Nat :
        /\ Filed(n, k, i)' <=> (Filed(n, k, i) /\ index[k][i].depth # Len(open))
        /\ Filed(n, k, i)' => index'[k][i].depth = index[k][i].depth
  BY <1>1, CloseDrops
<1>4. ASSUME NEW n \in Nodes
      PROVE  Dest(n)' = Dest(n)
  <2>1. CASE \E k \in Labels : \E i \in Nat :
               Filed(n, k, i) /\ index[k][i].depth = Len(open)
    <3>1. PICK k \in Labels : \E i \in Nat :
            Filed(n, k, i) /\ index[k][i].depth = Len(open)
      BY <2>1
    <3>2. PICK i \in Nat : Filed(n, k, i) /\ index[k][i].depth = Len(open)
      BY <3>1
    <3>3. target'[n] = Top(open).loop
      BY <1>1, <3>2, CloseResolves
    <3>4. \A q \in Labels : \A p \in Nat : ~ Filed(n, q, p)'
      <4> SUFFICES ASSUME NEW q \in Labels, NEW p \in Nat, Filed(n, q, p)'
                   PROVE  FALSE
        OBVIOUS
      <4>1. Filed(n, q, p) /\ index[q][p].depth # Len(open)
        BY <1>3
      <4>2. q = k
        BY <1>1, <3>2, <4>1 DEF WaitsFiled
      <4>3. p = i
        BY <1>1, <3>2, <4>1, <4>2 DEF WaitsFiled
      <4>4. QED
        BY <3>2, <4>1, <4>2, <4>3
    <3>5. Dest(n)' = target'[n]
      BY <1>1, <3>4 DEF DestFacts
    <3>6. Dest(n) = open[Len(open)].loop
      BY <1>1, <3>2 DEF DestFacts
    <3>7. QED
      BY <3>3, <3>5, <3>6 DEF Top
  <2>2. CASE \E k \in Labels : \E i \in Nat :
               Filed(n, k, i) /\ index[k][i].depth # Len(open)
    <3>1. PICK k \in Labels : \E i \in Nat :
            Filed(n, k, i) /\ index[k][i].depth # Len(open)
      BY <2>2
    <3>2. PICK i \in Nat : Filed(n, k, i) /\ index[k][i].depth # Len(open)
      BY <3>1
    <3>3. index[k][i].depth \in 1..(Len(open) - 1)
      BY <1>1, <1>2, <3>2 DEF Filed, ScopesMirrorLoops
    <3>4. Dest(n) = open[index[k][i].depth].loop
      BY <1>1, <3>2 DEF DestFacts
    <3>5. Filed(n, k, i)' /\ index'[k][i].depth = index[k][i].depth
      BY <1>3, <3>2
    <3>6. Dest(n)' = open'[index'[k][i].depth].loop
      BY <1>1, <3>5 DEF DestFacts
    <3>7. QED
      BY <1>2, <3>3, <3>4, <3>5, <3>6
  <2>3. CASE ~ \E k \in Labels : \E i \in Nat : Filed(n, k, i)
    <3>1. target'[n] = target[n]
      BY <1>1, <2>3, CloseResolves
    <3>2. Dest(n) = target[n]
      BY <1>1, <2>3 DEF DestFacts
    <3>3. Dest(n)' = target'[n]
      BY <1>1, <1>3, <2>3 DEF DestFacts
    <3>4. QED
      BY <3>1, <3>2, <3>3
  <2>4. QED
    BY <2>1, <2>2, <2>3
<1>5. QED
  BY <1>2, <1>4 DEF Targets!Leave, CloseLoop, Pop

\* LoopCtlTracker resolves lexically: each step of LoopControl is a step of
\* LoopTargets under the mapping, or leaves what LoopTargets sees alone.
THEOREM ResolutionIsLexical == Spec => ResolvesLexically
<1>1. Init => Targets!Init
  <2> SUFFICES ASSUME Init
               PROVE  Targets!Init
    OBVIOUS
  <2>1. \A n \in Nodes : WaitingFor(n) = {}
    BY EmptySeq DEF Init, WaitingFor
  <2>2. \A n \in Nodes : Dest(n) = NoLoop
    BY <2>1 DEF Init, Dest
  <2>3. QED
    BY <2>2 DEF Init, Targets!Init
<1>2. IInv /\ [Next]_vars => [Targets!Next]_(Targets!lvars)
  <2> SUFFICES ASSUME IInv, [Next]_vars
               PROVE  [Targets!Next]_(Targets!lvars)
    OBVIOUS
  <2>1. ASSUME NEW loop \in Loops, NEW l \in Labels, OpenLoop(loop, l)
        PROVE  Targets!Next
    BY <2>1, OpenMaps DEF Targets!Next, Targets!Labels, Labels
  <2>2. ASSUME NEW n \in Nodes, NEW l \in Labels, AddNode(n, l)
        PROVE  Targets!Next
    BY <2>2, AddMaps DEF Targets!Next, Targets!Labels, Labels
  <2>3. ASSUME NEW n \in Nodes, AddDynamic(n)
        PROVE  Targets!Next
    BY <2>3, DynamicMaps DEF Targets!Next
  <2>4. CASE CloseLoop
    BY <2>4, CloseMaps DEF Targets!Next
  <2>5. CASE Finish \/ UNCHANGED vars
    <3>1. UNCHANGED <<open, index, label, target>>
      BY <2>5 DEF Finish, vars
    <3>2. \A n \in Nodes : Dest(n)' = Dest(n)
      BY <3>1 DEF Dest, WaitingFor
    <3>3. [n \in Nodes |-> Dest(n)]' = [n \in Nodes |-> Dest(n)]
      BY <3>2
    <3>4. QED
      BY <3>1, <3>3 DEF Targets!lvars
  <2>6. QED
    BY <2>1, <2>2, <2>3, <2>4, <2>5 DEF Next
<1>3. QED
  BY <1>1, <1>2, InvariantCorrect, PTL DEF Spec, ResolvesLexically, Targets!Spec
=============================================================================
