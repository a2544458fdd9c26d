---------------------- MODULE TypedDeclarations_proofs ----------------------
(***************************************************************************)
(* Theorems about TypedDeclarations, for any variables, types, searches    *)
(* and depth of nesting: a type of the map has exactly one owner in it and *)
(* is alive until the sub goes, nothing is deleted twice unless a          *)
(* declaration term was deleted, and a type leaks, and a declared type is  *)
(* overruled, only where a declaration stands in the initializer of        *)
(* another one.                                                            *)
(*                                                                         *)
(* IInv is inductive.  OwnerKept rests on FramesWhole: the tree of a call  *)
(* contains all the entries of an earlier declaration or none.  FramesWhole*)
(* rests on FramesApart and FramesFresh, which say that the calls on the   *)
(* stack have trees, loop variables and types of their own.                *)
(*                                                                         *)
(* NestingInv is inductive beside it.  What the end of a declaration       *)
(* overwrites are entries in its own tree, which EntriesNested says were   *)
(* made for nested declarations, and the variable of a typed loop has no   *)
(* entry before (FramesFresh).  A variable without a type in the tree of a *)
(* declaration is none of its names and stood in an initializer: with      *)
(* UntypedInner, SaidUnlessNested speaks of untyped variables too.         *)
(***************************************************************************)
EXTENDS TypedDeclarations, SequenceTheorems, TLAPS

\* The call that parses, and a frame it gets: what either looks like.
LEMMA TopFrame ==
  ASSUME parse \in Seq(Frame), parse # <<>>
  PROVE  /\ Len(parse) \in Frames
         /\ Len(parse) \in Nat \ {0}
         /\ Top = parse[Len(parse)]
         /\ Top.type \in Types
         /\ Top.loop \in Pads \union {NoPad}
         /\ Top.ops \subseteq Pads
         /\ Top.named \in BOOLEAN
<1>1. Len(parse) \in Nat \ {0}
  BY EmptySeq
<1>2. Top \in Frame /\ Top = parse[Len(parse)]
  BY <1>1 DEF Top
<1> QED BY <1>1, <1>2 DEF Frames, Frame

LEMMA FrameFields ==
  ASSUME parse \in Seq(Frame), NEW i \in Frames
  PROVE  /\ parse[i].type \in Types
         /\ parse[i].loop \in Pads \union {NoPad}
         /\ parse[i].ops \subseteq Pads
         /\ parse[i].named \in BOOLEAN
<1>1. parse[i] \in Frame
  BY ElementOfSeq DEF Frames
<1> QED BY <1>1 DEF Frame

\* What is left when the parser returns: the frames below, the last of which has
\* the declarations of the one that ended.
LEMMA ReturnedFrames ==
  ASSUME parse \in Seq(Frame), parse # <<>>
  PROVE  /\ Returned \in Seq(Frame)
         /\ Len(Returned) = Len(parse) - 1
         /\ \A i \in 1..Len(Returned) :
              /\ i \in Frames /\ i # Len(parse)
              /\ Returned[i].type = parse[i].type
              /\ Returned[i].loop = parse[i].loop
              /\ Returned[i].named = parse[i].named
              /\ Returned[i].ops = IF i = Len(parse) - 1 THEN parse[i].ops \union Top.ops
                                   ELSE parse[i].ops
<1>1. /\ Len(parse) \in Nat \ {0}
      /\ Top.ops \subseteq Pads
  BY TopFrame
<1>2. CASE Len(parse) = 1
  <2>1. Returned = <<>>
    BY <1>2 DEF Returned
  <2> QED BY <2>1, <1>2
<1>3. CASE Len(parse) # 1
  <2> DEFINE joined(n) == [type |-> parse[n].type, loop |-> parse[n].loop,
                           ops |-> parse[n].ops \union Top.ops, named |-> parse[n].named]
  <2>1. PICK n \in Nat \ {0} : n = Len(parse) - 1
    <3>1. Len(parse) - 1 \in Nat \ {0}
      BY <1>1, <1>3
    <3> QED BY <3>1
  <2>2. n \in 1..n /\ n \in Frames /\ \A i \in 1..n : i \in Frames /\ i # Len(parse)
    BY <1>1, <2>1 DEF Frames
  <2>3. /\ Rest \in Seq(Frame)
        /\ Len(Rest) = n
        /\ \A i \in 1..n : Rest[i] = parse[i]
    <3>1. \A i \in 1..n : parse[i] \in Frame
      BY <2>2, ElementOfSeq DEF Frames
    <3>2. Rest = SubSeq(parse, 1, n)
      BY <2>1 DEF Rest
    <3>3. /\ SubSeq(parse, 1, n) \in Seq(Frame)
          /\ Len(SubSeq(parse, 1, n)) = n
      BY <2>1, <3>1, SubSeqProperties
    <3>4. \A i \in 1..n : SubSeq(parse, 1, n)[i] = parse[i]
      BY <2>1
    <3> QED BY <3>2, <3>3, <3>4
  <2>4. joined(n) \in Frame
    BY <1>1, <2>2, FrameFields DEF Frame
  <2>5. Returned = [Rest EXCEPT ![n] = joined(n)]
    BY <1>3, <2>1, <2>2, <2>3 DEF Returned
  <2> HIDE DEF joined
  <2>6. /\ Returned \in Seq(Frame)
        /\ Len(Returned) = n
        /\ \A i \in 1..n : Returned[i] = IF i = n THEN joined(n) ELSE Rest[i]
    BY <2>2, <2>3, <2>4, <2>5, ExceptSeq
  <2>7. \A i \in 1..n : i # n => Returned[i] = parse[i]
    BY <2>3, <2>6
  <2>8. Returned[n] = joined(n)
    BY <2>2, <2>6
  <2>9. \A i \in 1..n :
          /\ Returned[i].type = parse[i].type
          /\ Returned[i].loop = parse[i].loop
          /\ Returned[i].named = parse[i].named
          /\ Returned[i].ops = IF i = n THEN parse[i].ops \union Top.ops ELSE parse[i].ops
    <3> TAKE i \in 1..n
    <3>1. CASE i = n
      BY <2>8, <3>1 DEF joined
    <3>2. CASE i # n
      BY <2>7, <3>2
    <3> QED BY <3>1, <3>2
  <2> QED BY <2>1, <2>2, <2>6, <2>9
<1> QED BY <1>1, <1>2, <1>3

\* A new call.
LEMMA AppendedFrames ==
  ASSUME parse \in Seq(Frame), NEW f \in Frame
  PROVE  /\ Append(parse, f) \in Seq(Frame)
         /\ Len(Append(parse, f)) = Len(parse) + 1
         /\ \A i \in 1..Len(Append(parse, f)) :
              \/ i \in Frames /\ Append(parse, f)[i] = parse[i]
              \/ i = Len(parse) + 1 /\ i \notin Frames /\ Append(parse, f)[i] = f
         /\ \A i \in Frames : i \in 1..Len(Append(parse, f)) /\ Append(parse, f)[i] = parse[i]
BY DEF Frames
-----------------------------------------------------------------------------
(* The start of a call, and what perl parses inside.                       *)

LEMMA InitInvariant == Init => IInv
<1> SUFFICES ASSUME Init PROVE IInv
  OBVIOUS
<1>1. /\ parse \in Seq(Frame) /\ Frames = {}
  BY EmptySeq DEF Init, Frames
<1>2. \A p \in Pads : decl_map[p] = NoEntry
  BY DEF Init
<1>3. TypeOK
  <2>1. decl_map \in [Pads -> Entry]
    BY DEF Init, Entry, NoEntry
  <2>2. variables \in [Searches -> [Pads -> Term]]
    BY DEF Init, Term, NoTerm
  <2>3. \A s \in Searches, p \in Pads : variables[s][p].state = "none"
    BY DEF Init, NoTerm
  <2> QED BY <1>1, <1>2, <2>1, <2>2, <2>3 DEF Init, TypeOK, NoEntry
<1>4. OneOwner /\ OwnerKept /\ MapLive
  BY <1>2, TypedConstants DEF OneOwner, OwnerKept, MapLive, Owners, NoEntry
<1>5. DeletedOnce
  BY DEF Init, DeletedOnce
<1>6. FramesWhole /\ FramesApart /\ FramesFresh
  BY <1>1 DEF FramesWhole, FramesApart, FramesFresh
<1>7. UnbornUnknown
  BY <1>1, <1>2, TypedConstants DEF UnbornUnknown, NoEntry
<1> QED BY <1>3, <1>4, <1>5, <1>6, <1>7 DEF IInv

\* A new call: its type was unborn and is in no entry, the variable of a loop
\* is new.
LEMMA BeginKeeps ==
  ASSUME IInv, NEW t \in Types, NEW loop \in Pads \union {NoPad}, NEW named \in BOOLEAN,
         Begin(t, loop, named),
         loop # NoPad => ~ named,
         IF loop = NoPad THEN met' = met /\ said' = said
         ELSE loop \notin met /\ met' = met \union {loop}
              /\ said' = [said EXCEPT ![loop] = t]
  PROVE  IInv'
<1> DEFINE f == [type |-> t, loop |-> loop, ops |-> {}, named |-> named]
<1>1. /\ parse' = Append(parse, f)
      /\ heap' = [heap EXCEPT ![t] = "live"]
      /\ heap[t] = "unborn" /\ phase = "parse"
      /\ UNCHANGED <<decl_map, variables, phase, twice, crashed, inner>>
  BY DEF Begin, Parsing
<1>2. f \in Frame
  BY DEF Frame
<1>3. TypeOK
  BY DEF IInv
<1>4. parse \in Seq(Frame)
  BY <1>3 DEF TypeOK
<1>5. /\ parse' \in Seq(Frame)
      /\ Frames' = Frames \union {Len(parse) + 1}
      /\ Len(parse) + 1 \notin Frames
      /\ \A i \in Frames : parse'[i] = parse[i]
      /\ parse'[Len(parse) + 1] = f
  BY <1>1, <1>2, <1>4, LenProperties DEF Frames
<1> DEFINE k == Len(parse) + 1
<1>6. f.type = t /\ f.loop = loop /\ f.ops = {} /\ f.named = named
  OBVIOUS
<1> HIDE DEF f, k
<1>7. /\ \A i \in Frames' : (i \in Frames /\ parse'[i] = parse[i]) \/ (i = k /\ parse'[i] = f)
      /\ k \notin Frames
  BY <1>5 DEF k
<1>8. met \subseteq met' /\ (loop # NoPad => loop \in met' /\ loop \notin met)
  OBVIOUS
<1>9. TypeOK'
  <2>1. \A i \in Frames' : parse'[i].loop # NoPad => ~ parse'[i].named
    BY <1>3, <1>6, <1>7 DEF TypeOK
  <2>2. nested' \subseteq Types
    BY <1>3 DEF TypeOK, Begin
  <2>3. said' \in [Pads -> Types \union {NoType}] /\ met' \subseteq Pads
    BY <1>3 DEF TypeOK
  <2>4. heap' \in [Types -> {"unborn", "live", "deleted"}]
    BY <1>1, <1>3 DEF TypeOK
  <2> QED BY <1>1, <1>3, <1>5, <1>8, <2>1, <2>2, <2>3, <2>4 DEF TypeOK
<1>10. \A p \in Pads : decl_map[p].type # t
  BY <1>1 DEF IInv, UnbornUnknown
<1>11. OneOwner' /\ OwnerKept' /\ DeletedOnce'
  BY <1>1 DEF IInv, OneOwner, OwnerKept, DeletedOnce, Owners, Deleted
<1>12. MapLive'
  BY <1>1, <1>3 DEF IInv, MapLive, Deleted, TypeOK
<1>13. FramesWhole'
  BY <1>1, <1>6, <1>7 DEF IInv, FramesWhole, Whole
<1>14. FramesApart'
  <2>1. \A i \in Frames' : parse'[i].ops \subseteq met'
    BY <1>6, <1>7, <1>8 DEF IInv, FramesApart
  <2>2. \A i \in Frames' : parse'[i].loop # NoPad => parse'[i].loop \in met'
    BY <1>6, <1>7, <1>8 DEF IInv, FramesApart
  <2>3. \A i, j \in Frames' : i # j => parse'[i].ops \cap parse'[j].ops = {}
    BY <1>6, <1>7 DEF IInv, FramesApart
  <2>4. \A i, j \in Frames' : i # j /\ parse'[i].loop # NoPad => parse'[i].loop # parse'[j].loop
    BY <1>6, <1>7, <1>8 DEF IInv, FramesApart
  <2>5. \A i, j \in Frames' : parse'[i].loop \notin parse'[j].ops
    <3>1. \A j \in Frames : NoPad \notin parse[j].ops
      BY <1>4, FrameFields, TypedConstants
    <3> QED BY <1>6, <1>7, <1>8, <3>1 DEF IInv, FramesApart
  <2> QED BY <2>1, <2>2, <2>3, <2>4, <2>5 DEF FramesApart
<1>15. FramesFresh'
  <2>1. \A i \in Frames : parse[i].type # t
    BY <1>1 DEF IInv, UnbornUnknown
  <2>2. \A i, j \in Frames' : i # j => parse'[i].type # parse'[j].type
    BY <1>6, <1>7, <2>1 DEF IInv, FramesFresh
  <2>3. \A i \in Frames' : heap'[parse'[i].type] = "live"
    <3>1. \A i \in Frames : parse[i].type \in Types /\ heap[parse[i].type] = "live"
      BY <1>1, <1>4, FrameFields DEF IInv, FramesFresh
    <3> QED BY <1>1, <1>3, <1>6, <1>7, <3>1 DEF TypeOK
  <2>4. \A i \in Frames', p \in Pads : decl_map'[p].type # parse'[i].type
    BY <1>1, <1>6, <1>7, <1>10 DEF IInv, FramesFresh
  <2>5. \A i \in Frames' : parse'[i].loop # NoPad => decl_map'[parse'[i].loop].type = NoType
    BY <1>1, <1>3, <1>6, <1>7, <1>8 DEF IInv, FramesFresh, TypeOK
  <2> QED BY <2>2, <2>3, <2>4, <2>5 DEF FramesFresh
<1>16. UnbornUnknown'
  <2>1. \A u \in Types : heap'[u] = "unborn" => u # t /\ heap[u] = "unborn"
    BY <1>1, <1>3 DEF TypeOK
  <2> QED BY <1>1, <1>6, <1>7, <2>1 DEF IInv, UnbornUnknown
<1> QED BY <1>9, <1>11, <1>12, <1>13, <1>14, <1>15, <1>16 DEF IInv

LEMMA IntroduceKeeps ==
  ASSUME IInv, NEW p \in Pads, Introduce(p)
  PROVE  IInv'
<1>1. /\ UNCHANGED <<decl_map, heap, variables, phase, twice, crashed, nested>>
      /\ p \notin met /\ met' = met \union {p}
  BY DEF Introduce
<1>2. TypeOK /\ parse \in Seq(Frame)
  BY DEF IInv, TypeOK
\* The frames are those before, but for p in the tree of the top one.
<1>3. /\ parse' \in Seq(Frame)
      /\ Frames' = Frames
      /\ \A i \in Frames :
           /\ parse'[i].type = parse[i].type
           /\ parse'[i].loop = parse[i].loop
           /\ parse'[i].named = parse[i].named
           /\ parse'[i].ops = parse[i].ops \/ parse'[i].ops = parse[i].ops \union {p}
           /\ i # Len(parse) => parse'[i].ops = parse[i].ops
  <2>1. CASE parse = <<>>
    BY <1>2, <2>1 DEF Introduce, Frames
  <2>2. CASE parse # <<>>
    <3> DEFINE n == Len(parse)
               f == [type |-> parse[n].type, loop |-> parse[n].loop,
                     ops |-> parse[n].ops \union {p}, named |-> parse[n].named]
    <3>1. n \in Frames
      BY <1>2, <2>2, TopFrame
    <3>2. f \in Frame
      BY <1>2, <3>1, FrameFields DEF Frame
    <3>3. parse' = [parse EXCEPT ![n] = f]
      BY <2>2 DEF Introduce
    <3> HIDE DEF f
    <3>4. /\ parse' \in Seq(Frame) /\ Len(parse') = n
          /\ \A i \in Frames : parse'[i] = IF i = n THEN f ELSE parse[i]
      BY <1>2, <3>1, <3>2, <3>3, ExceptSeq DEF Frames
    <3>5. /\ f.type = parse[n].type /\ f.loop = parse[n].loop
          /\ f.named = parse[n].named /\ f.ops = parse[n].ops \union {p}
      BY DEF f
    <3> QED BY <3>4, <3>5 DEF Frames
  <2> QED BY <2>1, <2>2
<1>4. said' \in [Pads -> Types \union {NoType}] /\ inner' \subseteq Pads
  <2>1. IF AtKeyword THEN TRUE ELSE Top.type \in Types
    BY <1>2, TopFrame DEF AtKeyword
  <2>2. said' = [said EXCEPT ![p] = IF AtKeyword THEN NoType ELSE Top.type]
    BY DEF Introduce
  <2>3. inner' \subseteq Pads
    BY <1>2 DEF Introduce, TypeOK
  <2> QED BY <1>2, <2>1, <2>2, <2>3 DEF TypeOK
<1>5. TypeOK'
  BY <1>1, <1>2, <1>3, <1>4 DEF TypeOK
<1>6. OneOwner' /\ OwnerKept' /\ DeletedOnce' /\ MapLive'
  BY <1>1 DEF IInv, OneOwner, OwnerKept, DeletedOnce, MapLive, Owners, Deleted
<1>7. FramesWhole'
  <2>1. decl_map[p].type = NoType
    BY <1>1, <1>2 DEF TypeOK
  <2>2. SUFFICES ASSUME NEW i \in Frames
                 PROVE  Whole(parse'[i].ops)
    BY <1>1, <1>3 DEF FramesWhole, Whole
  <2>3. Whole(parse[i].ops)
    BY DEF IInv, FramesWhole
  <2> QED BY <1>3, <2>1, <2>3 DEF Whole
<1>8. FramesApart'
  <2>1. \A i \in Frames : parse[i].loop # p /\ parse[i].ops \subseteq met
    BY <1>1, TypedConstants DEF IInv, FramesApart
  <2>2. \A i, j \in Frames : i # j => parse'[i].ops \cap parse'[j].ops = {}
    <3> SUFFICES ASSUME NEW i \in Frames, NEW j \in Frames, i # j
                 PROVE  parse'[i].ops \cap parse'[j].ops = {}
      OBVIOUS
    <3>1. parse'[i].ops = parse[i].ops \/ parse'[j].ops = parse[j].ops
      BY <1>3
    <3>2. parse[i].ops \cap parse[j].ops = {}
      BY DEF IInv, FramesApart
    <3>3. p \notin parse[i].ops /\ p \notin parse[j].ops
      BY <1>1, <2>1
    <3> QED BY <1>3, <3>1, <3>2, <3>3
  <2>3. \A i \in Frames : parse'[i].ops \subseteq met'
    BY <1>1, <1>3, <2>1
  <2>4. \A i, j \in Frames : parse'[i].loop \notin parse'[j].ops
    BY <1>3, <2>1 DEF IInv, FramesApart
  <2> QED BY <1>1, <1>3, <2>2, <2>3, <2>4 DEF IInv, FramesApart
<1>9. FramesFresh' /\ UnbornUnknown'
  BY <1>1, <1>3 DEF IInv, FramesFresh, UnbornUnknown
<1> QED BY <1>5, <1>6, <1>7, <1>8, <1>9 DEF IInv

LEMMA InitializerKeeps ==
  ASSUME IInv, Initializer
  PROVE  IInv'
<1>1. /\ UNCHANGED <<met, decl_map, heap, variables, phase, twice, crashed, nested, inner, said>>
      /\ parse # <<>>
  BY DEF Initializer
<1>2. TypeOK /\ parse \in Seq(Frame)
  BY DEF IInv, TypeOK
<1> DEFINE n == Len(parse)
           f == [type |-> parse[n].type, loop |-> parse[n].loop, ops |-> parse[n].ops,
                 named |-> FALSE]
<1>3. n \in Frames
  BY <1>1, <1>2, TopFrame
<1>4. f \in Frame
  BY <1>2, <1>3, FrameFields DEF Frame
<1>5. parse' = [parse EXCEPT ![n] = f]
  BY DEF Initializer
<1>6. f.type = parse[n].type /\ f.loop = parse[n].loop /\ f.ops = parse[n].ops /\ f.named = FALSE
  OBVIOUS
<1> HIDE DEF f
<1>7. /\ parse' \in Seq(Frame)
      /\ Frames' = Frames
      /\ \A i \in Frames : parse'[i] = IF i = n THEN f ELSE parse[i]
  BY <1>2, <1>3, <1>4, <1>5, ExceptSeq DEF Frames
<1>8. \A i \in Frames :
        /\ parse'[i].type = parse[i].type
        /\ parse'[i].loop = parse[i].loop
        /\ parse'[i].ops = parse[i].ops
        /\ parse'[i].named => parse[i].named
  BY <1>6, <1>7
<1>9. TypeOK'
  BY <1>1, <1>2, <1>7, <1>8 DEF TypeOK
<1>10. OneOwner' /\ OwnerKept' /\ DeletedOnce' /\ MapLive'
  BY <1>1 DEF IInv, OneOwner, OwnerKept, DeletedOnce, MapLive, Owners, Deleted
<1>11. FramesWhole' /\ FramesApart' /\ FramesFresh' /\ UnbornUnknown'
  BY <1>1, <1>7, <1>8 DEF IInv, FramesWhole, Whole, FramesApart, FramesFresh, UnbornUnknown
<1> QED BY <1>9, <1>10, <1>11 DEF IInv
-----------------------------------------------------------------------------
(* The end of a call.                                                      *)

\* The frames that are left keep to themselves, whatever the map gets.
LEMMA ReturnedApart ==
  ASSUME TypeOK, FramesApart, parse # <<>>, parse' = Returned, met' = met
  PROVE  FramesApart'
<1>1. parse \in Seq(Frame)
  BY DEF TypeOK
<1> DEFINE n == Len(parse)
<1>2. /\ n \in Frames /\ Top = parse[n]
      /\ \A i \in Frames' :
           /\ i \in Frames /\ i # n
           /\ parse'[i].loop = parse[i].loop
           /\ parse'[i].ops = IF i = n - 1 THEN parse[i].ops \union Top.ops ELSE parse[i].ops
  BY <1>1, TopFrame, ReturnedFrames DEF Frames
<1>3. \A i \in Frames' : parse'[i].ops \subseteq met'
  BY <1>2 DEF FramesApart
<1>4. \A i \in Frames' : parse'[i].loop # NoPad => parse'[i].loop \in met'
  BY <1>2 DEF FramesApart
<1>5. \A i, j \in Frames' : i # j => parse'[i].ops \cap parse'[j].ops = {}
  <2> SUFFICES ASSUME NEW i \in Frames', NEW j \in Frames', i # j
               PROVE  parse'[i].ops \cap parse'[j].ops = {}
    OBVIOUS
  <2>1. /\ parse[i].ops \cap parse[j].ops = {}
        /\ parse[i].ops \cap Top.ops = {}
        /\ parse[j].ops \cap Top.ops = {}
    BY <1>2 DEF FramesApart
  <2>2. /\ parse'[i].ops = parse[i].ops \/ (i = n - 1 /\ parse'[i].ops = parse[i].ops \union Top.ops)
        /\ parse'[j].ops = parse[j].ops \/ (j = n - 1 /\ parse'[j].ops = parse[j].ops \union Top.ops)
    BY <1>2
  <2>3. CASE i = n - 1
    <3>1. parse'[j].ops = parse[j].ops
      BY <2>2, <2>3
    <3> QED BY <2>1, <2>2, <3>1
  <2>4. CASE i # n - 1
    <3>1. parse'[i].ops = parse[i].ops
      BY <2>2, <2>4
    <3> QED BY <2>1, <2>2, <3>1
  <2> QED BY <2>3, <2>4
<1>6. \A i, j \in Frames' : i # j /\ parse'[i].loop # NoPad => parse'[i].loop # parse'[j].loop
  <2>1. \A i \in Frames' : i \in Frames /\ parse'[i].loop = parse[i].loop
    BY <1>2
  <2> QED BY <2>1 DEF FramesApart
<1>7. \A i, j \in Frames' : parse'[i].loop \notin parse'[j].ops
  <2> SUFFICES ASSUME NEW i \in Frames', NEW j \in Frames'
               PROVE  parse'[i].loop \notin parse'[j].ops
    OBVIOUS
  <2>1. parse[i].loop \notin parse[j].ops /\ parse[i].loop \notin Top.ops
    BY <1>2 DEF FramesApart
  <2> QED BY <1>2, <2>1
<1> QED BY <1>3, <1>4, <1>5, <1>6, <1>7 DEF FramesApart

\* A tree that is whole and gets another one stays whole.
LEMMA WholeUnion ==
  ASSUME NEW A, NEW B, Whole(A), Whole(B)
  PROVE  Whole(A \union B)
BY DEF Whole

LEMMA EndDeclarationKeeps ==
  ASSUME IInv, NEW owner \in Pads, EndDeclaration(owner)
  PROVE  IInv'
<1>1. /\ UNCHANGED <<met, heap, variables, phase, twice, crashed, nested, inner, said>>
      /\ parse # <<>> /\ parse' = Returned /\ phase = "parse"
      /\ owner \in Top.ops
  BY DEF EndDeclaration, Return, Parsing
<1>2. TypeOK /\ parse \in Seq(Frame)
  BY DEF IInv, TypeOK
<1> DEFINE n == Len(parse)
<1>3. n \in Frames /\ Top = parse[n] /\ Top.type \in Types /\ Top.type # NoType /\ Top.ops \subseteq Pads
  BY <1>1, <1>2, TopFrame, TypedConstants
<1>4. \A p \in Pads :
        /\ p \in Top.ops => decl_map'[p].type = Top.type /\ (decl_map'[p].owns <=> p = owner)
        /\ p \notin Top.ops => decl_map'[p] = decl_map[p]
  BY DEF EndDeclaration
<1>5. parse' \in Seq(Frame)
  BY <1>1, <1>2, ReturnedFrames
<1>6. \A i \in Frames' :
        /\ i \in Frames /\ i # n
        /\ parse'[i].type = parse[i].type
        /\ parse'[i].loop = parse[i].loop
        /\ parse'[i].named = parse[i].named
        /\ parse'[i].ops = parse[i].ops \union Top.ops \/ parse'[i].ops = parse[i].ops
  BY <1>1, <1>2, ReturnedFrames DEF Frames
<1>7. Top.ops \subseteq met
  BY <1>3 DEF IInv, FramesApart
<1>8. TypeOK'
  <2>1. decl_map' \in [Pads -> Entry]
    <3>1. \A p \in Pads : (IF p \in Top.ops THEN [type |-> Top.type, owns |-> p = owner]
                           ELSE decl_map[p]) \in Entry
      BY <1>2, <1>3 DEF TypeOK, Entry
    <3> QED BY <3>1 DEF EndDeclaration
  <2>2. \A p \in Pads : /\ decl_map'[p].type = NoType => ~ decl_map'[p].owns
                        /\ decl_map'[p].type # NoType => p \in met
    BY <1>2, <1>3, <1>4, <1>7 DEF TypeOK
  <2> QED BY <1>1, <1>2, <1>5, <1>6, <2>1, <2>2 DEF TypeOK
\* No entry had the type of the call that ends.
<1>9. \A p \in Pads : decl_map[p].type # Top.type
  BY <1>3 DEF IInv, FramesFresh
<1>10. OneOwner'
  <2> SUFFICES ASSUME NEW t \in Types, NEW p \in Pads, NEW q \in Pads,
                      decl_map'[p].owns, decl_map'[p].type = t,
                      decl_map'[q].owns, decl_map'[q].type = t
               PROVE  p = q
    BY DEF OneOwner, Owners
  <2>1. CASE t = Top.type
    BY <1>4, <1>9, <2>1
  <2>2. CASE t # Top.type
    BY <1>4, <2>2 DEF IInv, OneOwner, Owners
  <2> QED BY <2>1, <2>2
<1>11. OwnerKept'
  <2> SUFFICES ASSUME NEW p \in Pads, decl_map'[p].type # NoType
               PROVE  \E q \in Pads : decl_map'[q].owns /\ decl_map'[q].type = decl_map'[p].type
    BY DEF OwnerKept, Owners
  <2>1. CASE p \in Top.ops
    BY <1>1, <1>3, <1>4, <2>1
  <2>2. CASE p \notin Top.ops
    <3>1. decl_map[p].type = decl_map'[p].type
      BY <1>4, <2>2
    <3>2. PICK q \in Pads : decl_map[q].owns /\ decl_map[q].type = decl_map[p].type
      BY <3>1 DEF IInv, OwnerKept, Owners
    <3>3. q \notin Top.ops
      BY <1>3, <2>2, <3>1, <3>2 DEF IInv, FramesWhole, Whole
    <3> QED BY <1>4, <3>1, <3>2, <3>3
  <2> QED BY <2>1, <2>2
<1>12. MapLive'
  <2>1. heap[Top.type] = "live"
    BY <1>1, <1>3 DEF IInv, FramesFresh
  <2> QED BY <1>1, <1>4, <2>1 DEF IInv, MapLive, Deleted
<1>13. DeletedOnce'
  BY <1>1 DEF IInv, DeletedOnce, Deleted
<1>14. FramesWhole'
  <2> SUFFICES ASSUME NEW i \in Frames', NEW p \in Pads, NEW q \in Pads,
                      decl_map'[p].type # NoType, decl_map'[p].type = decl_map'[q].type
               PROVE  p \in parse'[i].ops <=> q \in parse'[i].ops
    BY DEF FramesWhole, Whole
  <2>1. parse[i].ops \cap Top.ops = {}
    BY <1>3, <1>6 DEF IInv, FramesApart
  <2>2. CASE p \in Top.ops \/ q \in Top.ops
    <3>1. p \in Top.ops /\ q \in Top.ops
      BY <1>4, <1>9, <2>2
    <3> QED BY <1>6, <2>1, <3>1
  <2>3. CASE p \notin Top.ops /\ q \notin Top.ops
    <3>1. decl_map[p].type # NoType /\ decl_map[p].type = decl_map[q].type
      BY <1>4, <2>3
    <3>2. p \in parse[i].ops <=> q \in parse[i].ops
      BY <1>6, <3>1 DEF IInv, FramesWhole, Whole
    <3> QED BY <1>6, <2>3, <3>2
  <2> QED BY <2>2, <2>3
<1>15. FramesApart'
  BY <1>1, <1>2, ReturnedApart DEF IInv
<1>16. FramesFresh'
  <2>1. \A i \in Frames' : parse[i].type # Top.type /\ parse[i].loop \notin Top.ops
    BY <1>3, <1>6 DEF IInv, FramesFresh, FramesApart
  <2>2. \A i \in Frames', p \in Pads : decl_map'[p].type # parse'[i].type
    BY <1>4, <1>6, <2>1 DEF IInv, FramesFresh
  <2>3. \A i \in Frames' : parse'[i].loop # NoPad => decl_map'[parse'[i].loop].type = NoType
    <3>1. \A i \in Frames' : parse[i].loop # NoPad => parse[i].loop \in Pads
      BY <1>2, <1>6, FrameFields
    <3> QED BY <1>4, <1>6, <2>1, <3>1 DEF IInv, FramesFresh
  <2> QED BY <1>1, <1>6, <2>2, <2>3 DEF IInv, FramesFresh
<1>17. UnbornUnknown'
  <2>1. heap[Top.type] = "live"
    BY <1>1, <1>3 DEF IInv, FramesFresh
  <2> QED BY <1>1, <1>4, <1>6, <2>1 DEF IInv, UnbornUnknown
<1> QED BY <1>8, <1>10, <1>11, <1>12, <1>13, <1>14, <1>15, <1>16, <1>17 DEF IInv

LEMMA EndEmptyDeclarationKeeps ==
  ASSUME IInv, EndEmptyDeclaration
  PROVE  IInv'
<1>1. /\ UNCHANGED <<met, decl_map, variables, phase, twice, nested, inner, said>>
      /\ parse # <<>> /\ parse' = Returned /\ phase = "parse"
      /\ Top.ops = {}
  BY DEF EndEmptyDeclaration, Return, Parsing
<1>2. TypeOK /\ parse \in Seq(Frame)
  BY DEF IInv, TypeOK
<1> DEFINE n == Len(parse)
<1>3. n \in Frames /\ Top = parse[n] /\ Top.type \in Types
  BY <1>1, <1>2, TopFrame
<1>4. \/ UNCHANGED heap /\ crashed' = TRUE
      \/ /\ heap' = [heap EXCEPT ![Top.type] = "deleted"] /\ UNCHANGED crashed
         /\ \A p \in Pads : decl_map[p].type = NoType
  BY DEF EndEmptyDeclaration
<1>5. parse' \in Seq(Frame)
  BY <1>1, <1>2, ReturnedFrames
<1>6. \A i \in Frames' :
        /\ i \in Frames /\ i # n
        /\ parse'[i].type = parse[i].type
        /\ parse'[i].loop = parse[i].loop
        /\ parse'[i].named = parse[i].named
        /\ parse'[i].ops = parse[i].ops
  BY <1>1, <1>2, ReturnedFrames DEF Frames
<1>7. TypeOK'
  <2>1. heap' \in [Types -> {"unborn", "live", "deleted"}] /\ crashed' \in BOOLEAN
    BY <1>2, <1>4 DEF TypeOK
  <2> QED BY <1>1, <1>2, <1>5, <1>6, <2>1 DEF TypeOK
<1>8. OneOwner' /\ OwnerKept' /\ DeletedOnce'
  BY <1>1 DEF IInv, OneOwner, OwnerKept, DeletedOnce, Owners, Deleted
<1>9. MapLive'
  BY <1>1, <1>4 DEF IInv, MapLive, Deleted
<1>10. FramesWhole' /\ FramesApart'
  <2>1. FramesApart'
    BY <1>1, <1>2, ReturnedApart DEF IInv
  <2> QED BY <1>1, <1>6, <2>1 DEF IInv, FramesWhole, Whole
<1>11. FramesFresh'
  <2>1. \A i \in Frames' : heap'[parse'[i].type] = "live"
    <3>1. \A i \in Frames' : parse[i].type \in Types /\ parse[i].type # Top.type
      BY <1>2, <1>3, <1>6, FrameFields DEF IInv, FramesFresh
    <3> QED BY <1>1, <1>2, <1>4, <1>6, <3>1 DEF IInv, FramesFresh, TypeOK
  <2> QED BY <1>1, <1>6, <2>1 DEF IInv, FramesFresh
<1>12. UnbornUnknown'
  <2>1. \A t \in Types : heap'[t] = "unborn" => heap[t] = "unborn"
    BY <1>2, <1>3, <1>4 DEF TypeOK
  <2> QED BY <1>1, <1>6, <2>1 DEF IInv, UnbornUnknown
<1> QED BY <1>7, <1>8, <1>9, <1>10, <1>11, <1>12 DEF IInv

LEMMA EndLoopKeeps ==
  ASSUME IInv, EndLoop
  PROVE  IInv'
<1>1. /\ UNCHANGED <<met, heap, variables, phase, twice, crashed, nested, inner, said>>
      /\ parse # <<>> /\ parse' = Returned /\ phase = "parse"
      /\ Top.loop # NoPad
  BY DEF EndLoop, Return, Parsing
<1>2. TypeOK /\ parse \in Seq(Frame)
  BY DEF IInv, TypeOK
<1> DEFINE n == Len(parse)
<1>3. /\ n \in Frames /\ Top = parse[n] /\ Top.type \in Types /\ Top.type # NoType
      /\ Top.loop \in Pads
  BY <1>1, <1>2, TopFrame, TypedConstants
<1>4. \A p \in Pads :
        /\ p = Top.loop => decl_map'[p].type = Top.type /\ decl_map'[p].owns
        /\ p # Top.loop => decl_map'[p] = decl_map[p]
  BY <1>2 DEF EndLoop, TypeOK
<1>5. parse' \in Seq(Frame)
  BY <1>1, <1>2, ReturnedFrames
<1>6. \A i \in Frames' :
        /\ i \in Frames /\ i # n
        /\ parse'[i].type = parse[i].type
        /\ parse'[i].loop = parse[i].loop
        /\ parse'[i].named = parse[i].named
        /\ parse'[i].ops = parse[i].ops \union Top.ops \/ parse'[i].ops = parse[i].ops
  BY <1>1, <1>2, ReturnedFrames DEF Frames
<1>7. Top.loop \in met /\ decl_map[Top.loop].type = NoType
  BY <1>1, <1>3 DEF IInv, FramesApart, FramesFresh
<1>8. TypeOK'
  <2>1. decl_map' \in [Pads -> Entry]
    <3>1. [type |-> Top.type, owns |-> TRUE] \in Entry
      BY <1>3 DEF Entry
    <3> QED BY <1>2, <3>1 DEF TypeOK, EndLoop
  <2>2. \A p \in Pads : /\ decl_map'[p].type = NoType => ~ decl_map'[p].owns
                        /\ decl_map'[p].type # NoType => p \in met
    BY <1>2, <1>3, <1>4, <1>7 DEF TypeOK
  <2> QED BY <1>1, <1>2, <1>5, <1>6, <2>1, <2>2 DEF TypeOK
<1>9. \A p \in Pads : decl_map[p].type # Top.type
  BY <1>3 DEF IInv, FramesFresh
<1>10. OneOwner'
  <2> SUFFICES ASSUME NEW t \in Types, NEW p \in Pads, NEW q \in Pads,
                      decl_map'[p].owns, decl_map'[p].type = t,
                      decl_map'[q].owns, decl_map'[q].type = t
               PROVE  p = q
    BY DEF OneOwner, Owners
  <2>1. CASE t = Top.type
    BY <1>4, <1>9, <2>1
  <2>2. CASE t # Top.type
    BY <1>4, <2>2 DEF IInv, OneOwner, Owners
  <2> QED BY <2>1, <2>2
<1>11. OwnerKept'
  <2> SUFFICES ASSUME NEW p \in Pads, decl_map'[p].type # NoType
               PROVE  \E q \in Pads : decl_map'[q].owns /\ decl_map'[q].type = decl_map'[p].type
    BY DEF OwnerKept, Owners
  <2>1. CASE p = Top.loop
    BY <1>4, <2>1
  <2>2. CASE p # Top.loop
    <3>1. decl_map[p].type = decl_map'[p].type
      BY <1>4, <2>2
    <3>2. PICK q \in Pads : decl_map[q].owns /\ decl_map[q].type = decl_map[p].type
      BY <3>1 DEF IInv, OwnerKept, Owners
    <3>3. q # Top.loop
      BY <1>7, <3>1, <3>2
    <3> QED BY <1>4, <3>1, <3>2, <3>3
  <2> QED BY <2>1, <2>2
<1>12. heap[Top.type] = "live"
  BY <1>1, <1>3 DEF IInv, FramesFresh
<1>13. MapLive' /\ DeletedOnce'
  BY <1>1, <1>4, <1>12 DEF IInv, MapLive, Deleted, DeletedOnce
<1>14. FramesWhole'
  <2> SUFFICES ASSUME NEW i \in Frames', NEW p \in Pads, NEW q \in Pads,
                      decl_map'[p].type # NoType, decl_map'[p].type = decl_map'[q].type
               PROVE  p \in parse'[i].ops <=> q \in parse'[i].ops
    BY DEF FramesWhole, Whole
  <2>1. CASE p = Top.loop \/ q = Top.loop
    <3>1. p = q
      BY <1>4, <1>9, <2>1
    <3> QED BY <3>1
  <2>2. CASE p # Top.loop /\ q # Top.loop
    <3>1. decl_map[p].type # NoType /\ decl_map[p].type = decl_map[q].type
      BY <1>4, <2>2
    <3>2. /\ p \in parse[i].ops <=> q \in parse[i].ops
          /\ p \in Top.ops <=> q \in Top.ops
      BY <1>3, <1>6, <3>1 DEF IInv, FramesWhole, Whole
    <3> QED BY <1>6, <3>2
  <2> QED BY <2>1, <2>2
<1>15. FramesApart'
  BY <1>1, <1>2, ReturnedApart DEF IInv
<1>16. FramesFresh'
  <2>1. \A i \in Frames' : parse[i].type # Top.type
    BY <1>3, <1>6 DEF IInv, FramesFresh
  <2>2. \A i \in Frames', p \in Pads : decl_map'[p].type # parse'[i].type
    BY <1>4, <1>6, <2>1 DEF IInv, FramesFresh
  <2>3. \A i \in Frames' : parse'[i].loop # NoPad => decl_map'[parse'[i].loop].type = NoType
    <3>1. \A i \in Frames' : parse[i].loop # NoPad => parse[i].loop \in Pads
      BY <1>2, <1>6, FrameFields
    <3>2. \A i \in Frames' : parse[i].loop # NoPad => parse[i].loop # Top.loop
      BY <1>3, <1>6 DEF IInv, FramesApart
    <3> QED BY <1>4, <1>6, <3>1, <3>2 DEF IInv, FramesFresh
  <2> QED BY <1>1, <1>6, <2>2, <2>3 DEF IInv, FramesFresh
<1>17. UnbornUnknown'
  BY <1>1, <1>4, <1>6, <1>12 DEF IInv, UnbornUnknown
<1> QED BY <1>8, <1>10, <1>11, <1>13, <1>14, <1>15, <1>16, <1>17 DEF IInv
-----------------------------------------------------------------------------
(* The searches, and the end of the sub.                                   *)

LEMMA DeclareKeeps ==
  ASSUME IInv, NEW s \in Searches, NEW p \in Pads, Declare(s, p)
  PROVE  IInv'
<1>1. /\ UNCHANGED <<parse, met, decl_map, heap, phase, twice, crashed, nested, inner, said>>
      /\ phase = "run" /\ p \in met
      /\ variables[s][p].state = "none"
  BY DEF Declare
<1>2. TypeOK
  BY DEF IInv
<1> DEFINE term == [state |-> "live", type |-> IF p \in Aggregates THEN NoType ELSE decl_map[p].type]
<1>3. term \in Term /\ term.state = "live"
  <2>1. decl_map[p].type \in Types \union {NoType}
    BY <1>2 DEF TypeOK, Entry
  <2> QED BY <2>1 DEF Term
<1>4. variables' = [variables EXCEPT ![s][p] = term]
  BY DEF Declare
<1> HIDE DEF term
<1>5. /\ variables' \in [Searches -> [Pads -> Term]]
      /\ \A r \in Searches, q \in Pads :
           variables'[r][q] = IF r = s /\ q = p THEN term ELSE variables[r][q]
  BY <1>2, <1>3, <1>4 DEF TypeOK
<1>6. TypeOK'
  <2>1. \A r \in Searches, q \in Pads :
          variables'[r][q].state # "none" => phase # "parse" /\ q \in met
    BY <1>1, <1>2, <1>5 DEF TypeOK
  <2> QED BY <1>1, <1>2, <1>5, <2>1 DEF TypeOK, Frames
<1>7. \A r \in Searches, q \in Pads :
        variables'[r][q].state = "deleted" <=> variables[r][q].state = "deleted"
  BY <1>1, <1>3, <1>5
<1>8. Deleted' = Deleted
  BY <1>7 DEF Deleted
<1>9. OneOwner' /\ OwnerKept' /\ MapLive' /\ DeletedOnce'
  BY <1>1, <1>8 DEF IInv, OneOwner, OwnerKept, MapLive, DeletedOnce, Owners
<1>10. FramesWhole' /\ FramesApart' /\ FramesFresh' /\ UnbornUnknown'
  BY <1>1 DEF IInv, FramesWhole, Whole, FramesApart, FramesFresh, UnbornUnknown, Frames
<1> QED BY <1>6, <1>9, <1>10 DEF IInv

LEMMA DeleteTermKeeps ==
  ASSUME IInv, NEW s \in Searches, NEW p \in Pads, DeleteTerm(s, p)
  PROVE  IInv'
<1>1. /\ UNCHANGED <<parse, met, decl_map, phase, crashed, nested, inner, said>>
      /\ phase = "run" /\ variables[s][p].state # "none"
      /\ twice' \in BOOLEAN
  BY DEF DeleteTerm
<1>2. TypeOK
  BY DEF IInv
<1> DEFINE term == [state |-> "deleted", type |-> variables[s][p].type]
<1>3. term \in Term /\ term.state = "deleted"
  BY <1>2 DEF TypeOK, Term
<1>4. variables' = [variables EXCEPT ![s][p] = term]
  BY DEF DeleteTerm
<1> HIDE DEF term
<1>5. /\ variables' \in [Searches -> [Pads -> Term]]
      /\ \A r \in Searches, q \in Pads :
           variables'[r][q] = IF r = s /\ q = p THEN term ELSE variables[r][q]
  BY <1>2, <1>3, <1>4 DEF TypeOK
<1>6. /\ heap' \in [Types -> {"unborn", "live", "deleted"}]
      /\ \A t \in Types : heap'[t] = "unborn" => heap[t] = "unborn"
  BY <1>2 DEF DeleteTerm, TypeOK
<1>7. TypeOK'
  <2>1. \A r \in Searches, q \in Pads :
          variables'[r][q].state # "none" => phase # "parse" /\ q \in met
    BY <1>1, <1>2, <1>5 DEF TypeOK
  <2> QED BY <1>1, <1>2, <1>5, <1>6, <2>1 DEF TypeOK, Frames
<1>8. <<s, p>> \in Deleted'
  BY <1>3, <1>5 DEF Deleted
<1>9. MapLive' /\ DeletedOnce'
  BY <1>8 DEF MapLive, DeletedOnce
<1>10. OneOwner' /\ OwnerKept'
  BY <1>1 DEF IInv, OneOwner, OwnerKept, Owners
<1>11. FramesWhole' /\ FramesApart' /\ FramesFresh' /\ UnbornUnknown'
  BY <1>1, <1>6 DEF IInv, FramesWhole, Whole, FramesApart, FramesFresh, UnbornUnknown, Frames
<1> QED BY <1>7, <1>9, <1>10, <1>11 DEF IInv

\* The map's entries are the only holders left: each type is deleted by its one
\* owner, and was alive.
LEMMA FreeSubKeeps ==
  ASSUME IInv, FreeSub
  PROVE  IInv'
<1>1. /\ UNCHANGED <<parse, met, decl_map, variables, crashed, nested, inner, said>>
      /\ phase # "freed" /\ phase' = "freed"
  BY DEF FreeSub
<1>2. TypeOK
  BY DEF IInv
<1>3. /\ heap' \in [Types -> {"unborn", "live", "deleted"}]
      /\ \A t \in Types : heap'[t] = "unborn" => heap[t] = "unborn"
  BY <1>2 DEF FreeSub, TypeOK
<1>4. twice' \in BOOLEAN
  BY DEF FreeSub
<1>5. TypeOK'
  BY <1>1, <1>2, <1>3, <1>4 DEF TypeOK, Frames
<1>6. DeletedOnce'
  <2> SUFFICES ASSUME twice', Deleted = {}
               PROVE  FALSE
    BY <1>1 DEF DeletedOnce, Deleted
  <2>1. ~ twice
    BY DEF IInv, DeletedOnce
  <2>2. PICK t \in Types : \/ Owners(t) # {} /\ heap[t] = "deleted"
                           \/ \E p, q \in Owners(t) : p # q
    BY <2>1 DEF FreeSub
  <2>3. Owners(t) # {} /\ heap[t] = "deleted"
    BY <2>2 DEF IInv, OneOwner
  <2>4. PICK p \in Pads : decl_map[p].type = t
    BY <2>3 DEF Owners
  <2>5. heap[t] = "live"
    BY <1>1, <2>4, TypedConstants DEF IInv, MapLive
  <2> QED BY <2>3, <2>5
<1>7. OneOwner' /\ OwnerKept' /\ MapLive'
  BY <1>1 DEF IInv, OneOwner, OwnerKept, Owners, MapLive
<1>8. FramesWhole' /\ FramesApart' /\ FramesFresh' /\ UnbornUnknown'
  BY <1>1, <1>3 DEF IInv, FramesWhole, Whole, FramesApart, FramesFresh, UnbornUnknown, Frames
<1> QED BY <1>5, <1>6, <1>7, <1>8 DEF IInv
-----------------------------------------------------------------------------
(* The theorems.                                                           *)

LEMMA StepKeeps ==
  ASSUME IInv, [Next]_vars
  PROVE  IInv'
<1>1. CASE UNCHANGED vars
  BY <1>1 DEF vars, IInv, TypeOK, OneOwner, OwnerKept, MapLive, DeletedOnce, Owners, Deleted,
       FramesWhole, Whole, FramesApart, FramesFresh, UnbornUnknown, Frames
<1>2. ASSUME NEW t \in Types, BeginDeclaration(t)
      PROVE  IInv'
  BY <1>2, BeginKeeps DEF BeginDeclaration
<1>3. ASSUME NEW t \in Types, NEW p \in Pads, BeginLoop(t, p)
      PROVE  IInv'
  <2>1. p # NoPad
    BY TypedConstants
  <2> QED BY <1>3, <2>1, BeginKeeps DEF BeginLoop
<1>4. CASE Compiled
  BY <1>4 DEF Compiled, Parsing, IInv, TypeOK, OneOwner, OwnerKept, MapLive, DeletedOnce, Owners,
       Deleted, FramesWhole, Whole, FramesApart, FramesFresh, UnbornUnknown, Frames
<1>5. CASE \E p \in Pads : Introduce(p)
  BY <1>5, IntroduceKeeps
<1>6. CASE Initializer
  BY <1>6, InitializerKeeps
<1>7. CASE \E p \in Pads : EndDeclaration(p)
  BY <1>7, EndDeclarationKeeps
<1>8. CASE EndEmptyDeclaration
  BY <1>8, EndEmptyDeclarationKeeps
<1>9. CASE EndLoop
  BY <1>9, EndLoopKeeps
<1>10. CASE \E s \in Searches, p \in Pads : Declare(s, p)
  BY <1>10, DeclareKeeps
<1>11. CASE \E s \in Searches, p \in Pads : DeleteTerm(s, p)
  BY <1>11, DeleteTermKeeps
<1>12. CASE FreeSub
  BY <1>12, FreeSubKeeps
<1> QED BY <1>1, <1>2, <1>3, <1>4, <1>5, <1>6, <1>7, <1>8, <1>9, <1>10, <1>11, <1>12 DEF Next

\* However typed declarations nest, searches run and compilation ends, the
\* invariant of the declaration map holds.
THEOREM MapInvariant == Spec => []IInv
<1>1. Init => IInv
  BY InitInvariant
<1>2. IInv /\ [Next]_vars => IInv'
  BY StepKeeps
<1> QED BY <1>1, <1>2, PTL DEF Spec

\* Each state is well formed.
THEOREM TypedTypeCorrect == Spec => []TypeOK
<1>1. IInv => TypeOK
  BY DEF IInv
<1> QED BY <1>1, MapInvariant, PTL

\* Every type in the map has an owner there, the one that deletes it when the sub
\* goes.
THEOREM OwnerKeptCorrect == Spec => []OwnerKept
<1>1. IInv => OwnerKept
  BY DEF IInv
<1> QED BY <1>1, MapInvariant, PTL

\* No type in the map has two owners, whatever declarations overwrote its entries.
THEOREM OneOwnerCorrect == Spec => []OneOwner
<1>1. IInv => OneOwner
  BY DEF IInv
<1> QED BY <1>1, MapInvariant, PTL

\* A type that get_declaration finds in the map is alive, unless a declaration
\* term was deleted.
THEOREM MapLiveCorrect == Spec => []MapLive
<1>1. IInv => MapLive
  BY DEF IInv
<1> QED BY <1>1, MapInvariant, PTL

\* No type is deleted twice, unless a declaration term was deleted.
THEOREM NoTypeDeletedTwice == Spec => []DeletedOnce
<1>1. IInv => DeletedOnce
  BY DEF IInv
<1> QED BY <1>1, MapInvariant, PTL

-----------------------------------------------------------------------------
(* What nesting overrules and leaks *)

LEMMA InitNesting == Init => NestingInv
<1> SUFFICES ASSUME Init PROVE NestingInv
  OBVIOUS
<1>1. Frames = {}
  BY EmptySeq DEF Init, Frames
<1>2. /\ \A t \in Types : heap[t] # "live"
      /\ \A p \in Pads : said[p] = NoType
      /\ phase = "parse"
  BY DEF Init
<1>3. \A p \in Pads : decl_map[p].type = NoType
  BY DEF Init, NoEntry
<1> QED BY <1>1, <1>2, <1>3 DEF NestingInv, CallsNested, EntriesNested, CompiledWhole, LiveHeld,
          SaidHeld, UntypedInner, LeakOnlyNested

\* A new call is nested if a declaration is open.
LEMMA BeginNests ==
  ASSUME IInv, NestingInv, NEW t \in Types, NEW loop \in Pads \union {NoPad},
         NEW named \in BOOLEAN, Begin(t, loop, named),
         IF loop = NoPad THEN met' = met /\ said' = said
         ELSE loop \notin met /\ met' = met \union {loop}
              /\ said' = [said EXCEPT ![loop] = t]
  PROVE  NestingInv'
<1> DEFINE f == [type |-> t, loop |-> loop, ops |-> {}, named |-> named]
           k == Len(parse) + 1
<1>1. /\ parse' = Append(parse, f)
      /\ heap' = [heap EXCEPT ![t] = "live"]
      /\ phase = "parse" /\ ~ crashed
      /\ UNCHANGED <<decl_map, phase, crashed, inner>>
  BY DEF Begin, Parsing
<1>2. /\ nested \subseteq nested'
      /\ (\E i \in Frames : parse[i].loop = NoPad) => t \in nested'
  BY DEF Begin, InInitializer, Frames
<1>3. TypeOK /\ parse \in Seq(Frame)
  BY DEF IInv, TypeOK
<1>4. f \in Frame
  BY DEF Frame
<1>5. /\ Frames' = Frames \union {k}
      /\ k \notin Frames /\ \A i \in Frames : i < k
      /\ \A i \in Frames : i \in Int /\ parse'[i] = parse[i]
      /\ k \in Int /\ parse'[k] = f
  BY <1>1, <1>3, <1>4, LenProperties DEF Frames
<1>6. f.type = t /\ f.loop = loop /\ f.ops = {}
  OBVIOUS
<1> HIDE DEF f, k
<1>7. CallsNested'
  <2> SUFFICES ASSUME NEW i \in Frames', NEW j \in Frames', i < j, parse'[i].loop = NoPad
               PROVE  parse'[j].type \in nested'
    BY DEF CallsNested
  <2>1. i \in Frames
    BY <1>5
  <2>2. CASE j = k
    BY <1>2, <1>5, <1>6, <2>1, <2>2
  <2>3. CASE j # k
    BY <1>2, <1>5, <2>1, <2>3 DEF NestingInv, CallsNested
  <2> QED BY <2>2, <2>3
<1>8. EntriesNested'
  <2> SUFFICES ASSUME NEW i \in Frames', NEW j \in Frames', i <= j, parse'[i].loop = NoPad,
                      NEW p \in parse'[j].ops, decl_map[p].type # NoType
               PROVE  decl_map[p].type \in nested'
    BY <1>1 DEF EntriesNested
  <2>1. j \in Frames /\ i \in Frames
    BY <1>5, <1>6
  <2> QED BY <1>2, <1>5, <2>1 DEF NestingInv, EntriesNested
<1>9. CompiledWhole' /\ LeakOnlyNested'
  BY <1>1 DEF CompiledWhole, LeakOnlyNested
<1>10. LiveHeld'
  <2> SUFFICES ASSUME NEW u \in Types, heap'[u] = "live", u \notin nested'
               PROVE  (\E i \in Frames' : parse'[i].type = u) \/ (\E p \in Pads : decl_map[p].type = u)
    BY <1>1 DEF LiveHeld
  <2>1. CASE u = t
    BY <1>5, <1>6, <2>1
  <2>2. CASE u # t
    <3>1. heap[u] = "live" /\ u \notin nested
      BY <1>1, <1>2, <1>3, <2>2 DEF TypeOK
    <3> QED BY <1>1, <1>5, <3>1 DEF NestingInv, LiveHeld
  <2> QED BY <2>1, <2>2
<1>11. SaidHeld'
  <2> SUFFICES ASSUME NEW p \in Pads, said'[p] # NoType, said'[p] \notin nested'
               PROVE  \/ decl_map[p].type = said'[p]
                      \/ \E i \in Frames' : /\ parse'[i].type = said'[p]
                                            /\ \/ parse'[i].loop = p
                                               \/ parse'[i].loop = NoPad /\ p \in parse'[i].ops
    BY <1>1 DEF SaidHeld, Declaring
  <2>1. CASE p = loop
    <3>1. said'[p] = t
      BY <1>3, <2>1, TypedConstants DEF TypeOK
    <3> QED BY <1>5, <1>6, <2>1, <3>1
  <2>2. CASE p # loop
    <3>1. said'[p] = said[p] /\ said[p] \notin nested
      BY <1>2, <1>3, <2>2 DEF TypeOK
    <3> QED BY <1>1, <1>5, <3>1 DEF NestingInv, SaidHeld, Declaring
  <2> QED BY <2>1, <2>2
<1>12. UntypedInner'
  <2>1. \A p \in Pads : said'[p] = IF p = loop THEN t ELSE said[p]
    BY <1>3, TypedConstants DEF TypeOK
  <2>2. \A i \in Frames : \A p \in parse[i].ops : p \in met /\ p \in Pads /\ p # loop
    BY <1>3, FrameFields, TypedConstants DEF IInv, FramesApart
  <2>3. \A i \in Frames' : parse'[i].loop # NoPad => parse'[i].loop \in Pads
    BY <1>3, <1>5, <1>6, FrameFields, TypedConstants
  <2>4. t # NoType
    BY TypedConstants
  <2>5. \A i \in Frames' : parse'[i].loop # NoPad => said'[parse'[i].loop] # NoType
    BY <1>5, <1>6, <2>1, <2>3, <2>4 DEF NestingInv, UntypedInner
  <2>6. \A i, j \in Frames' : i <= j /\ parse'[i].loop = NoPad =>
          \A p \in parse'[j].ops : said'[p] = NoType => p \in inner
    <3> SUFFICES ASSUME NEW i \in Frames', NEW j \in Frames', i <= j, parse'[i].loop = NoPad,
                        NEW p \in parse'[j].ops, said'[p] = NoType
                 PROVE  p \in inner
      OBVIOUS
    <3>1. j \in Frames /\ i \in Frames
      BY <1>5, <1>6
    <3>2. said[p] = NoType
      BY <1>5, <2>1, <2>2, <3>1
    <3> QED BY <1>5, <3>1, <3>2 DEF NestingInv, UntypedInner
  <2>7. \A p \in Pads : decl_map[p].type # NoType /\ said'[p] = NoType => p \in inner
    BY <2>1, <2>4 DEF NestingInv, UntypedInner
  <2> QED BY <1>1, <2>5, <2>6, <2>7 DEF UntypedInner
<1> QED BY <1>7, <1>8, <1>9, <1>10, <1>11, <1>12 DEF NestingInv

\* A new variable has no entry yet; what the source says of it is the type of the
\* call at whose list of names it stands, if any.
LEMMA IntroduceNests ==
  ASSUME IInv, NestingInv, NEW p \in Pads, Introduce(p)
  PROVE  NestingInv'
<1>1. /\ UNCHANGED <<decl_map, heap, phase, crashed, nested>>
      /\ p \notin met /\ phase = "parse" /\ ~ crashed
      /\ said' = [said EXCEPT ![p] = IF AtKeyword THEN NoType ELSE Top.type]
  BY DEF Introduce, Parsing
<1>2. TypeOK /\ parse \in Seq(Frame)
  BY DEF IInv, TypeOK
<1>3. /\ Frames' = Frames
      /\ \A i \in Frames :
           /\ parse'[i].type = parse[i].type
           /\ parse'[i].loop = parse[i].loop
           /\ parse'[i].ops = IF i = Len(parse) THEN parse[i].ops \union {p} ELSE parse[i].ops
  <2>1. CASE parse = <<>>
    BY <1>2, <2>1 DEF Introduce, Frames
  <2>2. CASE parse # <<>>
    <3> DEFINE n == Len(parse)
               f == [type |-> parse[n].type, loop |-> parse[n].loop,
                     ops |-> parse[n].ops \union {p}, named |-> parse[n].named]
    <3>1. n \in Frames
      BY <1>2, <2>2, TopFrame
    <3>2. f \in Frame
      BY <1>2, <3>1, FrameFields DEF Frame
    <3>3. parse' = [parse EXCEPT ![n] = f]
      BY <2>2 DEF Introduce
    <3>4. f.type = parse[n].type /\ f.loop = parse[n].loop /\ f.ops = parse[n].ops \union {p}
      OBVIOUS
    <3> HIDE DEF f
    <3>5. /\ Len(parse') = n
          /\ \A i \in Frames : parse'[i] = IF i = n THEN f ELSE parse[i]
      BY <1>2, <3>1, <3>2, <3>3, ExceptSeq DEF Frames
    <3> QED BY <3>4, <3>5 DEF Frames
  <2> QED BY <2>1, <2>2
<1>4. decl_map[p].type = NoType
  BY <1>1, <1>2 DEF TypeOK
<1>5. CallsNested' /\ CompiledWhole' /\ LeakOnlyNested' /\ LiveHeld'
  BY <1>1, <1>3 DEF NestingInv, CallsNested, CompiledWhole, LeakOnlyNested, LiveHeld
<1>6. EntriesNested'
  <2> SUFFICES ASSUME NEW i \in Frames, NEW j \in Frames, i <= j, parse[i].loop = NoPad,
                      NEW q \in parse'[j].ops, q \in Pads, decl_map[q].type # NoType
               PROVE  decl_map[q].type \in nested
    <3>1. \A j \in Frames : parse'[j].ops \subseteq Pads
      BY <1>2, <1>3, FrameFields
    <3> QED BY <1>1, <1>3, <3>1 DEF EntriesNested
  <2>1. q # p
    BY <1>4
  <2>2. q \in parse[j].ops
    BY <1>3, <2>1
  <2> QED BY <2>2 DEF NestingInv, EntriesNested
<1>7. SaidHeld'
  <2> SUFFICES ASSUME NEW q \in Pads, said'[q] # NoType, said'[q] \notin nested
               PROVE  \/ decl_map[q].type = said'[q]
                      \/ \E i \in Frames : /\ parse'[i].type = said'[q]
                                           /\ \/ parse'[i].loop = q
                                              \/ parse'[i].loop = NoPad /\ q \in parse'[i].ops
    BY <1>1, <1>3 DEF SaidHeld, Declaring
  <2>1. CASE q = p
    <3>1. said'[q] = Top.type /\ ~ AtKeyword
      BY <1>1, <1>2, <2>1 DEF TypeOK
    <3>2. parse # <<>> /\ Top.named
      BY <3>1 DEF AtKeyword
    <3>3. Len(parse) \in Frames /\ Top = parse[Len(parse)]
      BY <1>2, <3>2, TopFrame
    <3>4. parse[Len(parse)].loop = NoPad
      BY <1>2, <3>2, <3>3 DEF TypeOK
    <3> QED BY <1>3, <2>1, <3>1, <3>3, <3>4
  <2>2. CASE q # p
    <3>1. said'[q] = said[q]
      BY <1>1, <1>2, <2>2 DEF TypeOK
    <3> QED BY <1>1, <1>3, <3>1 DEF NestingInv, SaidHeld, Declaring
  <2> QED BY <2>1, <2>2
<1>8. UntypedInner'
  <2>1. \A q \in Pads : said'[q] = IF q = p THEN (IF AtKeyword THEN NoType ELSE Top.type)
                                    ELSE said[q]
    BY <1>1, <1>2 DEF TypeOK
  <2>2. inner \subseteq inner'
    BY DEF Introduce
  <2>3. AtKeyword /\ (\E i \in Frames : parse[i].loop = NoPad) => p \in inner'
    BY DEF Introduce, InInitializer, Frames
  <2>4. ~ AtKeyword => Top.type # NoType
    <3> SUFFICES ASSUME parse # <<>> PROVE Top.type # NoType
      BY DEF AtKeyword
    <3> QED BY <1>2, TopFrame, TypedConstants
  <2>5. \A i \in Frames : parse[i].loop # NoPad => parse[i].loop \in Pads /\ parse[i].loop # p
    BY <1>1, <1>2, FrameFields DEF IInv, FramesApart
  <2>6. \A i, j \in Frames : i <= j /\ parse[i].loop = NoPad =>
          \A q \in parse'[j].ops : said'[q] = NoType => q \in inner'
    <3> SUFFICES ASSUME NEW i \in Frames, NEW j \in Frames, i <= j, parse[i].loop = NoPad,
                        NEW q \in parse'[j].ops, said'[q] = NoType
                 PROVE  q \in inner'
      OBVIOUS
    <3>1. CASE q = p
      BY <2>1, <2>3, <2>4, <3>1
    <3>2. CASE q # p
      <4>1. q \in parse[j].ops
        BY <1>3, <3>2
      <4>2. q \in Pads
        BY <1>2, <4>1, FrameFields
      <4> QED BY <2>1, <2>2, <3>2, <4>1, <4>2 DEF NestingInv, UntypedInner
    <3> QED BY <3>1, <3>2
  <2>7. \A q \in Pads : decl_map[q].type # NoType /\ said'[q] = NoType => q \in inner'
    BY <1>4, <2>1, <2>2 DEF NestingInv, UntypedInner
  <2>8. \A i \in Frames : parse[i].loop # NoPad => said'[parse[i].loop] # NoType
    BY <2>1, <2>5 DEF NestingInv, UntypedInner
  <2> QED BY <1>1, <1>3, <2>6, <2>7, <2>8 DEF UntypedInner
<1> QED BY <1>5, <1>6, <1>7, <1>8 DEF NestingInv

LEMMA InitializerNests ==
  ASSUME IInv, NestingInv, Initializer
  PROVE  NestingInv'
<1>1. /\ UNCHANGED <<decl_map, heap, phase, crashed, nested, inner, said>>
      /\ parse # <<>>
  BY DEF Initializer
<1>2. parse \in Seq(Frame)
  BY DEF IInv, TypeOK
<1> DEFINE n == Len(parse)
           f == [type |-> parse[n].type, loop |-> parse[n].loop, ops |-> parse[n].ops,
                 named |-> FALSE]
<1>3. n \in Frames
  BY <1>1, <1>2, TopFrame
<1>4. f \in Frame
  BY <1>2, <1>3, FrameFields DEF Frame
<1>5. parse' = [parse EXCEPT ![n] = f]
  BY DEF Initializer
<1>6. f.type = parse[n].type /\ f.loop = parse[n].loop /\ f.ops = parse[n].ops
  OBVIOUS
<1> HIDE DEF f
<1>7. /\ Frames' = Frames
      /\ \A i \in Frames : parse'[i] = IF i = n THEN f ELSE parse[i]
      /\ parse' # <<>>
  BY <1>2, <1>3, <1>4, <1>5, ExceptSeq DEF Frames
<1>8. \A i \in Frames :
        /\ parse'[i].type = parse[i].type
        /\ parse'[i].loop = parse[i].loop
        /\ parse'[i].ops = parse[i].ops
  BY <1>6, <1>7
<1>9. CompiledWhole'
  BY <1>1 DEF Initializer, Parsing, CompiledWhole
<1>10. CallsNested' /\ EntriesNested' /\ LiveHeld' /\ SaidHeld' /\ LeakOnlyNested'
  BY <1>1, <1>7, <1>8 DEF NestingInv, CallsNested, EntriesNested, LiveHeld, SaidHeld,
     Declaring, LeakOnlyNested
<1>11. UntypedInner'
  BY <1>1, <1>7, <1>8 DEF NestingInv, UntypedInner
<1> QED BY <1>9, <1>10, <1>11 DEF NestingInv
-----------------------------------------------------------------------------
(* The end of a call.                                                      *)

\* The frames below a call that returns.
LEMMA FramesLeft ==
  ASSUME TypeOK, parse # <<>>, parse' = Returned
  PROVE  /\ Len(parse) \in Frames /\ Top = parse[Len(parse)] /\ Top.ops \subseteq Pads
         /\ Frames' = Frames \ {Len(parse)}
         /\ \A i \in Frames :
              /\ i \in Int /\ i <= Len(parse)
              /\ i # Len(parse) =>
                   /\ parse'[i].type = parse[i].type
                   /\ parse'[i].loop = parse[i].loop
                   /\ parse[i].ops \subseteq parse'[i].ops
                   /\ parse'[i].ops \subseteq parse[i].ops \union Top.ops
<1>1. parse \in Seq(Frame)
  BY DEF TypeOK
<1>2. /\ Len(parse) \in Frames /\ Len(parse) \in Nat \ {0} /\ Top = parse[Len(parse)]
      /\ Top.ops \subseteq Pads
  BY <1>1, TopFrame
<1>3. Len(parse') = Len(parse) - 1
  BY <1>1, ReturnedFrames
<1>4. Frames' = Frames \ {Len(parse)} /\ \A i \in Frames : i \in Int /\ i <= Len(parse)
  BY <1>2, <1>3 DEF Frames
<1>5. \A i \in Frames' :
        /\ parse'[i].type = parse[i].type
        /\ parse'[i].loop = parse[i].loop
        /\ parse'[i].ops = IF i = Len(parse) - 1 THEN parse[i].ops \union Top.ops
                           ELSE parse[i].ops
  BY <1>1, ReturnedFrames DEF Frames
<1> QED BY <1>2, <1>4, <1>5

\* Below the call that returns the calls stay nested, and what they get of it has
\* entries for nested declarations if theirs is nested.
LEMMA ReturnNests ==
  ASSUME IInv, NestingInv, parse # <<>>, parse' = Returned, nested' = nested,
         \A p \in Pads : \/ decl_map'[p].type = decl_map[p].type
                         \/ /\ p \in Top.ops /\ Top.loop = NoPad
                            /\ decl_map'[p].type = Top.type
                         \/ p = Top.loop /\ Top.loop # NoPad,
         said' = said, inner' = inner
  PROVE  CallsNested' /\ EntriesNested' /\ UntypedInner'
<1>1. TypeOK /\ parse \in Seq(Frame)
  BY DEF IInv, TypeOK
<1> DEFINE n == Len(parse)
<1>2. /\ n \in Frames /\ Top = parse[n] /\ Top.ops \subseteq Pads
      /\ Frames' = Frames \ {n}
      /\ \A i \in Frames :
           /\ i \in Int /\ i <= n
           /\ i # n => /\ parse'[i].type = parse[i].type
                       /\ parse'[i].loop = parse[i].loop
                       /\ parse'[i].ops \subseteq parse[i].ops \union Top.ops
  BY <1>1, FramesLeft
<1> HIDE DEF n
<1>3. CallsNested'
  BY <1>2 DEF NestingInv, CallsNested
<1>4. EntriesNested'
  <2> SUFFICES ASSUME NEW i \in Frames', NEW j \in Frames', i <= j, parse'[i].loop = NoPad,
                      NEW p \in parse'[j].ops, decl_map'[p].type # NoType
               PROVE  decl_map'[p].type \in nested
    BY DEF EntriesNested
  <2>1. /\ i \in Frames /\ j \in Frames /\ i # n /\ j # n /\ i < n /\ parse[i].loop = NoPad
        /\ p \in parse[j].ops \/ p \in Top.ops
    BY <1>2
  <2>2. p \in Pads
    BY <1>1, <1>2, <2>1, FrameFields
  <2>3. p # Top.loop
    BY <1>2, <2>1 DEF IInv, FramesApart
  <2>4. CASE decl_map'[p].type = Top.type
    BY <1>2, <2>1, <2>4 DEF NestingInv, CallsNested
  <2>5. CASE decl_map'[p].type = decl_map[p].type
    BY <1>2, <2>1, <2>5 DEF NestingInv, EntriesNested
  <2> QED BY <2>2, <2>3, <2>4, <2>5
<1>5. UntypedInner'
  <2>1. \A i, j \in Frames' : i <= j /\ parse'[i].loop = NoPad =>
          \A p \in parse'[j].ops : said[p] = NoType => p \in inner
    <3> SUFFICES ASSUME NEW i \in Frames', NEW j \in Frames', i <= j, parse'[i].loop = NoPad,
                        NEW p \in parse'[j].ops, said[p] = NoType
                 PROVE  p \in inner
      OBVIOUS
    <3>1. /\ i \in Frames /\ j \in Frames /\ i <= n /\ parse[i].loop = NoPad
          /\ p \in parse[j].ops \/ p \in parse[n].ops
      BY <1>2
    <3> QED BY <1>2, <3>1 DEF NestingInv, UntypedInner
  <2>2. \A p \in Pads : decl_map'[p].type # NoType /\ said[p] = NoType => p \in inner
    <3>1. \A p \in Top.ops : Top.loop = NoPad /\ said[p] = NoType => p \in inner
      BY <1>2 DEF NestingInv, UntypedInner
    <3>2. Top.loop # NoPad => said[Top.loop] # NoType
      BY <1>2 DEF NestingInv, UntypedInner
    <3> QED BY <3>1, <3>2 DEF NestingInv, UntypedInner
  <2>3. \A i \in Frames' : parse'[i].loop # NoPad => said[parse'[i].loop] # NoType
    BY <1>2 DEF NestingInv, UntypedInner
  <2> QED BY <2>1, <2>2, <2>3 DEF UntypedInner
<1> QED BY <1>3, <1>4, <1>5

LEMMA EndDeclarationNests ==
  ASSUME IInv, NestingInv, NEW owner \in Pads, EndDeclaration(owner)
  PROVE  NestingInv'
<1>1. /\ UNCHANGED <<heap, phase, crashed, nested, inner, said>>
      /\ parse # <<>> /\ parse' = Returned /\ phase = "parse" /\ ~ crashed
      /\ Top.loop = NoPad /\ owner \in Top.ops
  BY DEF EndDeclaration, Return, Parsing
<1>2. TypeOK
  BY DEF IInv
<1> DEFINE n == Len(parse)
<1>3. /\ n \in Frames /\ Top = parse[n] /\ Top.ops \subseteq Pads
      /\ Frames' = Frames \ {n}
      /\ \A i \in Frames :
           /\ i \in Int /\ i <= n
           /\ i # n => /\ parse'[i].type = parse[i].type
                       /\ parse'[i].loop = parse[i].loop
                       /\ parse[i].ops \subseteq parse'[i].ops
  BY <1>1, <1>2, FramesLeft
<1> HIDE DEF n
<1>4. \A p \in Pads : IF p \in Top.ops THEN decl_map'[p].type = Top.type
                      ELSE decl_map'[p] = decl_map[p]
  BY DEF EndDeclaration
<1>5. CallsNested' /\ EntriesNested' /\ UntypedInner'
  BY <1>1, <1>4, ReturnNests
\* What is overwritten was declared in the initializer.
<1>6. \A p \in Top.ops : decl_map[p].type # NoType => decl_map[p].type \in nested
  BY <1>1, <1>3 DEF NestingInv, EntriesNested
<1>7. CompiledWhole' /\ LeakOnlyNested'
  BY <1>1 DEF CompiledWhole, LeakOnlyNested
<1>8. LiveHeld'
  <2> SUFFICES ASSUME NEW t \in Types, heap[t] = "live", t \notin nested
               PROVE  (\E i \in Frames' : parse'[i].type = t) \/ (\E p \in Pads : decl_map'[p].type = t)
    BY <1>1 DEF LiveHeld
  <2>1. CASE \E i \in Frames : parse[i].type = t
    <3>1. PICK i \in Frames : parse[i].type = t
      BY <2>1
    <3>2. CASE i = n
      BY <1>1, <1>3, <1>4, <3>1, <3>2
    <3>3. CASE i # n
      BY <1>3, <3>1, <3>3
    <3> QED BY <3>2, <3>3
  <2>2. CASE \E p \in Pads : decl_map[p].type = t
    BY <1>4, <1>6, <2>2, TypedConstants
  <2> QED BY <1>1, <2>1, <2>2 DEF NestingInv, LiveHeld
<1>9. SaidHeld'
  <2> SUFFICES ASSUME NEW p \in Pads, said[p] # NoType, said[p] \notin nested
               PROVE  \/ decl_map'[p].type = said[p]
                      \/ \E i \in Frames' : /\ parse'[i].type = said[p]
                                            /\ \/ parse'[i].loop = p
                                               \/ parse'[i].loop = NoPad /\ p \in parse'[i].ops
    BY <1>1 DEF SaidHeld, Declaring
  <2>1. CASE decl_map[p].type = said[p]
    BY <1>4, <1>6, <2>1
  <2>2. CASE Declaring(p)
    <3>1. PICK i \in Frames : /\ parse[i].type = said[p]
                              /\ parse[i].loop = p \/ (parse[i].loop = NoPad /\ p \in parse[i].ops)
      BY <2>2 DEF Declaring
    <3>2. CASE i = n
      BY <1>1, <1>3, <1>4, <3>1, <3>2, TypedConstants
    <3>3. CASE i # n
      BY <1>3, <3>1, <3>3
    <3> QED BY <3>2, <3>3
  <2> QED BY <1>1, <2>1, <2>2 DEF NestingInv, SaidHeld
<1> QED BY <1>5, <1>7, <1>8, <1>9 DEF NestingInv

LEMMA EndEmptyDeclarationNests ==
  ASSUME IInv, NestingInv, EndEmptyDeclaration
  PROVE  NestingInv'
<1>1. /\ UNCHANGED <<decl_map, phase, nested, inner, said>>
      /\ parse # <<>> /\ parse' = Returned /\ phase = "parse" /\ ~ crashed
      /\ Top.loop = NoPad /\ Top.ops = {}
      /\ crashed' = TRUE \/ heap' = [heap EXCEPT ![Top.type] = "deleted"]
  BY DEF EndEmptyDeclaration, Return, Parsing
<1>2. TypeOK
  BY DEF IInv
<1> DEFINE n == Len(parse)
<1>3. /\ n \in Frames /\ Top = parse[n]
      /\ Frames' = Frames \ {n}
      /\ \A i \in Frames : i # n => /\ parse'[i].type = parse[i].type
                                    /\ parse'[i].loop = parse[i].loop
                                    /\ parse[i].ops \subseteq parse'[i].ops
  BY <1>1, <1>2, FramesLeft
<1> HIDE DEF n
<1>4. CallsNested' /\ EntriesNested' /\ UntypedInner'
  BY <1>1, ReturnNests
<1>5. CompiledWhole' /\ LeakOnlyNested'
  BY <1>1 DEF CompiledWhole, LeakOnlyNested
<1>6. LiveHeld'
  <2> SUFFICES ASSUME ~ crashed', NEW t \in Types, heap'[t] = "live", t \notin nested
               PROVE  (\E i \in Frames' : parse'[i].type = t) \/ (\E p \in Pads : decl_map[p].type = t)
    BY <1>1 DEF LiveHeld
  <2>1. t # Top.type /\ heap[t] = "live"
    BY <1>1, <1>2 DEF TypeOK
  <2> QED BY <1>1, <1>3, <2>1 DEF NestingInv, LiveHeld
<1>7. SaidHeld'
  <2> SUFFICES ASSUME NEW p \in Pads, said[p] # NoType, said[p] \notin nested
               PROVE  \/ decl_map[p].type = said[p]
                      \/ \E i \in Frames' : /\ parse'[i].type = said[p]
                                            /\ \/ parse'[i].loop = p
                                               \/ parse'[i].loop = NoPad /\ p \in parse'[i].ops
    BY <1>1 DEF SaidHeld, Declaring
  <2>1. CASE Declaring(p)
    <3>1. PICK i \in Frames : /\ parse[i].type = said[p]
                              /\ parse[i].loop = p \/ (parse[i].loop = NoPad /\ p \in parse[i].ops)
      BY <2>1 DEF Declaring
    <3>2. i # n
      BY <1>1, <1>3, <3>1, TypedConstants
    <3> QED BY <1>3, <3>1, <3>2
  <2> QED BY <1>1, <2>1 DEF NestingInv, SaidHeld
<1> QED BY <1>4, <1>5, <1>6, <1>7 DEF NestingInv

\* The variable of a typed loop had no entry: nothing is overwritten.
LEMMA EndLoopNests ==
  ASSUME IInv, NestingInv, EndLoop
  PROVE  NestingInv'
<1>1. /\ UNCHANGED <<heap, phase, crashed, nested, inner, said>>
      /\ parse # <<>> /\ parse' = Returned /\ phase = "parse" /\ ~ crashed
      /\ Top.loop # NoPad
  BY DEF EndLoop, Return, Parsing
<1>2. TypeOK
  BY DEF IInv
<1> DEFINE n == Len(parse)
<1>3. /\ n \in Frames /\ Top = parse[n]
      /\ Frames' = Frames \ {n}
      /\ \A i \in Frames : i # n => /\ parse'[i].type = parse[i].type
                                    /\ parse'[i].loop = parse[i].loop
                                    /\ parse[i].ops \subseteq parse'[i].ops
  BY <1>1, <1>2, FramesLeft
<1>4. Top.loop \in Pads
  BY <1>1, <1>2, TopFrame DEF TypeOK
<1> HIDE DEF n
<1>5. \A p \in Pads : IF p = Top.loop THEN decl_map'[p].type = Top.type
                      ELSE decl_map'[p] = decl_map[p]
  BY <1>2 DEF EndLoop, TypeOK
<1>6. CallsNested' /\ EntriesNested' /\ UntypedInner'
  BY <1>1, <1>5, ReturnNests
<1>7. decl_map[Top.loop].type = NoType
  BY <1>1, <1>3 DEF IInv, FramesFresh
<1>8. CompiledWhole' /\ LeakOnlyNested'
  BY <1>1 DEF CompiledWhole, LeakOnlyNested
<1>9. LiveHeld'
  <2> SUFFICES ASSUME NEW t \in Types, heap[t] = "live", t \notin nested
               PROVE  (\E i \in Frames' : parse'[i].type = t) \/ (\E p \in Pads : decl_map'[p].type = t)
    BY <1>1 DEF LiveHeld
  <2>1. CASE \E i \in Frames : parse[i].type = t
    BY <1>3, <1>4, <1>5, <2>1
  <2>2. CASE \E p \in Pads : decl_map[p].type = t
    BY <1>5, <1>7, <2>2, TypedConstants
  <2> QED BY <1>1, <2>1, <2>2 DEF NestingInv, LiveHeld
<1>10. SaidHeld'
  <2> SUFFICES ASSUME NEW p \in Pads, said[p] # NoType, said[p] \notin nested
               PROVE  \/ decl_map'[p].type = said[p]
                      \/ \E i \in Frames' : /\ parse'[i].type = said[p]
                                            /\ \/ parse'[i].loop = p
                                               \/ parse'[i].loop = NoPad /\ p \in parse'[i].ops
    BY <1>1 DEF SaidHeld, Declaring
  <2>1. CASE decl_map[p].type = said[p]
    BY <1>5, <1>7, <2>1
  <2>2. CASE Declaring(p)
    <3>1. PICK i \in Frames : /\ parse[i].type = said[p]
                              /\ parse[i].loop = p \/ (parse[i].loop = NoPad /\ p \in parse[i].ops)
      BY <2>2 DEF Declaring
    <3>2. CASE i = n
      BY <1>1, <1>3, <1>5, <3>1, <3>2
    <3>3. CASE i # n
      BY <1>3, <3>1, <3>3
    <3> QED BY <3>2, <3>3
  <2> QED BY <1>1, <2>1, <2>2 DEF NestingInv, SaidHeld
<1> QED BY <1>6, <1>8, <1>9, <1>10 DEF NestingInv
-----------------------------------------------------------------------------
(* The searches, and the end of the sub.                                   *)

LEMMA DeleteTermNests ==
  ASSUME IInv, NestingInv, NEW s \in Searches, NEW p \in Pads, DeleteTerm(s, p)
  PROVE  NestingInv'
<1>1. UNCHANGED <<parse, decl_map, phase, crashed, nested, inner, said>>
  BY DEF DeleteTerm
<1>2. \A t \in Types : heap'[t] = "live" => heap[t] = "live"
  BY DEF DeleteTerm
<1> QED BY <1>1, <1>2 DEF NestingInv, CallsNested, EntriesNested, CompiledWhole, LiveHeld, SaidHeld,
          Declaring, UntypedInner, LeakOnlyNested, Frames

\* A type in the map has an owner there, which deletes it.
LEMMA FreeSubNests ==
  ASSUME IInv, NestingInv, FreeSub
  PROVE  NestingInv'
<1>1. /\ UNCHANGED <<parse, decl_map, crashed, nested, inner, said>>
      /\ phase # "freed" /\ ~ crashed /\ phase' = "freed"
      /\ heap' = [t \in Types |-> IF Owners(t) # {} THEN "deleted" ELSE heap[t]]
  BY DEF FreeSub
<1>2. LeakOnlyNested'
  <2> SUFFICES ASSUME NEW t \in Types, heap'[t] = "live", t \notin nested
               PROVE  \E i \in Frames : parse[i].type = t
    BY <1>1 DEF LeakOnlyNested, Frames
  <2>1. heap[t] = "live" /\ Owners(t) = {}
    BY <1>1
  <2>2. \A p \in Pads : decl_map[p].type # t
    BY <2>1, TypedConstants DEF IInv, OwnerKept
  <2> QED BY <1>1, <2>1, <2>2 DEF NestingInv, LiveHeld
<1> QED BY <1>1, <1>2 DEF NestingInv, CallsNested, EntriesNested, CompiledWhole, LiveHeld, SaidHeld,
          Declaring, UntypedInner, Frames
-----------------------------------------------------------------------------
(* The theorems.                                                           *)

LEMMA StepNests ==
  ASSUME IInv, NestingInv, [Next]_vars
  PROVE  NestingInv'
<1> USE DEF NestingInv
<1>1. CASE UNCHANGED vars
  BY <1>1 DEF vars, CallsNested, EntriesNested, CompiledWhole, LiveHeld, SaidHeld,
       Declaring, UntypedInner, LeakOnlyNested, Frames
<1> HIDE DEF NestingInv
<1>2. ASSUME NEW t \in Types, BeginDeclaration(t)
      PROVE  NestingInv'
  BY <1>2, BeginNests DEF BeginDeclaration
<1>3. ASSUME NEW t \in Types, NEW p \in Pads, BeginLoop(t, p)
      PROVE  NestingInv'
  <2>1. p # NoPad
    BY TypedConstants
  <2> QED BY <1>3, <2>1, BeginNests DEF BeginLoop
<1>4. CASE Compiled
  BY <1>4 DEF Compiled, Parsing, NestingInv, CallsNested, EntriesNested, CompiledWhole, LiveHeld,
       SaidHeld, Declaring, UntypedInner, LeakOnlyNested, Frames
<1>5. CASE \E p \in Pads : Introduce(p)
  BY <1>5, IntroduceNests
<1>6. CASE Initializer
  BY <1>6, InitializerNests
<1>7. CASE \E p \in Pads : EndDeclaration(p)
  BY <1>7, EndDeclarationNests
<1>8. CASE EndEmptyDeclaration
  BY <1>8, EndEmptyDeclarationNests
<1>9. CASE EndLoop
  BY <1>9, EndLoopNests
<1>10. CASE \E s \in Searches, p \in Pads : Declare(s, p)
  BY <1>10 DEF Declare, NestingInv, CallsNested, EntriesNested, CompiledWhole, LiveHeld,
       SaidHeld, Declaring, UntypedInner, LeakOnlyNested, Frames
<1>11. CASE \E s \in Searches, p \in Pads : DeleteTerm(s, p)
  BY <1>11, DeleteTermNests
<1>12. CASE FreeSub
  BY <1>12, FreeSubNests
<1> QED BY <1>1, <1>2, <1>3, <1>4, <1>5, <1>6, <1>7, <1>8, <1>9, <1>10, <1>11, <1>12 DEF Next

\* However calls of the plugin nest, what they overwrite and leave was nested.
THEOREM NestingInvariant == Spec => []NestingInv
<1>1. Init => NestingInv
  BY InitNesting
<1>2. IInv /\ NestingInv /\ [Next]_vars => NestingInv'
  BY StepNests
<1> QED BY <1>1, <1>2, MapInvariant, PTL DEF Spec

\* After the sub is gone a type is left over only if its declaration stood in an
\* initializer, or if it was being parsed when compilation was given up.
THEOREM LeakOnlyNestedCorrect == Spec => []LeakOnlyNested
<1>1. NestingInv => LeakOnlyNested
  BY DEF NestingInv
<1> QED BY <1>1, NestingInvariant, PTL

\* Once the sub is compiled, a variable has the type its declaration gives it, and
\* none if that gives none, unless it was declared in the initializer of another
\* declaration.
THEOREM SaidUnlessNestedCorrect == Spec => []SaidUnlessNested
<1>1. NestingInv => SaidUnlessNested
  <2> SUFFICES ASSUME NestingInv, phase = "run",
                      NEW p \in Pads, p \notin inner, said[p] \notin nested
               PROVE  decl_map[p].type = said[p]
    BY DEF SaidUnlessNested, Overruled
  <2>1. parse = <<>> /\ ~ crashed
    BY DEF NestingInv, CompiledWhole
  <2>2. Frames = {}
    BY <2>1, EmptySeq DEF Frames
  <2>3. CASE said[p] = NoType
    BY <2>3 DEF NestingInv, UntypedInner
  <2>4. CASE said[p] # NoType
    BY <2>1, <2>2, <2>4 DEF NestingInv, SaidHeld, Declaring
  <2> QED BY <2>3, <2>4
<1> QED BY <1>1, NestingInvariant, PTL
=============================================================================
