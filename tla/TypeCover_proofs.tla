-------------------------- MODULE TypeCover_proofs --------------------------
(***************************************************************************)
(* minimal_covering_type finds the least covering type for every input and *)
(* every order of the map, as long as no type of the input is pj_any_type  *)
(* and no two of its composites have elements that cannot be ordered.      *)
(*                                                                         *)
(* The facts about tags are cases over the nine of them; the facts about   *)
(* types lift them to equal shapes; the rest is one induction on the fold. *)
(***************************************************************************)
EXTENDS TypeCover, TLAPS

\* The rows of Holders, which the cases below are decided by.
LEMMA HolderRows ==
  /\ Holders["gv"]          = {"gv"}
  /\ Holders["opaque"]      = {"opaque"}
  /\ Holders["scalar"]      = {"scalar", "opaque"}
  /\ Holders["string"]      = {"string", "scalar", "opaque"}
  /\ Holders["double"]      = {"double", "scalar", "opaque"}
  /\ Holders["int"]         = {"int", "double", "scalar", "opaque"}
  /\ Holders["uint"]        = {"uint", "double", "scalar", "opaque"}
  /\ Holders["unspecified"] = Tags \ {"gv"}
  /\ Holders["any"]         = Tags \ {"gv"}
BY DEF Holders, Tags

\* Every tag is held by itself.
LEMMA TagReflexive == ASSUME NEW a \in Tags PROVE a \in Holders[a]
BY HolderRows DEF Tags

\* What holds a tag that holds another holds the other.
LEMMA TagTransitive ==
  ASSUME NEW a \in Tags, NEW b \in Holders[a], NEW c \in Holders[b]
  PROVE  c \in Holders[a]
BY HolderRows DEF Tags

\* The rules of CoverTags in the order they are tried.
LEMMA CoverTagsRules ==
  ASSUME NEW a \in Tags \ {"any"}, NEW b \in Tags \ {"any"}
  PROVE  CoverTags(a, b) =
           IF a = b THEN a
           ELSE IF a = "gv" \/ b = "gv" THEN "none"
           ELSE IF a = "unspecified" THEN b
           ELSE IF b = "unspecified" THEN a
           ELSE IF a = "opaque" \/ b = "opaque" THEN "opaque"
           ELSE IF a = "scalar" \/ b = "scalar" THEN "scalar"
           ELSE IF a = "string" \/ b = "string" THEN "scalar"
           ELSE "double"
BY DEF CoverTags, Like, Numeric, Tags

\* The covering of two scalar tags is the least tag that holds both, and there
\* is none only if no tag does.  pj_any_type is left out: it aborts.
LEMMA TagCover ==
  ASSUME NEW a \in Tags \ {"any"}, NEW b \in Tags \ {"any"}
  PROVE  /\ CoverTags(a, b) # "none" =>
              /\ CoverTags(a, b) \in Tags \ {"any"}
              /\ CoverTags(a, b) \in Holders[a]
              /\ CoverTags(a, b) \in Holders[b]
              /\ Holders[a] \intersect Holders[b] \subseteq Holders[CoverTags(a, b)]
         /\ CoverTags(a, b) = "none" => Holders[a] \intersect Holders[b] = {}
<1>1. CASE a = "gv" BY <1>1, CoverTagsRules, HolderRows DEF Tags
<1>2. CASE a = "opaque" BY <1>2, CoverTagsRules, HolderRows DEF Tags
<1>3. CASE a = "scalar" BY <1>3, CoverTagsRules, HolderRows DEF Tags
<1>4. CASE a = "string" BY <1>4, CoverTagsRules, HolderRows DEF Tags
<1>5. CASE a = "double" BY <1>5, CoverTagsRules, HolderRows DEF Tags
<1>6. CASE a = "int" BY <1>6, CoverTagsRules, HolderRows DEF Tags
<1>7. CASE a = "uint" BY <1>7, CoverTagsRules, HolderRows DEF Tags
<1>8. CASE a = "unspecified" BY <1>8, CoverTagsRules, HolderRows DEF Tags
<1>9. QED BY <1>1, <1>2, <1>3, <1>4, <1>5, <1>6, <1>7, <1>8 DEF Tags

\* If one tag holds the other it is their covering.
LEMMA TagCoverOrdered ==
  ASSUME NEW a \in Tags \ {"any"}, NEW b \in Tags \ {"any"}
  PROVE  /\ b \in Holders[a] => CoverTags(a, b) = b
         /\ a \in Holders[b] => CoverTags(a, b) = a
BY CoverTagsRules, HolderRows DEF Tags
-----------------------------------------------------------------------------
\* Holds is a preorder on types.
LEMMA HoldsReflexive == ASSUME NEW s \in Type PROVE Holds(s, s)
BY TagReflexive DEF Holds, Type

LEMMA HoldsTransitive ==
  ASSUME NEW r \in Type, NEW s \in Type, NEW t \in Type, Holds(r, s), Holds(s, t)
  PROVE  Holds(r, t)
<1>1. s.tag \in Holders[t.tag] /\ r.tag \in Holders[s.tag] /\ t.tag \in Tags
  BY DEF Holds, Type
<1>2. r.tag \in Holders[t.tag]
  BY <1>1, TagTransitive
<1>3. QED BY <1>2 DEF Holds

\* The covering of two types, neither with pj_any_type in it, and one holding the
\* other if they are composites, is their least upper bound; a composite
\* covering is one of the two; with no covering there is no upper bound.
LEMMA CoveringLeast ==
  ASSUME NEW s \in Type, NEW t \in Type, s.tag # "any", t.tag # "any",
         s.shape = t.shape /\ s.shape # <<>> => Holds(s, t) \/ Holds(t, s)
  PROVE  /\ CoverTag(s, t) # "abort"
         /\ CoverTag(s, t) # "none" =>
              /\ Covering(s, t) \in Type
              /\ Covering(s, t).tag # "any"
              /\ Covering(s, t).shape # <<>> => Covering(s, t) \in {s, t}
              /\ Holds(Covering(s, t), s) /\ Holds(Covering(s, t), t)
              /\ \A u \in Type : Holds(u, s) /\ Holds(u, t) => Holds(u, Covering(s, t))
         /\ CoverTag(s, t) = "none" => \A u \in Type : ~ (Holds(u, s) /\ Holds(u, t))
<1> DEFINE c == CoverTags(s.tag, t.tag)
<1>1. s.tag \in Tags \ {"any"} /\ t.tag \in Tags \ {"any"}
  BY DEF Type
<1>2. /\ c # "none" =>
           /\ c \in Tags \ {"any"}
           /\ c \in Holders[s.tag]
           /\ c \in Holders[t.tag]
           /\ Holders[s.tag] \intersect Holders[t.tag] \subseteq Holders[c]
      /\ c = "none" => Holders[s.tag] \intersect Holders[t.tag] = {}
  BY <1>1, TagCover
<1>3. "abort" \notin Tags /\ "none" # "abort"
  BY DEF Tags
<1> HIDE DEF c
<1>4. CASE s.shape # t.shape
  <2>1. CoverTag(s, t) = "none"
    BY <1>4 DEF CoverTag
  <2>2. QED BY <1>3, <1>4, <2>1 DEF Holds
<1>5. CASE s.shape = t.shape /\ s.shape = <<>>
  <2>1. CoverTag(s, t) = c /\ Covering(s, t) = [shape |-> <<>>, tag |-> c]
    BY <1>5 DEF CoverTag, Covering, c
  <2>2. c # "none" => Covering(s, t) \in Type
    BY <1>2, <1>5, <2>1 DEF Type
  <2>3. QED BY <1>2, <1>3, <1>5, <2>1, <2>2 DEF Holds
<1>6. CASE s.shape = t.shape /\ s.shape # <<>>
  <2>1. CoverTag(s, t) = c
    BY <1>6 DEF CoverTag, c
  <2>2. /\ t.tag \in Holders[s.tag] => c = t.tag
        /\ s.tag \in Holders[t.tag] => c = s.tag
    BY <1>1, TagCoverOrdered DEF c
  <2>3. t.tag \in Holders[s.tag] \/ s.tag \in Holders[t.tag]
    BY <1>6 DEF Holds
  <2>4. Covering(s, t) = IF c = s.tag THEN s ELSE t
    BY <1>6, <2>1 DEF Covering
  <2>5. Covering(s, t).tag = c /\ Covering(s, t).shape = s.shape
    BY <1>6, <2>2, <2>3, <2>4
  <2>6. Covering(s, t) \in {s, t} /\ Covering(s, t) \in Type
    BY <2>4
  <2>7. QED BY <1>1, <1>2, <1>3, <1>6, <2>1, <2>2, <2>3, <2>5, <2>6 DEF Holds
<1>7. QED BY <1>4, <1>5, <1>6
-----------------------------------------------------------------------------
\* A covering type is a type, pj_any_type or not.
LEMMA CoveringTyped ==
  ASSUME NEW s \in Type, NEW t \in Type, CoverTag(s, t) \notin {"none", "abort"}
  PROVE  Covering(s, t) \in Type
<1>1. CASE s.shape = <<>>
  <2>1. s.shape = t.shape
    BY DEF CoverTag
  <2>2. CoverTag(s, t) \in Tags
    BY <2>1 DEF CoverTag, CoverTags, Like, Type, Tags
  <2>3. QED BY <1>1, <2>2 DEF Covering, Type
<1>2. CASE s.shape # <<>>
  BY <1>2 DEF Covering
<1>3. QED BY <1>1, <1>2

\* The types of the map are among those of the vector.
LEMMA InitTyped == Init => TypeOK
<1> SUFFICES ASSUME Init PROVE TypeOK
  OBVIOUS
<1>1. PICK types \in Inputs : uniq = UniqueTypes(types)
  BY DEF Init
<1>2. types \in Seq(Type)
  BY TypeCoverConstants
<1>3. \A i \in 1..Len(types) : types[i] \in Type
  BY <1>2
<1>4. uniq \subseteq Type
  BY <1>1, <1>3 DEF UniqueTypes
<1>5. QED BY <1>4 DEF Init, TypeOK

LEMMA NextTyped == TypeOK /\ [Next]_vars => TypeOK'
<1> SUFFICES ASSUME TypeOK, [Next]_vars PROVE TypeOK'
  OBVIOUS
<1>1. CASE UNCHANGED vars
  BY <1>1 DEF TypeOK, vars
<1>2. ASSUME NEW t \in todo, Fold(t) PROVE TypeOK'
  <2>1. t \in Type
    BY DEF TypeOK
  <2>2. CASE minimal = NoType \/ minimal = t
    BY <1>2, <2>1, <2>2 DEF Fold, TypeOK
  <2>3. CASE minimal # NoType /\ minimal # t /\ CoverTag(minimal, t) \in {"none", "abort"}
    BY <1>2, <2>3 DEF Fold, TypeOK
  <2>4. CASE minimal # NoType /\ minimal # t /\ CoverTag(minimal, t) \notin {"none", "abort"}
    <3>1. minimal \in Type
      BY <2>4 DEF TypeOK
    <3>2. Covering(minimal, t) \in Type
      BY <2>1, <2>4, <3>1, CoveringTyped
    <3>3. minimal' = Covering(minimal, t) /\ UNCHANGED <<pc, uniq>> /\ todo' = todo \ {t}
      BY <1>2, <2>4 DEF Fold
    <3>4. QED BY <3>2, <3>3 DEF TypeOK
  <2>5. QED BY <2>2, <2>3, <2>4
<1>3. QED BY <1>1, <1>2 DEF Next

\* Every variable has its type, for every set of inputs.
THEOREM TypeCorrect == Spec => []TypeOK
BY InitTyped, NextTyped, PTL DEF Spec
-----------------------------------------------------------------------------
\* One turn of the loop keeps the type in hand the least covering type.
LEMMA FoldKeeps ==
  ASSUME TypeOK, IInv, Plain, NEW t \in todo, Fold(t)
  PROVE  /\ pc' # "aborted"
         /\ pc' = "fold" /\ Seen' # {} => minimal' # NoType
         /\ minimal' # NoType =>
              /\ minimal'.tag # "any"
              /\ minimal'.shape # <<>> => minimal' \in uniq
              /\ pc' = "fold" => LeastOf(minimal', Seen')
         /\ pc' = "none" => \A u \in Type : ~ CoversAll(u, uniq)
<1>1. /\ pc = "fold" /\ todo' = todo \ {t} /\ uniq' = uniq
      /\ t \in Type /\ t \in uniq /\ t.tag # "any"
  BY DEF Fold, TypeOK, Plain
<1>2. Seen' = Seen \union {t} /\ Seen \subseteq uniq /\ Seen \subseteq Type
  BY <1>1 DEF Seen, TypeOK
<1>3. /\ Seen # {} => minimal # NoType
      /\ minimal # NoType =>
           /\ minimal \in Type
           /\ minimal.tag # "any"
           /\ minimal.shape # <<>> => minimal \in uniq
           /\ LeastOf(minimal, Seen)
  BY <1>1 DEF IInv, TypeOK
<1>4. NoType \notin Type
  BY TypeCoverConstants
<1>5. CASE minimal = NoType
  <2>1. minimal' = t /\ pc' = pc /\ Seen' = {t}
    BY <1>1, <1>2, <1>3, <1>5 DEF Fold
  <2>2. LeastOf(t, {t})
    BY <1>1, HoldsReflexive DEF LeastOf, CoversAll
  <2>3. QED BY <1>1, <1>4, <2>1, <2>2
<1>6. CASE minimal # NoType /\ minimal = t
  <2>1. minimal' = t /\ pc' = pc
    BY <1>6 DEF Fold
  <2>2. LeastOf(t, Seen')
    BY <1>1, <1>2, <1>3, <1>6, HoldsReflexive DEF LeastOf, CoversAll
  <2>3. QED BY <1>1, <1>4, <2>1, <2>2
<1>7. CASE minimal # NoType /\ minimal # t
  <2>1. minimal.shape = t.shape /\ minimal.shape # <<>> => Holds(minimal, t) \/ Holds(t, minimal)
    BY <1>1, <1>3, <1>7 DEF Plain, Ordered
  <2> DEFINE c == Covering(minimal, t)
  <2>2. /\ CoverTag(minimal, t) # "abort"
        /\ CoverTag(minimal, t) # "none" =>
             /\ c \in Type
             /\ c.tag # "any"
             /\ c.shape # <<>> => c \in {minimal, t}
             /\ Holds(c, minimal) /\ Holds(c, t)
             /\ \A u \in Type : Holds(u, minimal) /\ Holds(u, t) => Holds(u, c)
        /\ CoverTag(minimal, t) = "none" =>
             \A u \in Type : ~ (Holds(u, minimal) /\ Holds(u, t))
    BY <1>1, <1>3, <1>7, <2>1, CoveringLeast
  <2>3. CASE CoverTag(minimal, t) = "none"
    <3>1. minimal' = NoType /\ pc' = "none"
      BY <1>7, <2>3 DEF Fold
    <3>2. ASSUME NEW u \in Type, CoversAll(u, uniq) PROVE FALSE
      <4>1. CoversAll(u, Seen) /\ Holds(u, t)
        BY <1>1, <1>2, <3>2 DEF CoversAll
      <4>2. Holds(u, minimal)
        BY <1>3, <1>7, <4>1 DEF LeastOf
      <4>3. QED BY <2>2, <2>3, <4>1, <4>2
    <3>3. QED BY <3>1, <3>2
  <2>4. CASE CoverTag(minimal, t) # "none"
    <3>1. minimal' = c /\ pc' = pc
      BY <1>7, <2>2, <2>4 DEF Fold
    <3>2. ASSUME NEW s \in Seen' PROVE Holds(c, s)
      <4>1. CASE s = t BY <2>2, <2>4, <4>1
      <4>2. CASE s \in Seen
        <5>1. Holds(minimal, s) /\ s \in Type
          BY <1>2, <1>3, <1>7, <4>2 DEF LeastOf, CoversAll
        <5>2. QED BY <1>3, <1>7, <2>2, <2>4, <5>1, HoldsTransitive
      <4>3. QED BY <1>2, <4>1, <4>2
    <3>3. ASSUME NEW u \in Type, CoversAll(u, Seen') PROVE Holds(u, c)
      <4>1. CoversAll(u, Seen) /\ Holds(u, t)
        BY <1>2, <3>3 DEF CoversAll
      <4>2. Holds(u, minimal)
        BY <1>3, <1>7, <4>1 DEF LeastOf
      <4>3. QED BY <2>2, <2>4, <4>1, <4>2
    <3>4. LeastOf(c, Seen')
      BY <3>2, <3>3 DEF LeastOf, CoversAll
    <3>5. c.shape # <<>> => c \in uniq
      <4>1. SUFFICES ASSUME c.shape # <<>> PROVE c \in uniq
        OBVIOUS
      <4>2. CASE c = t BY <1>1, <4>2
      <4>3. CASE c = minimal BY <1>3, <1>7, <4>1, <4>3
      <4>4. QED BY <2>2, <2>4, <4>1, <4>2, <4>3
    <3>6. QED BY <1>1, <1>4, <2>2, <2>4, <3>1, <3>4, <3>5
  <2>5. QED BY <2>3, <2>4
<1>8. QED BY <1>5, <1>6, <1>7

LEMMA InitIInv == Init /\ TypeOK => IInv
BY TypeCoverConstants DEF Init, IInv, Seen

LEMMA NextIInv == TypeOK /\ IInv /\ [Next]_vars => IInv'
<1> SUFFICES ASSUME TypeOK, IInv, [Next]_vars PROVE IInv'
  OBVIOUS
<1>1. CASE UNCHANGED vars
  BY <1>1 DEF IInv, Plain, Ordered, Seen, vars
<1>2. ASSUME NEW t \in todo, Fold(t) PROVE IInv'
  <2>1. uniq' = uniq
    BY <1>2 DEF Fold
  <2>2. Plain' => Plain
    BY <2>1 DEF Plain, Ordered
  <2>3. QED BY <1>2, <2>1, <2>2, FoldKeeps DEF IInv
<1>3. QED BY <1>1, <1>2 DEF Next

\* The inductive invariant holds, for every set of inputs and every order of the
\* map.
THEOREM InvariantCorrect == Spec => []IInv
<1>1. Init => TypeOK /\ IInv
  BY InitTyped, InitIInv
<1>2. (TypeOK /\ IInv) /\ [Next]_vars => (TypeOK /\ IInv)'
  BY NextTyped, NextIInv
<1>3. QED BY <1>1, <1>2, PTL DEF Spec

\* Whatever the order of the map, the type found is the least one that holds
\* all the types it has seen.
THEOREM LeastCorrect == Spec => []LeastSoFar
<1>1. IInv => LeastSoFar
  BY DEF IInv, LeastSoFar
<1>2. QED BY <1>1, InvariantCorrect, PTL

\* minimal_covering_type answers that there is no covering type only when no
\* type at all holds the given ones.
THEOREM NoneCorrect == Spec => []NoneJustified
<1>1. IInv => NoneJustified
  BY DEF IInv, NoneJustified
<1>2. QED BY <1>1, InvariantCorrect, PTL
=============================================================================
