------------------------------ MODULE TypeCover ------------------------------
(***************************************************************************)
(* minimal_covering_type (src/pj_types.cpp): the narrowest type that holds *)
(* the values of all the given types.  The types are first made unique by  *)
(* name in an unordered_map, then folded in the order of the map, which    *)
(* is any order.                                                           *)
(*                                                                         *)
(* A type is its shape, the Array and Hash constructors from the outside   *)
(* in, and the tag of the scalar inside them.                              *)
(***************************************************************************)
EXTENDS Naturals, Sequences

CONSTANTS
  Shapes,    \* how deep the types go: sequences of "array" and "hash"
  Inputs,    \* the vectors of types that are asked about
  NoType     \* a null Type *

Tags ==
  {"unspecified", "any", "scalar", "gv", "opaque", "string", "double", "int", "uint"}

Type == [shape : Shapes, tag : Tags]

ASSUME TypeCoverConstants ==
  /\ Shapes \subseteq Seq({"array", "hash"})
  /\ Inputs \subseteq Seq(Type)
  /\ NoType \notin Type

VARIABLES
  uniq,      \* uniq_types: the types that are left of the vector
  todo,      \* those the iterator has not come to
  minimal,   \* minimal_type
  pc         \* "fold", then "none" or "aborted" if the loop is left early

vars == <<uniq, todo, minimal, pc>>

Like(tag) == IF tag = "any" THEN "unspecified" ELSE tag

\* Two types with one to_string, a key of the map.
SameName(s, t) == s.shape = t.shape /\ Like(s.tag) = Like(t.tag)

\* unique_types: of two types with one name the later replaces the earlier.
UniqueTypes(types) ==
  {types[i] : i \in {j \in 1..Len(types) :
                       \A k \in j + 1..Len(types) : ~ SameName(types[j], types[k])}}

Numeric == {"double", "int", "uint"}

\* Faulty variant: an int is wide enough for an unsigned int.
CoverTagsIntWins(left, right) ==
  LET pair == {left, right}
  IN IF Like(left) = Like(right)     THEN left
     ELSE IF "gv" \in pair           THEN "none"
     ELSE IF left = "unspecified"    THEN right
     ELSE IF right = "unspecified"   THEN left
     ELSE IF "opaque" \in pair       THEN "opaque"
     ELSE IF "scalar" \in pair       THEN "scalar"
     ELSE IF "string" \in pair       THEN "scalar"
     ELSE IF pair = {"int", "uint"}  THEN "int"
     ELSE IF pair \subseteq Numeric  THEN "double"
     ELSE "abort"

\* Faulty variant: opaque is as unrelated to the other scalars as a GV.
CoverTagsOpaqueAlone(left, right) ==
  LET pair == {left, right}
  IN IF Like(left) = Like(right)     THEN left
     ELSE IF "gv" \in pair           THEN "none"
     ELSE IF "opaque" \in pair       THEN "none"
     ELSE IF left = "unspecified"    THEN right
     ELSE IF right = "unspecified"   THEN left
     ELSE IF "scalar" \in pair       THEN "scalar"
     ELSE IF "string" \in pair       THEN "scalar"
     ELSE IF pair \subseteq Numeric  THEN "double"
     ELSE "abort"

\* minimal_covering_type_internal on two scalars.  is_unspecified asks for
\* pj_unspecified_type alone.
CoverTags(left, right) ==
  LET pair == {left, right}
  IN IF Like(left) = Like(right)     THEN left
     ELSE IF "gv" \in pair           THEN "none"
     ELSE IF left = "unspecified"    THEN right
     ELSE IF right = "unspecified"   THEN left
     ELSE IF "opaque" \in pair       THEN "opaque"
     ELSE IF "scalar" \in pair       THEN "scalar"
     ELSE IF "string" \in pair       THEN "scalar"
     ELSE IF pair \subseteq Numeric  THEN "double"
     ELSE "abort"

\* The tag at the heart of minimal_covering_type_internal's recursion.
CoverTag(left, right) ==
  IF left.shape = right.shape THEN CoverTags(left.tag, right.tag) ELSE "none"

\* What it then makes of it: a composite answers with one of its arguments.
Covering(left, right) ==
  IF left.shape = <<>> THEN [shape |-> <<>>, tag |-> CoverTag(left, right)]
  ELSE IF CoverTag(left, right) = left.tag THEN left ELSE right

Init ==
  /\ \E types \in Inputs : uniq = UniqueTypes(types)
  /\ todo = uniq
  /\ minimal = NoType
  /\ pc = "fold"

\* Faulty variant: a null covering type is not noticed.
FoldUnchecked(t) ==
  /\ pc = "fold"
  /\ todo' = todo \ {t}
  /\ IF minimal = NoType THEN minimal' = t /\ UNCHANGED pc
     ELSE IF minimal = t THEN UNCHANGED <<minimal, pc>>
     ELSE minimal' = Covering(minimal, t) /\ UNCHANGED pc
  /\ UNCHANGED uniq

\* The body of the loop for the entry t of the map.
Fold(t) ==
  /\ pc = "fold"
  /\ todo' = todo \ {t}
  /\ IF minimal = NoType THEN minimal' = t /\ UNCHANGED pc
     ELSE IF minimal = t THEN UNCHANGED <<minimal, pc>>
     ELSE CASE CoverTag(minimal, t) = "none"  -> minimal' = NoType /\ pc' = "none"
            [] CoverTag(minimal, t) = "abort" -> pc' = "aborted" /\ UNCHANGED minimal
            [] OTHER -> minimal' = Covering(minimal, t) /\ UNCHANGED pc
  /\ UNCHANGED uniq

Next == \E t \in todo : Fold(t)

Spec == Init /\ [][Next]_vars
-----------------------------------------------------------------------------
(***************************************************************************)
(* The reference: which types hold the values of which.  t/021 and         *)
(* doc/types.txt: an opaque scalar is the most relaxed scalar, a double    *)
(* holds both kinds of integers, an unspecified scalar takes the type of   *)
(* the other, arrays and hashes go by their elements, a GV is unrelated.   *)
(***************************************************************************)
Holders ==
  [tag \in Tags |->
     CASE tag = "gv"     -> {"gv"}
       [] tag = "opaque" -> {"opaque"}
       [] tag = "scalar" -> {"scalar", "opaque"}
       [] tag \in {"string", "double"} -> {tag, "scalar", "opaque"}
       [] tag \in {"int", "uint"}      -> {tag, "double", "scalar", "opaque"}
       [] OTHER -> Tags \ {"gv"}]

Holds(wide, narrow) == wide.shape = narrow.shape /\ wide.tag \in Holders[narrow.tag]

CoversAll(type, types) == \A t \in types : Holds(type, t)

LeastOf(type, types) ==
  /\ CoversAll(type, types)
  /\ \A u \in Type : CoversAll(u, types) => Holds(u, type)

Seen == uniq \ todo

\* Arrays and hashes of one shape whose elements one can be ordered.
Ordered == \A s, t \in uniq :
  s.shape = t.shape /\ s.shape # <<>> => Holds(s, t) \/ Holds(t, s)

Plain == Ordered /\ \A t \in uniq : t.tag # "any"

\* Every variable has its type.
TypeOK ==
  /\ uniq \subseteq Type
  /\ todo \subseteq uniq
  /\ minimal \in Type \union {NoType}
  /\ pc \in {"fold", "none", "aborted"}

\* Whatever the order of the map, the type found so far is the least one that
\* holds all the types seen.
LeastSoFar ==
  Plain => pc # "aborted" /\ (pc = "fold" /\ Seen # {} => LeastOf(minimal, Seen))

\* The loop gives up only when no type at all holds the given ones.
NoneJustified == Plain /\ pc = "none" => \A u \in Type : ~ CoversAll(u, uniq)

\* The inductive invariant.  The type in hand holds all the types seen and is
\* held by every type that does; if it is a composite it is one of them, for
\* the covering of two composites is never a third.
IInv ==
  Plain =>
    /\ pc # "aborted"
    /\ pc = "fold" /\ Seen # {} => minimal # NoType
    /\ minimal # NoType =>
         /\ minimal.tag # "any"
         /\ minimal.shape # <<>> => minimal \in uniq
         /\ pc = "fold" => LeastOf(minimal, Seen)
    /\ pc = "none" => \A u \in Type : ~ CoversAll(u, uniq)
=============================================================================
