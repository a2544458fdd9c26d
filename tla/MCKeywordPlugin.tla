-------------------------- MODULE MCKeywordPlugin --------------------------
(***************************************************************************)
(* KeywordPlugin on all texts of up to four of seven tokens behind each    *)
(* keyword, on all names of types two constructors deep, and on both       *)
(* behind "for typed"; each cut into chunks in every way.                  *)
(***************************************************************************)
EXTENDS KeywordPlugin

TypesTwoDeep ==
  {Type(shape, name) : shape \in UNION {[1..n -> Constructors] : n \in 0..2},
                       name \in ScalarNames}

Letters == {" ", "ty", "ped", "Array[", "Int", "]", "other"}

TextsOf(n) == UNION {[1..k -> Letters] : k \in 0..n}

Names == {<<" ">> \o Name(t) \o <<" ", "other">> : t \in TypesTwoDeep}

ForTyped(text) == <<" ", "ty", "ped">> \o text

Source(text, keyword, hint) == [text |-> text, keyword |-> keyword, hint |-> hint]

MCSources ==
  {Source(t, k, "on") : t \in TextsOf(4) \union Names, k \in {"typed", "for"}}
  \union {Source(ForTyped(t), "for", "on") : t \in TextsOf(3) \union Names}
  \union {Source(t, k, h) : t \in TextsOf(2), k \in {"typed", "for", "while"},
                            h \in {"absent", "off"}}
  \union {Source(t, "while", "on") : t \in TextsOf(2)}
=============================================================================
