---------------------------- MODULE MCTypeCover ----------------------------
(***************************************************************************)
(* TypeCover on every vector of at most three scalar types, on the vectors *)
(* of at most three types of t/021's composites, and on t/021's own vector *)
(* of all the scalars a variable can be declared with.                     *)
(***************************************************************************)
EXTENDS TypeCover

MCShapes == {<<>>, <<"array">>, <<"hash">>, <<"array", "hash">>}

Vectors(types) == {<<>>} \union UNION {[1..n -> types] : n \in 1..3}

Scalars == {[shape |-> <<>>, tag |-> tag] : tag \in Tags}

Composites ==
  {[shape |-> s, tag |-> tag] :
     s \in MCShapes,
     tag \in {"unspecified", "gv", "opaque", "scalar", "double", "int", "uint"}}

AllScalars ==
  [i \in 1..7 |->
     [shape |-> <<>>,
      tag |-> <<"scalar", "double", "int", "string", "uint", "unspecified", "opaque">>[i]]]

MCInputs == Vectors(Scalars) \union Vectors(Composites) \union {AllScalars}
=============================================================================
