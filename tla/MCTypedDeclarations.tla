------------------------ MODULE MCTypedDeclarations ------------------------
(* TypedDeclarations with three variables, three declarations and two        *)
(* searches: a declaration in the initializer of another one, with or         *)
(* without a typed loop around either, and both searches on their variables.  *)
EXTENDS TypedDeclarations, TLC

CONSTANTS a, b, arr, t1, t2, t3, s1, s2

MCPads == {a, b, arr}
MCAggregates == {arr}
MCTypes == {t1, t2, t3}
MCSearches == {s1, s2}

\* No action tells the two scalar variables, the types or the searches apart.
Symmetry == Permutations({a, b}) \union Permutations(MCTypes) \union Permutations(MCSearches)
=============================================================================
