SPECIFICATION Spec
CONSTANTS
  a = a
  b = b
  arr = arr
  t1 = t1
  t2 = t2
  t3 = t3
  s1 = s1
  s2 = s2
  NoType = NoType
  NoPad = NoPad
  Pads <- MCPads
  Aggregates <- MCAggregates
  Types <- MCTypes
  Searches <- MCSearches
SYMMETRY Symmetry
INVARIANTS
  DeclaredSemantics
CHECK_DEADLOCK FALSE
