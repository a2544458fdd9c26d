SPECIFICATION FairSpec
CONSTANTS
  Names = {A, B}
  Bare = Bare
  Dynamic = Dynamic
  Unseen = Unseen
  NoLoop = NoLoop
  Admitted = TRUE
  Loops = {l1, l2, l3}
  Nodes = {n1, n2}
INVARIANTS
  TypeOK
  ScopesMirrorLoops
  WaitsOnce
  WarningJustified
  UnknownLabelWarned
PROPERTIES
  ResolvesLexically
  EventuallyResolved
CHECK_DEADLOCK FALSE
