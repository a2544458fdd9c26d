SPECIFICATION Spec
CONSTANT Subs <- MCSubs
INVARIANTS
  TypeOK
  LogReplays
  OwnsWhatItRuns
  CodeKept
  PerlOrder
  ClearedLogged
  NullTypeExplained
CHECK_DEADLOCK FALSE
