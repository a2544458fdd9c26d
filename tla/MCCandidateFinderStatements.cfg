CONSTANTS
  NoOp = NoOp
  Subs <- MCSubs
SPECIFICATION Spec
INVARIANT StatementsKept
CHECK_DEADLOCK FALSE
