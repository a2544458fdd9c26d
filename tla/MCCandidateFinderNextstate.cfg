CONSTANTS
  NoOp = NoOp
  Subs <- MCSubs
SPECIFICATION Spec
INVARIANT NextstateKnown
CHECK_DEADLOCK FALSE
