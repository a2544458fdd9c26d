CONSTANTS
  Shapes <- MCShapes
  Inputs <- MCInputs
  NoType = NoType
SPECIFICATION Spec
CHECK_DEADLOCK FALSE
INVARIANTS TypeOK LeastSoFar NoneJustified
