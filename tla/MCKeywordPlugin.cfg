SPECIFICATION Spec
CONSTANTS
  Sources <- MCSources
  NoType = NoType
INVARIANTS
  TypeOK
  ReadsAsWritten
  LeftAsFound
CHECK_DEADLOCK FALSE
