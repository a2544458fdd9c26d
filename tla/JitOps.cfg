SPECIFICATION Spec
CONSTANTS
  Address = {a1, a2, a3}
  MaxEmitters = 3
INVARIANTS
  TypeOK
  UsesCounted
  CodeOutlivesContext
  CrashExplained
  EngineGoes
CHECK_DEADLOCK FALSE
