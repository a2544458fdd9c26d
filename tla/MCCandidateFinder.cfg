CONSTANTS
  NoOp = NoOp
  Subs <- MCSubs
SPECIFICATION Spec
INVARIANTS
  TypeOK
  EachOpOnce
  LabelIsOwn
  SequenceIsStretch
  PointersLive
  NothingDropped
  DumpWhole
CHECK_DEADLOCK FALSE
