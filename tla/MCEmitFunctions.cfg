CONSTANT Subs <- MCSubs
SPECIFICATION Spec
CHECK_DEADLOCK FALSE
INVARIANT FunctionsWhole
