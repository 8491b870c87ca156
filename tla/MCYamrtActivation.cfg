SPECIFICATION Spec
CONSTANT Sources <- Dropped
INVARIANT OutputsKept
CHECK_DEADLOCK FALSE
