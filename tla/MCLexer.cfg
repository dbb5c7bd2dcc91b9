CONSTANT Sources <- MCSources
SPECIFICATION Spec
INVARIANTS TypeOK IndentsMatch LayoutKept
CHECK_DEADLOCK FALSE
