CONSTANTS
  a = a
  b = b
  c = c
  wide = wide
  Locals <- MCLocals
  Globals = {}
  Width <- MCWidth
  MaxRuns = 1
  Junk = {0, 5}
SPECIFICATION Spec
INVARIANTS TypeOK LengthIsKet OwnQubits NoOrphans
PROPERTY ImplementsStore
CHECK_DEADLOCK FALSE
