SPECIFICATION Spec
CONSTANTS
  IntBits = 5
  SingleBits = 1
  DoubleBits = 2
  MaxFloat = 279
  MaxText = 4
  HashOf <- MCHashOf
  Words <- MCWords
  Mirror <- MCMirror
  Samples <- MCSamples
CHECK_DEADLOCK FALSE
INVARIANTS
  ReturnsDeclared
  Agrees
PROPERTIES
  ReadsBack
