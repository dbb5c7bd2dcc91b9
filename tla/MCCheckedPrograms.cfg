CONSTANTS
  Programs <- MCPrograms
  Main = "__main__"
  NoCall = NoCall
  Void = {"__main__"}
SPECIFICATION CheckedSpec
INVARIANTS FlagsSpent RefusalsJustified EndsExplained AcceptedInPlace
PROPERTY ImplementsStructured
CHECK_DEADLOCK FALSE
