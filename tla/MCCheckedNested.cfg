CONSTANTS
  Programs <- MCNested
  Main = "__main__"
  NoCall = NoCall
  Void = {"__main__"}
SPECIFICATION CheckedSpec
PROPERTY ImplementsStructured
CHECK_DEADLOCK FALSE
