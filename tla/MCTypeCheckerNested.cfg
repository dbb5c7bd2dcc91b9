CONSTANTS
  Lang = "lang"
  Imports <- MCImports
  Programs <- NestedPrograms
  Uses <- NestedUses
SPECIFICATION Spec
INVARIANT AcceptedWellFormed
CHECK_DEADLOCK FALSE
