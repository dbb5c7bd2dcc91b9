CONSTANTS
  Lang = "lang"
  Imports <- MCImports
  Programs <- MCPrograms
  Uses <- MCUses
SPECIFICATION Spec
INVARIANTS AcceptedWellFormed RefusedIllFormed MarksSettled
CHECK_DEADLOCK FALSE
