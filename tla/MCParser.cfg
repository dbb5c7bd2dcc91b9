SPECIFICATION Spec
CONSTANTS
  Programs <- MCPrograms
  Disturbed <- MCDisturbed
  Spares <- MCSpares
CHECK_DEADLOCK FALSE
INVARIANTS RoundTrip AcceptedMeans Recovers
PROPERTIES Advances
