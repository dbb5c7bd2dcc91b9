CONSTANTS
  Order <- MCOrder
  ImportsOf <- MCImportsOf
  Programs <- MCPrograms
SPECIFICATION Spec
INVARIANTS RunsChecked LinkedAsChecked PrivateKept CollisionsPairwise RefusedExplained
CHECK_DEADLOCK FALSE
