SPECIFICATION Spec
CONSTANTS
  IntBits = 4
  SingleBits = 3
  DoubleBits = 3
  MaxFloat = 149
  MaxStatements = 5
  MaxFree = 2
  HashOf <- MCHashOf
  Words <- MCWords
  Mirror <- MCMirror
  Parameters <- MCParameters
  Namespaces <- MCNamespaces
  Functions <- MCFunctions
  Constructors <- MCConstructors
  GlobalScope <- MCGlobalScope
  Offered <- MCOffered
CHECK_DEADLOCK FALSE
INVARIANTS TypesKept FailsExplained MatchDecides ElementsAgree
PROPERTIES OthersKept
