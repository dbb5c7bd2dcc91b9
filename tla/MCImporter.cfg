CONSTANTS
  Files <- MCFiles
  Main = "main"
  Graphs <- MCGraphs
  BadHeaders <- MCBadHeaders
  Public <- MCPublic
  Private <- MCPrivate
SPECIFICATION Spec
INVARIANTS TypeOK RecursionBounded QueueSorted
PROPERTIES ImplementsBuildOrder Ends
CHECK_DEADLOCK FALSE
