SPECIFICATION FairSpec
CONSTANTS
  T = T
  L = L
  A = A
  B = B
  C = C
  M = M
  None = None
  Nodes <- MCNodes
  Workflows <- MCWorkflows
  MaxItems = 3
  MaxRuns = 2
CHECK_DEADLOCK FALSE
INVARIANTS TypeOK CarriedOnce ReusedIsCurrent AllBatchesKept
PROPERTIES Ended
