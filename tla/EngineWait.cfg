SPECIFICATION FairSpec
CONSTANTS
  S = S
  A = A
  B = B
  M = M
  E = E
  None = None
  Nodes <- MCNodes
  Workflows <- MCWorkflows
  MaxNodeRuns = 9
  MaxPauses = 1
CHECK_DEADLOCK FALSE
INVARIANTS KeepsAll
