SPECIFICATION FairSpec
CONSTANTS
  Jobs = {1, 2}
  Workers = {w1, w2}
  NoJob = NoJob
  LeaseTicks = 3
  HeartbeatTicks = 1
  Punctual = TRUE
  MaxCrashes = 2
INVARIANTS OneRunner
PROPERTIES ImplementsJobQueue EventuallyRemoved
