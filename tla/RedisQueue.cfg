SPECIFICATION FairSpec
CONSTANTS
  Jobs = {j1}
  Workers = {w1, w2}
  Requeuers = {r1, r2}
  NoJob = NoJob
  LeaseTicks = 1
  HeartbeatTicks = 1
  Punctual = FALSE
  MaxCrashes = 2
  MaxWait = 3
INVARIANTS NotLost
PROPERTIES ImplementsJobQueue EventuallyRemoved
