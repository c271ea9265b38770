SPECIFICATION Spec
CONSTANTS
  Jobs = {j1}
  Workers = {w1, w2}
  Requeuers = {r1, r2}
  NoJob = NoJob
  LeaseTicks = 2
  HeartbeatTicks = 1
  Punctual = TRUE
  MaxCrashes = 1
  MaxWait = 2
SYMMETRY Symmetry
INVARIANT OneRunner
