SPECIFICATION FairSpec
CONSTANTS
  Execs = {e1}
  Jobs = {j1, j2}
  Workers = {w1, w2}
  Callers = {c1, c2}
  NoJob = NoJob
  NoExec = NoExec
  MaxWaits = 1
  Deletable = {e1}
  MaxFaults = 1
CHECK_DEADLOCK FALSE
INVARIANTS OneInCharge Covered
PROPERTIES FinalIfDeliveredOnce ComesToRest
