SPECIFICATION FairBatch
CONSTANTS
  Ops = {o1, o2, o3, o4}
  Databases = {"sqlite", "postgres"}
  MaxBatch = 3
  MaxErrors = 2
  MaxCrashes = 1
CHECK_DEADLOCK FALSE
INVARIANTS SqliteAnswersTruly InOrder
PROPERTY Answered
