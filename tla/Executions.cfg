SPECIFICATION FairSpec
CONSTANTS
  Execs = {e1}
  Tasks = {t1, t2}
  Stoppers = {s1}
  NoTask = NoTask
  NoExec = NoExec
  MaxWaits = 2
  MaxCrashes = 1
  MaxSaveErrors = 1
  MaxDrops = 1
CHECK_DEADLOCK FALSE
INVARIANTS OneRun NoneStranded
PROPERTIES FinalIsFinal ComesToRest
