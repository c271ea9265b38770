SPECIFICATION FairSpec
CONSTANTS
  Mains = {m1}
  w1 = w1
  w2 = w2
  Flows <- MCFlows
  Requests = {r1}
  Conflicts <- MCConflicts
  NoFlow = NoFlow
  NoMain = NoMain
  MaxRequests = 2
  MaxTurns = 1
CHECK_DEADLOCK FALSE
INVARIANTS TypeOK TimersFollowLeader
PROPERTIES Converges
