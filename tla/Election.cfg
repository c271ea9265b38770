SPECIFICATION FairElection
CONSTANTS
  Mains = {m1, m2}
  NoMain = NoMain
  Ttl = 10
  Lease = 8
  Interval = 3
  MaxDelay = 0
  MaxCuts = 2
  MaxStops = 2
INVARIANTS LeaderHoldsLock
PROPERTY EventuallyLed
