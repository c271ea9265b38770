SPECIFICATION FairSpec
CONSTANTS
  Updates = {1, 2}
  Doubtful = {2}
  c1 = c1
  Chats = {c1}
  ChatOf <- MCChatOf
  Pollers = {1, 2, 3, 4}
  Handlers = {h1, h2}
  MaxAsks = 2
  MaxFaults = 1
CHECK_DEADLOCK FALSE
INVARIANTS TypeOK NoneVanishes NoneSkipped RegistryFollowsRow OneAtATime
PROPERTIES Handled
