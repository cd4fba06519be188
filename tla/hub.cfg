SPECIFICATION FairSpec
CONSTANTS
  c1 = c1
  c2 = c2
  Client <- TwoClients
  SendCap = 1
  BroadcastCap = 1
  MaxTopic = 1
  MaxCallback = 2
INVARIANTS TypeOK NoPanic InOrder
PROPERTY GoneClientsLeave
CHECK_DEADLOCK FALSE
