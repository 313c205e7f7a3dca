SPECIFICATION FairSpec
CONSTANTS
  t1 = t1
  t2 = t2
  c1 = c1
  c2 = c2
  Free = Free
  Tasks = {t1}
  Clients = {c1, c2}
  TaskOf <- SharedTask
  HistoryCap = 4
  ChanCap = 3
  MaxEvents = 3
  MaxConns = 2
INVARIANTS
  NeverBlocks
  NoSendOnClosedChannel
PROPERTIES
  TerminalReachesClient
  LostConnectionsLeave
  RefinesStream
CHECK_DEADLOCK FALSE
