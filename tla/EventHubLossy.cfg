SPECIFICATION Spec
CONSTANTS
  t1 = t1
  t2 = t2
  c1 = c1
  c2 = c2
  Free = Free
  Tasks = {t1, t2}
  Clients = {c1, c2}
  TaskOf <- OwnTask
  HistoryCap = 2
  ChanCap = 1
  MaxEvents = 3
  MaxConns = 2
INVARIANTS
  HistoryIsLatest
  InOrder
CHECK_DEADLOCK FALSE
