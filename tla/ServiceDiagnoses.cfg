SPECIFICATION ServiceSpec
CONSTANTS
  Absent = Absent
  http = http
  app = app
  tier = tier
  front = front
  back = back
  Snapshots <- AllSnapshots
  Clusters <- UniqueNames
  Sources <- AnySource
  Requests <- AllRequests
  Probes = {"result", "error"}
INVARIANTS
  PathIsWhole
  RootCauseIsLastBreak
  ListsAgree
  ReadingsAgree
CHECK_DEADLOCK FALSE
