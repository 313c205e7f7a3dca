SPECIFICATION Spec
CONSTANTS
  Absent = Absent
  http = http
  app = app
  front = front
  back = back
  Targets <- AllTargets
INVARIANTS
  MissingIsNeverHealthy
  ConfirmedIsShown
  HealthyIsOverwritten
  ReportCoversCatalog
  AgreesWithInventory
CHECK_DEADLOCK FALSE
