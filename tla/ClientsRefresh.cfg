SPECIFICATION ClientsSpec
CONSTANTS
  t1 = t1
  Tasks = {t1}
  MaxRules = 1
  MaxSteps = 1
  MaxCrashes = 0
  MaxVisits = 1
INVARIANTS
  ReportRefreshable
CHECK_DEADLOCK FALSE
