SPECIFICATION Spec
CONSTANTS
  t1 = t1
  t2 = t2
  Tasks = {t1, t2}
  MaxRules = 2
  MaxSteps = 1
  MaxCrashes = 1
SYMMETRY Symmetric
INVARIANTS
  StoreAgreesWithStream
  IncidentMatchesTask
  CancellableWhileRunning
  StopsAtRuleBoundary
PROPERTIES
  RefinesTaskLife
CHECK_DEADLOCK FALSE
