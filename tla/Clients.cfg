SPECIFICATION FairClientsSpec
CONSTANTS
  t1 = t1
  Tasks = {t1}
  MaxRules = 1
  MaxSteps = 1
  MaxCrashes = 1
  MaxVisits = 2
INVARIANTS
  ClientsAgreeWithStore
PROPERTIES
  ResultStored
  PageHearsEnd
CHECK_DEADLOCK FALSE
