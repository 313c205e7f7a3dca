SPECIFICATION Spec
CONSTANTS
  Window = 1
  NamespaceOf <- MCNamespaceOf
  Pods <- MCPods
  Resources <- MCResources
  Messages = {m1, m2}
  Normalized <- MCNormalized
  Symptoms = {availability, oomkilled}
  Severities = {1, 3}
  MaxTime = 2
  MaxInputs = 3
SYMMETRY Symmetry
INVARIANTS
  SignalsAddUp
  EvidenceCountsOnce
  IncidentsAreChains
PROPERTIES
  IncidentsOnlyGrow
  SignalsChangeForCause
CHECK_DEADLOCK FALSE
