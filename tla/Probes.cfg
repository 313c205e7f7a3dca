SPECIFICATION FairSpec
CONSTANTS
  Callers = {c1, c2, c3}
  Concurrencies <- MCConcurrencies
  Allowed = {"payment", "127.0.0.1"}
  Hosts = {"payment", "orders", "127.0.0.1"}
  InvalidHosts = {"127.0.0.1"}
  Ports <- MCPorts
  Timeouts <- MCTimeouts
  MaxCalls = 2
INVARIANTS
  SlotsAreHeld
PROPERTIES
  EveryCallReturns
CHECK_DEADLOCK FALSE
