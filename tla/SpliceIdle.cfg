\* One member; the upstream sends while the client has nothing to say.
CONSTANTS
  N = 1
  proxyDialMaxRounds = 1
  proxyHedgeMaxInFlight = 1
  MaxChunks = 1
  SpliceTimeout = 2
  stalePathStallTimeout = 1
  proxyAbandonWindow = 1
  GateSlots = 1
SPECIFICATION Spec
PROPERTY OnlyIdleIsCut
CHECK_DEADLOCK FALSE
