\* Two members, two rounds, one chunk each way besides the opening exchange.
CONSTANTS
  N = 2
  proxyDialMaxRounds = 2
  proxyHedgeMaxInFlight = 2
  MaxChunks = 1
  SpliceTimeout = 2
  stalePathStallTimeout = 1
  proxyAbandonWindow = 1
  GateSlots = 1
SPECIFICATION FairSpec
INVARIANTS ResourcesAccounted VerdictsAreFair BytesAreAccounted
PROPERTY ConnectionsEnd
CHECK_DEADLOCK FALSE
