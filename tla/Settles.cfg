\* PathBreaker: two connections to one destination, a roaming machine.
CONSTANTS
  Keys = {a}
  Conns = {c1, c2}
  TCPThreshold = 2
  UDPThreshold = 2
  Ladder <- TwoRungs
  ProbeInterval = 1
  EntryTTL = 2
  Routes = {r1, r2}
SPECIFICATION SettleSpec
INVARIANTS FlowIsKept UpdateIsSound
PROPERTIES BrakeIsFair TroubleEnds  FeedsCatchUp UpdateArrives
CHECK_DEADLOCK FALSE
