\* A caller and the sweeper interleave between map and kernel; route add may
\* fail and the process may die.
CONSTANTS
  Dests = {d1, d2}
  Ifaces = {tun, en}
  OwnTun = tun
  DomainRules = {r1}
  IPRules = {r2}
  Callers = {w1}
  Sweeper = sweeper
  TTL = 0
  MaxTime = 2
  MaxCrashes = 1
  AddMayFail = TRUE
  DeleteMayFail = FALSE
  None = None
SPECIFICATION FairSpec
INVARIANT NoOrphanRoute
PROPERTY ExpiredAreReclaimed
CHECK_DEADLOCK FALSE
