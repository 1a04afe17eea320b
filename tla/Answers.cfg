\* FakeIPPool: one query at a time: refresh throttling, eviction, exhaustion, restarts.
CONSTANTS
  r1 = r1
  r2 = r2
  d1 = d1
  d2 = d2
  utun4 = utun4
  tun = tun
  p1 = p1
  e1 = e1
  q1 = q1
  Block = Block
  Hosts = {h1, h2}
  Handlers = {t1}
  Size = 2
  TTL = 4
  MaxTime = 3
  MaxRestarts = 2
  StoreMayFail = FALSE
  None = None
  Delete = Delete
SPECIFICATION AnswerSpec
  
PROPERTIES CleanRestartKeepsLeases WritesAreTakenUp StaleBindingsVanish
CHECK_DEADLOCK FALSE
