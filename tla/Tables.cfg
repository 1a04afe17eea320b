\* FakeIPPool: two queries at once, store errors, a crash and a second start
\* from what the first left in the table.
\* ProxyTable: addresses that change hands between rules while entries expire.
\* QueryPath: two servers or one, answers of up to two addresses.
\* Outbounds: a row of every kind, each with a name to rename it to.
CONSTANTS
  n1 = n1
  n2 = n2
  t1 = t1
  t2 = t2
  Delete = Delete
  Block = Block
  None = None
  Unmapped = Unmapped
  Hosts = {n1, n2}
  Handlers = {t1, t2}
  Size = 2
  TTL = 1
  MaxTime = 1
  MaxRestarts = 2
  StoreMayFail = TRUE
  IPs = {ip1, ip2}
  RuleIDs = {r1, r2}
  Proxies = {p1}
  Hostnames = {h1}
  TTLs = {0, 2}
  MinTTL = 1
  KeepaliveTTL = 1
  MaxClock = 4
  XrayIds = {1}
  ProxyIds = {1}
  SubIds = {1}
  SetIds = {1}
  BoundRules = {r1}
  EntryNames = {n1, n2}
  ProxyNames = {n1, n2}
  SubNames = {n1, n2}
  SetNames = {n1, n2}
  MaxRefs = 1
  MaxRows = 2
  Sources = {"link", "user"}
  Protocols = {"vless", "shadowsocks", "socks"}
  LinkKeys <- LinkParameters
  BlockKeys = {{}, {"path"}}
  Binding <- FourMembers
  Standings <- FiveStandings
  Incumbents = {"m2", "none"}
  Ways <- SharedWays
  HysteresisFloor = 1
  FractionNum = 1
  FractionDen = 2
  Forwarders = {"both", "single"}
  Length <- TwoLists
  NoForwarder = NoForwarder
  RealAddresses = {ip1, ip2}
  FakeAddress = ip3
  Upstreams = {p1}
SPECIFICATION TableSpec
SYMMETRY TableSymmetry
INVARIANTS IndexIsExact DecisionsAreRight  LaunchesAreSound AnswersAreEarned
PROPERTIES LostOnlyToOwnRule LeasesAreSafe
CHECK_DEADLOCK FALSE
