\* The instances of the modules that MCServices extends.
CONSTANTS
  Nodes = {"n1", "n2"}
  Served <- OneBody
  Junk = "j"
  Caps = {1}
  MaxAsked = 2
  ErrorRetry = 1
  RefreshInterval = 1
  RefTags = {"t"}
  Catalogue <- TwoReleases
  MaxMonth = 2
  Interval = 1
  Backoff = 0
  Members = {m1, m2}
  Flows = {f1}
  BindKeys = {"host", "site"}
  MoveMisses = 2
  MoveAfter = 1
  MissReset = 2
  StickyTTL = 3
  Upstreams = {m1, m2}
  Exits = {x1}
  NoExit = NoExit
  SiteAvoidStrikes = 2
  SiteAvoidWindow = 2
  SiteAvoidFor = 2
  SweepInterval = 2
  Rollup = 2
  RollupAge = 2
  Retention = 4
  MaxTime = 5
  MaxBytes = 3
  QueryLogQueue = 2
  QueryLogFlushAt = 2
  MaxLogEntries = 3
  MaxLogged = 6
  Services = {s1, s2}
  BundleDate = 1
  MaxScripts = 3
SPECIFICATION ServiceSpec
INVARIANTS  AccountsBalance  
 
CHECK_DEADLOCK FALSE
