SPECIFICATION Spec
CONSTANTS
  s1 = s1
  s2 = s2
  home = home
  away = away
  public = public
  Loop = loop
  Services <- MCServices
  Networks <- MCNetworks
  Manual <- MCManual
  PublicFallback <- MCPublicFallback
  Fallbacks <- MCFallbacks
  FlagDefault <- MCFlagDefault
  SkipEvery = 2
  Overlap = TRUE
  SettleTimers = 0
  MaxEvents = 1
INVARIANTS BackupIsUsers

