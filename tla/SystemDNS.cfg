SPECIFICATION FairSpec
CONSTANTS
  s1 = s1
  s2 = s2
  home = home
  away = away
  public = public
  Loop = loop
  Services <- MCServices
  Networks <- MCNetworks
  Manual <- MCManual
  PublicFallback <- MCPublicFallback
  Fallbacks <- MCFallbacks
  FlagDefault <- MCFlagDefault
  SkipEvery = 2
  Overlap = FALSE
  SettleTimers = 1
  MaxEvents = 2
 
PROPERTIES DeactivateClears 
