----------------------------- MODULE MCServices -----------------------------
(***************************************************************************)
(* The daemon's housekeeping around the data path: what it fetches         *)
(* (Subscription, RuleGroups, GeoUpdate), what it holds against an         *)
(* upstream (UpstreamHealth, StickySites, SiteAvoid), what it counts       *)
(* (TrafficLedger, QueryLog, ConnStats), and the app that installs it and  *)
(* calls it (DaemonInstall, AppCalls).                                     *)
(*                                                                         *)
(* They share no state here, so a behaviour is a behaviour of one of them: *)
(* `scene` says which, and the others stay at rest.                        *)
(***************************************************************************)
EXTENDS Subscription, GeoUpdate, StickySites, SiteAvoid, TrafficLedger, QueryLog, DaemonInstall

VARIABLES
  scene,
  groupKind, members, stored, cached, feed, groupJob, requests, smooth, mixed,
  sample, grace, queue, due, sinceFull, path, lone,
  minute, ring, history,
  life, daemon, conns, call, conn, result, made, awake, runs, verdict

groupState  == <<groupKind, members, stored, cached, feed, groupJob, requests, smooth, mixed>>
healthState == <<sample, grace, queue, due, sinceFull, path, lone>>
statsState  == <<minute, ring, history>>
callState   == <<life, daemon, conns, call, conn, result, made, awake, runs, verdict>>
serviceVars ==
  <<scene, subVars, geoVars, stickyVars, avoidVars, trafficVars,
    logVars, installVars, groupState, healthState, statsState, callState>>

\* A list of two nodes.
OneBody == {<<"n1", "n2">>}

\* A release with the tag that configs reference, and one without.
TwoReleases == {[id |-> 1, tags |-> {"t"}], [id |-> 2, tags |-> {}]}

\* Two ranges, of which the vendor drops the seed's; a name, its wildcard and
\* its parent's.
Prefix(x) == [wild |-> FALSE, labels |-> <<x>>]
Name(w, l) == [wild |-> w, labels |-> l]
Groups == INSTANCE RuleGroups WITH
  job <- groupJob,
  PatternOrder <- <<Prefix("x"), Prefix("y"), Name(FALSE, <<"c", "a">>), Name(TRUE, <<"c">>),
                    Name(TRUE, <<"c", "a">>)>>,
  Ranges <- {Prefix("x"), Prefix("y")}, Seed <- {Prefix("x")},
  Feeds <- {{Prefix("x"), Prefix("y")}, {Prefix("y"), Prefix("z")}}, Excluded <- {Prefix("z")},
  Targets <- {"a"}, MaxRequests <- 1, RetryAfter <- 1, Interval <- 1

\* A window of three outcomes; an outage counts for a tick after its end.
Health == INSTANCE UpstreamHealth WITH
  DeadStrikes <- 2, Window <- 3, WindowTTL <- 1, MinSamples <- 3, CooldownMax <- 1,
  TripMemory <- 1, FlapOutages <- 2, FlapWindow <- 1, ResetGrace <- 0, CloseStreak <- 2,
  SeatGrace <- 1, LatencyTTL <- 1, Attempts <- 2, FullEvery <- 1
ASSUME Health!HealthAssumption

\* A ring of two minutes whose first slot comes round again.
Stats == INSTANCE ConnStats WITH
  ConnStatsWindow <- 2, BoundedBins <- 2, Upstreams <- {1, 2}, Causes <- {"paused"},
  MaxMinute <- 4, MaxEvents <- 3

\* Two calls at once, over two restarts of the daemon.
Calls == INSTANCE AppCalls WITH
  pool <- conns, steady <- awake, Callers <- {"c1", "c2"}, RpcPoolCap <- 2, MaxLives <- 3,
  MaxCalls <- 3

-----------------------------------------------------------------------------
(* At rest: any one initial state.                                          *)
Scenes ==
  {"subs", "geo", "sticky", "avoid", "traffic", "log", "install",
   "groups", "health", "stats", "calls"}

ServiceInit ==
  /\ scene \in Scenes
  /\ SubInit /\ GeoInit /\ StickyInit /\ AvoidInit /\ TrafficInit /\ LogInit /\ InstallInit
  /\ Groups!GroupInit /\ Health!HealthInit /\ Stats!StatsInit /\ Calls!CallsInit
  /\ scene # "subs" => sub = NotYet
  /\ scene # "geo" => kind = "mmdb"
  /\ scene # "install" => pf.rdr = 0
  /\ IF scene = "groups" THEN \A p \in DOMAIN stored : stored[p].on
     ELSE groupKind = "custom" /\ members = {} /\ stored = << >>

OthersRest(mine) ==
  /\ UNCHANGED scene
  /\ mine # "subs" => UNCHANGED subVars
  /\ mine # "geo" => UNCHANGED geoVars
  /\ mine # "sticky" => UNCHANGED stickyVars
  /\ mine # "avoid" => UNCHANGED avoidVars
  /\ mine # "traffic" => UNCHANGED trafficVars
  /\ mine # "log" => UNCHANGED logVars
  /\ mine # "install" => UNCHANGED installVars
  /\ mine # "groups" => UNCHANGED groupState
  /\ mine # "health" => UNCHANGED healthState
  /\ mine # "stats" => UNCHANGED statsState
  /\ mine # "calls" => UNCHANGED callState

(* Only safety is checked here, and what may happen after the environment   *)
(* has settled may happen before: it does not settle, or, for the geo data, *)
(* nothing follows.                                                         *)
ServiceNext ==
  \/ scene = "subs" /\ SubNext /\ ~steady' /\ OthersRest("subs")
  \/ scene = "geo" /\ ~calm /\ GeoNext /\ (calm' => job.pc = "down") /\ OthersRest("geo")
  \/ scene = "sticky" /\ StickyNext /\ OthersRest("sticky")
  \/ scene = "avoid" /\ AvoidNext /\ OthersRest("avoid")
  \/ scene = "traffic" /\ TrafficNext /\ OthersRest("traffic")
  \/ scene = "log" /\ LogNext /\ OthersRest("log")
  \/ scene = "install" /\ InstallNext /\ OthersRest("install")
  \/ scene = "groups" /\ Groups!GroupNext /\ ~smooth' /\ OthersRest("groups")
  \/ scene = "health" /\ Health!HealthNext /\ path' = "flaky" /\ OthersRest("health")
  \/ scene = "stats" /\ Stats!StatsNext /\ OthersRest("stats")
  \/ scene = "calls" /\ Calls!CallsNext /\ OthersRest("calls")

ServiceSpec == ServiceInit /\ [][ServiceNext]_serviceVars

-----------------------------------------------------------------------------
(* Promises of the modules, see there.                                      *)

(* Nothing is held against an upstream that it has not earned: one that was *)
(* simply down is not called flaky, one that failed a site once is not      *)
(* avoided there, and a site does not bounce between exits.                 *)
JudgedFairly ==
  /\ scene = "health" => Health!DownIsNotFlaky
  /\ scene = "avoid" => AvoidanceIsEarned
  /\ scene = "sticky" => MovesAreSpaced

(* What is counted adds up, whatever was rolled up, trimmed, recycled or    *)
(* cut short by a failed write or a shutdown.                               *)
AccountsBalance ==
  /\ scene = "traffic" => TrafficBalances
  /\ scene = "log" => LogKeepsNewest
  /\ scene = "stats" => Stats!WindowIsExact

(* What is made of a fetched list is what the list calls for: the rules of  *)
(* a group, the active nodes of a subscription.                             *)
FeedsAreSound ==
  /\ scene = "groups" => Groups!CoverageIsInclusion /\ Groups!JobsKeepTheirWord
  /\ scene = "subs" => ActiveIsDerived

(* The app's scripts can be run again after dying anywhere, and its calls   *)
(* report what the daemon did.                                              *)
AppIsHonest == ScriptsCanBeRerun /\ Calls!CallsAreHonest
=============================================================================
