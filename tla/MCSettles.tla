----------------------------- MODULE MCSettles ------------------------------
(***************************************************************************)
(* What settles by itself once the disturbance is over: the pause of a     *)
(* destination (PathBreaker), the demotion of an upstream (UpstreamHealth),*)
(* a UDP flow through a proxy (UDPFlow), the vendor feed of a rule group   *)
(* (RuleGroups), an xray subscription (Subscription) and the app's         *)
(* self-update (AppUpdate).                                                *)
(*                                                                         *)
(* The six share no state, so a behaviour is a behaviour of one of them:   *)
(* `scene` says which, and the others stay at rest.                        *)
(***************************************************************************)
EXTENDS PathBreaker

VARIABLES
  scene,
  sample, healthGrace, queue, due, sinceFull, network, lone,
  udpMain, udpConn, sock, assoc, cur, once, up, down, watch, mon,
  sent, recv, flushed, billed, grace, quiet, verdict, cutBy,
  groupKind, members, stored, cached, feed, job, requests, smooth, mixed,
  sub, pool, override, serving, work, asked, steady, clean, tainted,
  host, served, app, target, cache, body, attempt, corrupt, script,
  bundle, aside, opened, faults, good

healthState == <<sample, healthGrace, queue, due, sinceFull, network, lone>>
udpState    == <<udpMain, udpConn, sock, assoc, cur, once, up, down, watch, mon,
                 sent, recv, flushed, billed, grace, quiet, verdict, cutBy>>
groupState  == <<groupKind, members, stored, cached, feed, job, requests, smooth, mixed>>
subState    == <<sub, pool, override, serving, work, asked, steady, clean, tainted>>
updState    == <<host, served, app, target, cache, body, attempt, corrupt, script,
                 bundle, aside, opened, faults, good>>
settleVars  == <<scene, breakerVars, healthState, udpState, groupState, subState, updState>>

\* Two rungs.
TwoRungs == <<1, 2>>

\* A window of three outcomes, filled by two probe rounds of two attempts.
Health == INSTANCE UpstreamHealth WITH
  grace <- healthGrace, path <- network,
  DeadStrikes <- 2, Window <- 3, WindowTTL <- 1, MinSamples <- 3, CooldownMax <- 1,
  TripMemory <- 0, FlapOutages <- 2, FlapWindow <- 0, ResetGrace <- 0, CloseStreak <- 2,
  SeatGrace <- 0, LatencyTTL <- 0, Attempts <- 2, FullEvery <- 1
ASSUME Health!HealthAssumption

\* One swap of the association.
Udp == INSTANCE UDPFlow WITH MaxReassoc <- 1, MaxSent <- 1, MaxRecv <- 1

\* Two address ranges; the vendor's list has one more than the seed.
Prefix(x) == [wild |-> FALSE, labels |-> <<x>>]
Groups == INSTANCE RuleGroups WITH
  PatternOrder <- <<Prefix("x"), Prefix("y")>>, Ranges <- {Prefix("x"), Prefix("y")},
  Seed <- {Prefix("x")}, Feeds <- {{Prefix("x"), Prefix("y")}}, Excluded <- {},
  Targets <- {"a"}, MaxRequests <- 1, RetryAfter <- 1, Interval <- 1

\* A list of two nodes, and an answer that is no list.
Subs == INSTANCE Subscription WITH
  Nodes <- {"n1", "n2"}, Served <- {<<"n1", "n2">>, <<"j">>}, Junk <- "j", Caps <- {1},
  MaxAsked <- 1, ErrorRetry <- 1, RefreshInterval <- 1

\* The second release is uploaded twice.
Update == INSTANCE AppUpdate WITH
  ReleaseOf <- <<1, 2, 2>>, Size <- 2, MaxAttempts <- 2, MaxFaults <- 2

-----------------------------------------------------------------------------
(* At rest: a destination and an upstream nobody uses; a flow that was      *)
(* dropped; a group without patterns; no subscription; an app with nothing  *)
(* newer to fetch.  The ghost `lone` of UpstreamHealth, which no property    *)
(* here reads, starts at its largest value and stays there.                 *)
Scenes == {"breaker", "health", "udp", "groups", "subs", "update"}

SettleInit ==
  /\ scene \in Scenes
  /\ BreakerInit /\ Groups!GroupInit /\ Subs!SubInit /\ Update!UpdInit
  /\ sample = Health!Unknown /\ healthGrace = 0 /\ queue = <<>> /\ due = "none" /\ sinceFull = 1
  /\ network = "flaky" /\ lone = [single |-> TRUE, outages |-> 2]
  /\ scene # "breaker" => transport = "tcp" /\ realRoute = CHOOSE r \in Routes : TRUE
  /\ IF scene = "groups" THEN \A p \in DOMAIN stored : stored[p].on
     ELSE groupKind = "custom" /\ members = {} /\ stored = << >>
  /\ scene # "subs" => sub.row = "absent" /\ serving = <<"j">>
  /\ scene # "update" => host = [strong |-> TRUE, ranges |-> TRUE, digests |-> TRUE, sizes |-> TRUE]
  /\ udpMain = (IF scene = "udp" THEN "new" ELSE "dropped") /\ udpConn = (scene = "udp")
  /\ sock = [s \in Udp!Sessions |-> "none"] /\ assoc = [s \in Udp!Sessions |-> FALSE]
  /\ cur = 1 /\ once = "no"
  /\ up = [pc |-> "off", s |-> 1] /\ down = [pc |-> "off", s |-> 1]
  /\ watch = [s \in Udp!Sessions |-> "none"] /\ mon = [pc |-> "off", old |-> 1]
  /\ sent = 0 /\ recv = 0 /\ flushed = 0 /\ billed = 0
  /\ grace = TRUE /\ quiet = FALSE /\ verdict = "none" /\ cutBy = 0

OthersRest(mine) ==
  /\ UNCHANGED scene
  /\ mine # "breaker" => UNCHANGED breakerVars
  /\ mine # "health" => UNCHANGED healthState
  /\ mine # "udp" => UNCHANGED udpState
  /\ mine # "groups" => UNCHANGED groupState
  /\ mine # "subs" => UNCHANGED subState
  /\ mine # "update" => UNCHANGED updState

SettleNext ==
  \/ scene = "breaker" /\ BreakerNext /\ OthersRest("breaker")
  \/ scene = "health" /\ Health!HealthNext /\ OthersRest("health")
  \/ scene = "udp" /\ Udp!UDPNext /\ OthersRest("udp")
  \/ scene = "groups" /\ Groups!GroupNext /\ OthersRest("groups")
  \/ scene = "subs" /\ Subs!SubNext /\ OthersRest("subs")
  \/ scene = "update" /\ Update!UpdNext /\ OthersRest("update")

(* The fairness of each component, in its own scene: see BreakerFairness,   *)
(* HealthFairness, UDPFairness, GroupFairness and UpdFairness.              *)
In(s, A) == scene = s /\ A

SettleFairness ==
  /\ WF_breakerVars(In("breaker", Tick))
  /\ \A c \in Conns : WF_breakerVars(In("breaker", End(c)))
  /\ []<>(scene = "health" => due = "tick") /\ []<>(scene = "health" => due = "none")
  /\ WF_udpState(In("udp", Udp!StartFlow)) /\ WF_udpState(In("udp", Udp!Finish))
  /\ WF_udpState(In("udp", Udp!ShutdownBegin(Udp!WantsShutdown)))
  /\ WF_udpState(In("udp", Udp!ShutdownEnd))
  /\ WF_udpState(In("udp", Udp!UpRead \/ Udp!UpWrite \/ Udp!UpWriteAgain))
  /\ WF_udpState(In("udp", Udp!DownLoad \/ Udp!DownRead))
  /\ \A s \in {1, 2} : WF_udpState(In("udp", Udp!watchCtrl(s)))
  /\ WF_udpState(In("udp", Udp!MonTick \/ Udp!MonAssociate \/ Udp!MonPublish \/ Udp!MonRetire))
  /\ WF_udpState(In("udp", Udp!TimePasses))
  /\ \A w \in {"scheduler", "manual"} : WF_groupState(In("groups", Groups!WorkerStep(w)))
  /\ WF_groupState(In("groups", Groups!GroupTick))
  /\ WF_groupState(In("groups",
       \/ Groups!ListRules("user") \/ Groups!Write("user") \/ Groups!WriteFails("user")
       \/ Groups!WriteEnds("user") \/ Groups!Return("user")))
  /\ Subs!SubFairness
  /\ WF_updState(In("update", Update!Downloading \/ Update!ApplyAppUpdate \/ Update!Swapping))
  /\ WF_updState(In("update", Update!UserOpens)) /\ SF_updState(In("update", Update!CheckForUpdate))
  /\ WF_updState(In("update", Update!StartUpdate))

SettleSpec == SettleInit /\ [][SettleNext]_settleVars /\ SettleFairness

-----------------------------------------------------------------------------
(* Each component's own promise, see its module.                            *)

(* A pause ends once the destination's path works, and an upstream whose    *)
(* path works again gets its seat back: neither needs the user.             *)
TroubleEnds == PauseEnds /\ Health!ReturnsToService

(* A UDP flow whose client has gone, or that is silent, ends.               *)
FlowEnds == Udp!FlowEnds

(* A swap of a UDP flow's association neither ends the flow nor loses or    *)
(* repeats its accounts.                                                    *)
FlowIsKept == Udp!FlowIsKept

(* A dynamic group catches up with its vendor, and a subscription's flags   *)
(* with its row, once fetches succeed and nobody edits.                     *)
FeedsCatchUp == Groups!GroupCatchesUp /\ Subs!FlagsRecover

(* A willing user ends up with the newest release.                          *)
UpdateArrives == Update!UpdateArrives

(* A bundle that starts is one upload in full, and the swap never leaves    *)
(* the machine without a whole app, in place or set aside.                  *)
UpdateIsSound == Update!BundleIsOneUpload /\ Update!AppSurvives
=============================================================================
