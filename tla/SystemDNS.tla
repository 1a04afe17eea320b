------------------------------ MODULE SystemDNS ------------------------------
(***************************************************************************)
(* The hijack of the system resolver: every network service is pointed at  *)
(* 127.0.0.1, the original settings are kept as a backup, and the daemon   *)
(* forwards to resolvers that it has tested.  Five callers run the same    *)
(* procedures with no lock around them: the start-up code, the 10 s poll,  *)
(* the network-change watcher, its settle timers, and the IPC handlers.    *)
(* A procedure is a sequence of steps, one per external command or store   *)
(* write, so a network change, a user's edit or a crash falls anywhere.    *)
(***************************************************************************)
EXTENDS Integers, Sequences, FiniteSetsExt

CONSTANTS
  Services,      \* network services (Wi-Fi, Ethernet, ...)
  Networks,      \* the networks the machine may be on: [dhcp, detected, reach]
  Manual,        \* the resolver lists a user gives a service; <<>> is DHCP
  Loop,          \* 127.0.0.1
  PublicFallback, \* publicFallbackDNS, the fallback while no setting exists
  Fallbacks,     \* the values of the fallback_dns setting
  FlagDefault,   \* the -upstream flag
  SkipEvery,     \* ticks between two probes of a stable upstream
  Overlap,       \* TRUE: a caller may start while another one is running
  SettleTimers,  \* timers the watcher starts after a change
  MaxEvents      \* bound on what happens to the daemon: network changes, the
                 \* user's edits and requests, crashes, failing commands

Callers == {"main", "poll", "watch", "settle", "ipc"}

\* No backup yet.  At least one service is listed, so a backup is never empty.
Absent == <<>>

ASSUME ConstantsFit ==
  /\ SkipEvery \in Nat \ {0}
  /\ Services # {}
  /\ <<>> \in Manual
  /\ \A m \in Manual : Loop \notin Range(m)

VARIABLES
  listed,        \* services that -listallnetworkservices shows as enabled
  svc,           \* the resolvers each service is set to
  users,         \* history: the values the user has given each service
  net,           \* the network the machine is on
  changed,       \* a network notification waits for the watcher
  settles,       \* settle timers still to fire
  backup,        \* setting system_dns_backup
  saved,         \* setting upstream_dns
  wanted,        \* setting system_dns_active
  fallback,      \* setting fallback_dns
  phase,         \* of the daemon: "down", "boot" (start-up activation), "up"
  forwarder,     \* the servers of the DNS server's MultiUpstream
  upstream,      \* handlerDeps.upstream
  call,          \* where each caller stands
  stableFor, skipCount,        \* the poll's back-off
  events

services == <<svc, changed>>
store == <<backup, saved, wanted>>
picked == <<forwarder, upstream>>
backOff == <<stableFor, skipCount>>
world == <<listed, users, net, fallback>>
vars == <<world, services, store, picked, backOff, phase, settles, call, events>>

\* One more event, if the bound allows it.
Event == events < MaxEvents /\ events' = events + 1

Resolvers == UNION {n.reach : n \in Networks} \cup UNION {Range(m) : m \in Manual}

Idle == [at |-> "idle", was |-> FALSE, snap |-> <<>>, list |-> <<>>, todo |-> {},
         op |-> "none", failed |-> FALSE]

\* What the system reports of itself, and what the settings say.
ListServices == listed
GetServiceDNS(s) == svc[s]
AllDHCPDNS == net.dhcp
DetectResolvers == net.detected
FallbackDNS == fallback

IsActive == \E s \in ListServices : Loop \in Range(GetServiceDNS(s))

-----------------------------------------------------------------------------
(* Picking an upstream *)

WithoutLoopback(list) == SelectSeq(list, LAMBDA r : r # Loop)

Answers(r) == r \in net.reach

ValidateResolvers(list) == SelectSeq(list, Answers)

\* The resolvers of a snapshot; the services come in the order of a Go map.
InOrder(snap, order) ==
  LET upTo[i \in 0 .. Len(order)] == IF i = 0 THEN <<>> ELSE upTo[i - 1] \o snap[order[i]]
  IN upTo[Len(order)]

Orders(snap) == Bijection(1 .. Cardinality(DOMAIN snap), DOMAIN snap)

\* The resolvers of a list in the order of their first mention.
EachOnce(list) ==
  LET new(i) == \A j \in 1 .. i - 1 : list[j] # list[i]
      at == SelectSeq([i \in DOMAIN list |-> i], new)
  IN [k \in DOMAIN at |-> list[at[k]]]

\* Every plausible upstream, network-local ones first.
Candidates(local, kept) ==
  EachOnce(WithoutLoopback(local \o kept \o AllDHCPDNS \o DetectResolvers \o FallbackDNS))

ChooseUpstream(snap) ==
  {ValidateResolvers(Candidates(InOrder(snap, o), InOrder(backup, p))) :
     o \in Orders(snap), p \in Orders(backup)}

\* The list a pick ends up with: the chosen one, or the fallback on its own.
Picks(snap) ==
  {IF l = <<>> THEN ValidateResolvers(FallbackDNS) ELSE l : l \in ChooseUpstream(snap)}

LoadUpstream ==
  LET sources == <<WithoutLoopback(saved), WithoutLoopback(FlagDefault), AllDHCPDNS,
                   DetectResolvers, PublicFallback>>
  IN SelectSeq(sources, LAMBDA l : l # <<>>)[1]

\* A list that never had the loopback stays as it is.
SanitizeSnapshot(snap) ==
  [s \in DOMAIN snap |->
     IF Loop \in Range(snap[s]) THEN WithoutLoopback(snap[s]) ELSE snap[s]]

-----------------------------------------------------------------------------
(* Steps of a procedure *)

Goto(c, at) == call' = [call EXCEPT ![c].at = at]
Return(c) == call' = [call EXCEPT ![c] = Idle]

\* The poll's bookkeeping after refreshUpstreamIfStale: a change or an error
\* starts the back-off anew.
PollNotes(c, calm) ==
  IF c = "poll" /\ call[c].op = "refresh"
  THEN /\ stableFor' = IF ~calm THEN 0
                       ELSE IF stableFor < SkipEvery THEN stableFor + 1 ELSE stableFor
       /\ skipCount' = IF calm THEN skipCount ELSE 0
  ELSE UNCHANGED <<stableFor, skipCount>>

ReadActive(c) ==
  /\ call[c].at = "isActive"
  /\ call' = [call EXCEPT ![c].was = IsActive, ![c].at = "capture"]
  /\ UNCHANGED <<services, events, store, picked, backOff>>

\* CaptureAll with a bug: an activation always saves a backup.
CaptureAllAlways(c) ==
  /\ call[c].at = "capture"
  /\ LET snap == [s \in ListServices |-> GetServiceDNS(s)] IN
     call' = [call EXCEPT ![c].snap = SanitizeSnapshot(snap),
                          ![c].at = IF call[c].op = "activate" THEN "backup" ELSE "choose"]
  /\ UNCHANGED <<services, events, store, picked, backOff>>

CaptureAll(c) ==
  /\ call[c].at = "capture"
  /\ LET snap == [s \in ListServices |-> GetServiceDNS(s)] IN
     call' = [call EXCEPT ![c].snap = SanitizeSnapshot(snap),
                          ![c].at = IF call[c].op = "activate" /\ ~call[c].was
                                    THEN "backup" ELSE "choose"]
  /\ UNCHANGED <<services, events, store, picked, backOff>>

SaveBackup(c) ==
  /\ call[c].at = "backup"
  /\ backup' = call[c].snap
  /\ Goto(c, "choose")
  /\ UNCHANGED <<services, events, saved, wanted, picked, backOff>>

\* What the caller does with the list it picked: refuse, keep, or switch.
Choose(c) ==
  /\ call[c].at = "choose"
  /\ \E list \in Picks(call[c].snap) :
       IF list = <<>>
       THEN /\ IF call[c].op = "activate" /\ call[c].was
               THEN Goto(c, "readBackup") ELSE Return(c)
            /\ PollNotes(c, FALSE)
       ELSE IF call[c].op # "activate" /\ list = call[c].list
       THEN Return(c) /\ PollNotes(c, TRUE)
       ELSE /\ call' = [call EXCEPT ![c].list = list, ![c].at = "save"]
            /\ UNCHANGED backOff
  /\ UNCHANGED <<services, events, store, picked>>

SaveUpstream(c) ==
  /\ call[c].at = "save"
  /\ saved' = call[c].list
  /\ Goto(c, "forward")
  /\ UNCHANGED <<services, events, backup, wanted, picked, backOff>>

SetForwarder(c) ==
  /\ call[c].at = "forward"
  /\ forwarder' = call[c].list
  /\ Goto(c, "note")
  /\ UNCHANGED <<services, events, store, upstream, backOff>>

\* NoteUpstream with a bug: a re-pick leaves the old list in handlerDeps.
NoteUpstreamLost(c) ==
  /\ call[c].at = "note"
  /\ IF call[c].op = "activate"
     THEN /\ upstream' = call[c].list
          /\ call' = [call EXCEPT ![c].todo = ListServices, ![c].at = "apply"]
          /\ UNCHANGED backOff
     ELSE Return(c) /\ PollNotes(c, FALSE) /\ UNCHANGED upstream
  /\ UNCHANGED <<services, events, store, forwarder>>

NoteUpstream(c) ==
  /\ call[c].at = "note"
  /\ upstream' = call[c].list
  /\ IF call[c].op = "activate"
     THEN /\ call' = [call EXCEPT ![c].todo = ListServices, ![c].at = "apply"]
          /\ UNCHANGED backOff
     ELSE Return(c) /\ PollNotes(c, FALSE)
  /\ UNCHANGED <<services, events, store, forwarder>>

\* One networksetup write; an error is remembered and the loop goes on.
SetServiceDNS(c, s, list) ==
  \/ /\ svc' = [svc EXCEPT ![s] = list]
     /\ changed' = (changed \/ svc[s] # list)
     /\ call' = [call EXCEPT ![c].todo = @ \ {s}]
     /\ UNCHANGED events
  \/ /\ Event
     /\ call' = [call EXCEPT ![c].todo = @ \ {s}, ![c].failed = TRUE]
     /\ UNCHANGED <<svc, changed>>

ApplyAll(c) ==
  /\ call[c].at = "apply"
  /\ \E s \in call[c].todo : SetServiceDNS(c, s, <<Loop>>)
  /\ UNCHANGED <<store, picked, backOff>>

AppliedAll(c) ==
  /\ call[c].at = "apply" /\ call[c].todo = {}
  /\ wanted' = (wanted \/ ~call[c].failed)
  /\ Return(c)
  /\ UNCHANGED <<services, events, backup, saved, picked, backOff>>

\* ReadBackup with a bug: services that were on DHCP are skipped.
ReadBackupSkips(c) ==
  /\ call[c].at = "readBackup"
  /\ LET snap == IF backup = Absent THEN [s \in ListServices |-> <<>>] ELSE backup IN
     call' = [call EXCEPT ![c].snap = snap, ![c].todo = {s \in DOMAIN snap : snap[s] # <<>>},
                          ![c].at = "restore", ![c].was = (backup # Absent)]
  /\ UNCHANGED <<services, events, store, picked, backOff>>

\* restoreSystemDNSBackup: without a backup every service goes back to DHCP.
ReadBackup(c) ==
  /\ call[c].at = "readBackup"
  /\ LET snap == IF backup = Absent THEN [s \in ListServices |-> <<>>] ELSE backup IN
     call' = [call EXCEPT ![c].snap = snap, ![c].todo = DOMAIN snap, ![c].at = "restore",
                          ![c].was = (backup # Absent)]
  /\ UNCHANGED <<services, events, store, picked, backOff>>

RestoreAll(c) ==
  /\ call[c].at = "restore"
  /\ \E s \in call[c].todo : SetServiceDNS(c, s, call[c].snap[s])
  /\ UNCHANGED <<store, picked, backOff>>

\* An error counts only for the services of a backup; the preference then
\* stays as it was.
RestoredAll(c) ==
  /\ call[c].at = "restore" /\ call[c].todo = {}
  /\ wanted' = (wanted /\ (call[c].op = "deactivate" => call[c].failed /\ call[c].was))
  /\ Return(c)
  /\ UNCHANGED <<services, events, backup, saved, picked, backOff>>

\* refreshUpstreamIfStale: nothing to do while every server still answers.
Validate(c) ==
  /\ call[c].at = "validate"
  /\ IF upstream # <<>> /\ \A r \in Range(upstream) : Answers(r)
     THEN Return(c) /\ PollNotes(c, TRUE)
     ELSE Goto(c, "repick") /\ UNCHANGED backOff
  /\ UNCHANGED <<services, events, store, picked>>

\* repickUpstream starts from the list in use.
Repick(c) ==
  /\ call[c].at = "repick"
  /\ call' = [call EXCEPT ![c].list = upstream, ![c].at = "capture"]
  /\ UNCHANGED <<services, events, store, picked, backOff>>

\* The poll and the watcher activate when the hijack is wanted and off; the
\* settle timers leave that to them.
CheckOff(c) ==
  /\ call[c].at = "check"
  /\ ~IsActive
  /\ IF c = "settle" THEN Return(c)
     ELSE call' = [call EXCEPT ![c].op = "activate", ![c].at = "isActive"]
  /\ IF c = "poll" THEN stableFor' = 0 /\ skipCount' = 0 ELSE UNCHANGED backOff
  /\ UNCHANGED <<services, events, store, picked>>

CheckOn(c) ==
  /\ call[c].at = "check"
  /\ IsActive
  /\ IF c = "poll" THEN Goto(c, "probe")
     ELSE call' = [call EXCEPT ![c].op = "repick", ![c].at = "repick"]
  /\ UNCHANGED <<services, events, store, picked, backOff>>

\* Probe with a bug: skipped ticks are not counted.
ProbeForgets(c) ==
  /\ call[c].at = "probe"
  /\ IF stableFor >= SkipEvery /\ skipCount + 1 < SkipEvery THEN Return(c)
     ELSE call' = [call EXCEPT ![c].op = "refresh", ![c].at = "validate"]
  /\ UNCHANGED <<services, events, store, picked, backOff>>

\* Most ticks are skipped once the upstream has been stable for a while.
Probe(c) ==
  /\ call[c].at = "probe"
  /\ LET stable == stableFor >= SkipEvery
         skip == stable /\ skipCount + 1 < SkipEvery
     IN /\ skipCount' = IF skip THEN skipCount + 1 ELSE IF stable THEN 0 ELSE skipCount
        /\ IF skip THEN Return(c)
           ELSE call' = [call EXCEPT ![c].op = "refresh", ![c].at = "validate"]
  /\ UNCHANGED <<services, events, store, picked, stableFor>>

Step(c) ==
  /\ \/ ReadActive(c) \/ CaptureAll(c) \/ SaveBackup(c) \/ Choose(c) \/ SaveUpstream(c)
     \/ SetForwarder(c) \/ NoteUpstream(c) \/ ApplyAll(c) \/ AppliedAll(c) \/ ReadBackup(c)
     \/ RestoreAll(c) \/ RestoredAll(c) \/ Validate(c) \/ Repick(c) \/ CheckOff(c)
     \/ CheckOn(c) \/ Probe(c)
  /\ UNCHANGED <<world, phase, settles>>

-----------------------------------------------------------------------------
(* What starts a procedure *)

MayStart(c) ==
  /\ phase = "up"
  /\ call[c].at = "idle"
  /\ Overlap \/ \A d \in Callers : call[d].at = "idle"

Starts(c, op, at) == call' = [call EXCEPT ![c].op = op, ![c].at = at]

PollTick ==
  /\ MayStart("poll")
  /\ Starts("poll", "none", IF wanted THEN "check" ELSE "probe")
  /\ UNCHANGED <<world, services, store, picked, backOff, phase, settles, events>>

\* The watcher's callback restarts the settle timers, then acts if wanted.
WatchFires ==
  /\ MayStart("watch")
  /\ changed
  /\ changed' = FALSE
  /\ settles' = SettleTimers
  /\ IF wanted THEN Starts("watch", "none", "check") ELSE UNCHANGED call
  /\ UNCHANGED <<world, svc, store, picked, backOff, phase, events>>

\* scutil died: its notification never arrives.
WatchMisses ==
  /\ phase = "up" /\ changed
  /\ changed' = FALSE
  /\ UNCHANGED <<world, svc, store, picked, backOff, phase, settles, call, events>>

SettleFires ==
  /\ MayStart("settle")
  /\ settles > 0
  /\ settles' = settles - 1
  /\ IF wanted THEN Starts("settle", "none", "check") ELSE UNCHANGED call
  /\ UNCHANGED <<world, services, store, picked, backOff, phase, events>>

\* systemdns.activate, systemdns.deactivate and settings.set fallback_dns
Request ==
  /\ MayStart("ipc")
  /\ Event
  /\ \/ Starts("ipc", "activate", "isActive") /\ UNCHANGED fallback
     \/ Starts("ipc", "deactivate", "readBackup") /\ UNCHANGED fallback
     \/ Starts("ipc", "repick", "repick") /\ fallback' \in Fallbacks \ {fallback}
  /\ UNCHANGED <<listed, users, net, services, store, picked, backOff, phase, settles>>

-----------------------------------------------------------------------------
(* The machine around the daemon *)

NetworkMoves ==
  /\ Event
  /\ net' \in Networks \ {net}
  /\ changed' = TRUE
  /\ UNCHANGED <<listed, users, fallback, svc, store, picked, backOff, phase,
                 settles, call>>

\* The user sets a service's resolvers in System Settings.
UserSets(s) ==
  /\ Event
  /\ \E list \in Manual \ {svc[s]} :
       /\ svc' = [svc EXCEPT ![s] = list]
       /\ users' = [users EXCEPT ![s] = @ \cup {list}]
  /\ changed' = TRUE
  /\ UNCHANGED <<listed, net, fallback, store, picked, backOff, phase, settles,
                 call>>

\* The user switches a service off, or on again; one stays on.  Not in the few
\* milliseconds between IsActive and CaptureAll, which would see different sets.
UserToggles(s) ==
  /\ Event
  /\ \A c \in Callers : call[c].at # "capture"
  /\ listed' = SymDiff(listed, {s})
  /\ listed' # {}
  /\ UNCHANGED <<users, net, fallback, services, store, picked, backOff, phase, settles,
                 call>>

\* SIGKILL, a panic or a power cut.  A clean shutdown leaves the same state:
\* nothing in it undoes the hijack.
Dies ==
  /\ phase # "down"
  /\ Event
  /\ phase' = "down"
  /\ call' = [c \in Callers |-> Idle]
  /\ settles' = 0 /\ changed' = FALSE
  /\ forwarder' = <<>> /\ upstream' = <<>>
  /\ stableFor' = 0 /\ skipCount' = 0
  /\ UNCHANGED <<world, svc, store>>

\* launchd starts the daemon: load the forwarder, then auto-activate ...
Boots ==
  /\ phase = "down"
  /\ phase' = "boot"
  /\ forwarder' = LoadUpstream
  /\ upstream' = LoadUpstream
  /\ IF wanted THEN Starts("main", "activate", "isActive") ELSE UNCHANGED call
  /\ UNCHANGED <<world, services, store, backOff, settles, events>>

\* ... and start the goroutines when that is over, whatever came of it.
Serves ==
  /\ phase = "boot" /\ call["main"].at = "idle"
  /\ phase' = "up"
  /\ UNCHANGED <<world, services, store, picked, backOff, settles, call, events>>

Init ==
  /\ listed = Services
  /\ svc \in [Services -> Manual]
  /\ users = [s \in Services |-> {svc[s]}]
  /\ net \in Networks
  /\ fallback = PublicFallback
  /\ changed = FALSE /\ settles = 0 /\ events = 0
  /\ backup = Absent /\ saved = <<>> /\ wanted = TRUE
  /\ phase = "down"
  /\ forwarder = <<>> /\ upstream = <<>>
  /\ call = [c \in Callers |-> Idle]
  /\ stableFor = 0 /\ skipCount = 0

Procedures == \E c \in Callers : Step(c)

Environment ==
  \/ NetworkMoves \/ Dies \/ WatchMisses
  \/ \E s \in Services : UserSets(s) \/ UserToggles(s)

Next ==
  \/ Procedures
  \/ PollTick \/ WatchFires \/ SettleFires \/ Request \/ Boots \/ Serves
  \/ Environment

Spec == Init /\ [][Next]_vars

\* launchd keeps the daemon alive, the ticker keeps ticking, and a procedure
\* that has started runs on: every command in it has a timeout.
FairSpec ==
  /\ Spec
  /\ WF_vars(Boots) /\ WF_vars(Serves) /\ SF_vars(PollTick)
  /\ WF_vars(Procedures)

-----------------------------------------------------------------------------
(* Properties *)

Stages == {"idle", "isActive", "capture", "backup", "choose", "save", "forward", "note",
           "apply", "readBackup", "restore", "validate", "repick", "check", "probe"}

IsList(l) == l = <<>> \/ Range(l) \subseteq Resolvers \cup {Loop}

\* Every variable holds a value of its kind, and every procedure works on
\* services that are listed or in the backup.
TypeOK ==
  /\ listed \subseteq Services
  /\ \A s \in Services : IsList(svc[s]) /\ svc[s] \in users[s] \cup {<<Loop>>} \cup Manual
  /\ net \in Networks /\ fallback \in Fallbacks \cup {PublicFallback}
  /\ changed \in BOOLEAN /\ wanted \in BOOLEAN
  /\ settles \in 0..SettleTimers /\ stableFor \in 0..SkipEvery /\ skipCount \in 0..SkipEvery - 1
  /\ backup = Absent \/ DOMAIN backup \subseteq Services
  /\ IsList(saved) /\ IsList(forwarder) /\ IsList(upstream)
  /\ phase \in {"down", "boot", "up"}
  /\ \A c \in Callers : call[c].at \in Stages /\ call[c].todo \subseteq Services

\* The saved backup holds, for each service, resolvers the user had chosen for
\* it: never what is left of the daemon's own 127.0.0.1 once the loopback is
\* stripped.  Otherwise Deactivate would wipe the user's settings.
BackupIsUsers ==
  backup # Absent => \A s \in DOMAIN backup : backup[s] \in users[s]

\* With no procedure under way, the servers queries are forwarded to are the
\* ones the daemon believes in: it compares, validates and reports the
\* latter, so a difference would never be repaired.
ForwarderIsKnown ==
  (\A c \in Callers : call[c].at = "idle") => forwarder = upstream

\* Both: what the daemon remembers of the machine's DNS is true, across every
\* crash, failure and move between networks.
MemoryIsTrue == BackupIsUsers /\ ForwarderIsKnown

\* A Deactivate that reports success has put every service of the backup back
\* on the user's own resolvers, whatever failed, crashed or was retried before.
\* (A service switched on after the hijack began is not in the backup.)
DeactivateClears ==
  [][\A c \in Callers :
       /\ call[c].at = "restore" /\ call[c].op = "deactivate" /\ ~call[c].failed
       /\ call'[c].at = "idle" /\ phase' # "down"
       => \A s \in DOMAIN backup : Loop \notin Range(svc[s])]_vars

Resolvable == Range(net.dhcp \o fallback) \cap net.reach # {}

\* Once the network stays usable and the user keeps wanting the hijack, the
\* hijack comes up and stays up with a forwarder that answers: a start before
\* the network, a move between networks, a lost notification, a failed
\* activation and a crash are all repaired by the poll.
Recovers ==
  <>[](wanted /\ Resolvable) => <>[](IsActive /\ Range(forwarder) \cap net.reach # {})

=============================================================================
