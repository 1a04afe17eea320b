---------------------------- MODULE PathBreaker ----------------------------
(***************************************************************************)
(* The per-destination brakes of the proxy tunnel: tcpHealth                *)
(* (daemon/tcp_health.go) and udpHealth (daemon/udp_health.go), the         *)
(* connections that consult them when they open and report to them when     *)
(* they end, and the reset on a network change (daemon/network_reset.go).   *)
(*                                                                         *)
(* A connection may end long after it opened: after the path broke or came  *)
(* back, after others paused the destination, after a reset.                *)
(*                                                                         *)
(* Clocks are kept relative: "left" is the time until an entry's penalty    *)
(* ends, "probeAgo" and "idle" the time since its last probe and use.       *)
(* An entry that says nothing is the same as no entry.                      *)
(***************************************************************************)
EXTENDS Integers, Sequences

CONSTANTS
  Keys,          \* destinations, host:port
  Conns,         \* connections in flight at a time
  TCPThreshold,  \* tcpStrikeThreshold
  UDPThreshold,  \* udpStrikeThreshold
  Ladder,        \* tcpPenaltyLadder, udpPenaltyLadder in ticks
  ProbeInterval, \* tcpProbeInterval
  EntryTTL,      \* tcpHealthEntryTTL, udpHealthEntryTTL
  Routes         \* primary routes of the machine

ASSUME BreakerAssumption ==
  /\ TCPThreshold \in Nat \ {0} /\ UDPThreshold \in Nat \ {0}
  /\ Ladder \in Seq(Nat \ {0}) /\ Len(Ladder) \in Nat \ {0}
  /\ ProbeInterval \in Nat \ {0} /\ EntryTTL \in Nat

VARIABLES
  transport,  \* "tcp" or "udp": which of the two tables this is
  entries,    \* key -> what is remembered
  flight,     \* conn -> [key, hope, got]: open connections
  path,       \* key -> the path through the binding works (environment)
  route,      \* netResetter.route
  realRoute,  \* the machine's primary route (environment)
  evidence    \* ghost: dead connections per key since the last good one or reset

breakerVars == <<transport, entries, flight, path, route, realRoute, evidence>>

Absent == [strikes |-> 0, level |-> 1, left |-> 0, probeAgo |-> ProbeInterval, idle |-> 0,
           rung |-> 1]  \* rung is a ghost: the rung of the penalty last applied
Idle == [key |-> "none", hope |-> FALSE, got |-> FALSE]

Threshold == IF transport = "tcp" THEN TCPThreshold ELSE UDPThreshold

BreakerInit ==
  /\ transport \in {"tcp", "udp"}
  /\ entries = [k \in Keys |-> Absent]
  /\ flight = [c \in Conns |-> Idle]
  /\ path = [k \in Keys |-> TRUE]
  /\ realRoute \in Routes /\ route = realRoute
  /\ evidence = [k \in Keys |-> 0]

(***************************************************************************)
(* The table                                                               *)
(***************************************************************************)
Penalised(e) == e.left > 0

(* pruneLocked: entries nothing touched for the TTL, unless penalised.      *)
Pruned(e) == IF ~Penalised(e) /\ e.idle > EntryTTL THEN Absent ELSE e

Seen(e) == IF e = Absent THEN e ELSE [e EXCEPT !.idle = 0]

NextLevel(l) == IF l < Len(Ladder) THEN l + 1 ELSE l

(* The next penalty: strikes start again and the ladder climbs.             *)
Sentence(e) ==
  [e EXCEPT !.strikes = 0, !.left = Ladder[e.level], !.level = NextLevel(e.level), !.idle = 0,
            !.rung = e.level]

(* tcpHealth.strike extends a running penalty; udpHealth.strike counts      *)
(* towards the next one even while one runs.                                *)
Struck(e) ==
  IF transport = "tcp" /\ Penalised(e) THEN [e EXCEPT !.left = Ladder[e.level], !.idle = 0]
  ELSE IF e.strikes + 1 < Threshold THEN [e EXCEPT !.strikes = @ + 1, !.idle = 0]
  ELSE Sentence(e)

(* A plausible slip: a success lifts the penalty and forgets no strike.     *)
ClearedButStruck(e) == IF e = Absent THEN e ELSE [e EXCEPT !.level = 1, !.left = 0, !.idle = 0]

Cleared(e) == IF e = Absent THEN e ELSE [e EXCEPT !.strikes = 0, !.level = 1, !.left = 0, !.idle = 0]

Evidence(k, n) == [evidence EXCEPT ![k] = IF n < Threshold THEN n ELSE Threshold]

strike(k) ==
  /\ entries' = [[j \in Keys |-> Pruned(entries[j])] EXCEPT ![k] = Struck(@)]
  /\ evidence' = Evidence(k, evidence[k] + 1)

condemn(k) ==
  /\ entries' = [[j \in Keys |-> Pruned(entries[j])] EXCEPT ![k] = Sentence(@)]
  /\ evidence' = Evidence(k, Threshold)

success(k) ==
  /\ entries' = [entries EXCEPT ![k] = Cleared(@)]
  /\ evidence' = Evidence(k, 0)

(* pf.resetHealth: both tables are replaced by empty ones.                  *)
reset ==
  /\ entries' = [k \in Keys |-> Absent]
  /\ evidence' = [k \in Keys |-> 0]

(***************************************************************************)
(* Connections                                                             *)
(***************************************************************************)
ProbeDue(e) == e.probeAgo >= ProbeInterval

(* admit / blocked let the connection in.  A TCP connection let in during a *)
(* penalty is the probe, and is recorded as such.                           *)
Open(c, k) ==
  /\ flight[c] = Idle
  /\ ~Penalised(entries[k]) \/ (transport = "tcp" /\ ProbeDue(entries[k]))
  /\ entries' = [entries EXCEPT ![k] =
                   IF Penalised(@) THEN [Seen(@) EXCEPT !.probeAgo = 0] ELSE Seen(@)]
  /\ flight' = [flight EXCEPT ![c] = [key |-> k, hope |-> path[k], got |-> FALSE]]
  /\ UNCHANGED <<transport, path, route, realRoute, evidence>>

(* A plausible slip: a refused client counts as a strike.                   *)
RefuseStrikes(k) ==
  /\ Penalised(entries[k])
  /\ transport = "tcp" => ~ProbeDue(entries[k])
  /\ entries' = [entries EXCEPT ![k] = Struck(@)]
  /\ UNCHANGED <<transport, flight, path, route, realRoute, evidence>>

Refuse(k) ==
  /\ Penalised(entries[k])
  /\ transport = "tcp" => ~ProbeDue(entries[k])
  /\ entries' = [entries EXCEPT ![k] = Seen(@)]
  /\ UNCHANGED <<transport, flight, path, route, realRoute, evidence>>

(* A byte came back.                                                        *)
Answer(c) ==
  /\ flight[c].hope /\ ~flight[c].got
  /\ flight' = [flight EXCEPT ![c].got = TRUE]
  /\ UNCHANGED <<transport, entries, path, route, realRoute, evidence>>

(* The end of the splice or of the flow: a byte back clears the record, a   *)
(* TCP client that gave up early says nothing, silence is a strike, and a   *)
(* TCP destination that every exit refused is condemned.                    *)
End(c) ==
  /\ flight[c] # Idle
  /\ flight' = [flight EXCEPT ![c] = Idle]
  /\ LET k == flight[c].key IN
     \/ flight[c].got /\ success(k)
     \/ ~flight[c].got /\ transport = "tcp" /\ UNCHANGED <<entries, evidence>>
     \/ ~flight[c].got /\ transport = "udp" /\ success(k)  \* nothing was sent
     \/ ~flight[c].got /\ ~flight[c].hope /\ strike(k)
     \/ ~flight[c].got /\ ~flight[c].hope /\ transport = "tcp" /\ condemn(k)
  /\ UNCHANGED <<transport, path, route, realRoute>>

(***************************************************************************)
(* networkEvent and watchSleep: verdicts go when the primary route moved or *)
(* the machine slept; a notification about anything else changes nothing.   *)
(***************************************************************************)
networkEvent ==
  /\ route' = realRoute
  /\ IF realRoute # route THEN reset ELSE UNCHANGED <<entries, evidence>>
  /\ UNCHANGED <<transport, flight, path, realRoute>>

watchSleep ==
  /\ route' = realRoute /\ reset
  /\ UNCHANGED <<transport, flight, path, realRoute>>

(***************************************************************************)
(* Environment                                                             *)
(***************************************************************************)
Aged(e) ==
  IF e = Absent THEN e
  ELSE [e EXCEPT !.left = IF @ > 0 THEN @ - 1 ELSE 0,
                 !.probeAgo = IF @ < ProbeInterval THEN @ + 1 ELSE @,
                 !.idle = IF @ <= EntryTTL THEN @ + 1 ELSE @]

Tick ==
  /\ entries' = [k \in Keys |-> Aged(entries[k])]
  /\ UNCHANGED <<transport, flight, path, route, realRoute, evidence>>

(* A connection on a broken path can no longer hope for an answer; one that *)
(* opened on a broken path never could.                                     *)
PathChanges(k) ==
  /\ path' = [path EXCEPT ![k] = ~@]
  /\ flight' = [c \in Conns |-> IF flight[c] # Idle /\ flight[c].key = k
                                THEN [flight[c] EXCEPT !.hope = FALSE] ELSE flight[c]]
  /\ UNCHANGED <<transport, entries, route, realRoute, evidence>>

RouteMoves ==
  /\ realRoute' \in Routes \ {realRoute}
  /\ UNCHANGED <<transport, entries, flight, path, route, evidence>>

BreakerNext ==
  \/ \E c \in Conns : (\E k \in Keys : Open(c, k)) \/ Answer(c) \/ End(c)
  \/ \E k \in Keys : Refuse(k) \/ PathChanges(k)
  \/ networkEvent \/ watchSleep \/ RouteMoves \/ Tick

BreakerSpec == BreakerInit /\ [][BreakerNext]_breakerVars

BreakerFairness ==
  /\ WF_breakerVars(Tick)
  /\ \A c \in Conns : WF_breakerVars(End(c))

BreakerTypeOK ==
  /\ transport \in {"tcp", "udp"}
  /\ entries \in [Keys -> [strikes : Nat, level : 1..Len(Ladder), left : Nat,
                           probeAgo : Nat, idle : Nat, rung : 1..Len(Ladder)]]
  /\ flight \in [Conns -> {Idle} \cup [key : Keys, hope : BOOLEAN, got : BOOLEAN]]
  /\ evidence \in [Keys -> Nat]

(***************************************************************************)
(* Properties                                                              *)
(***************************************************************************)
Pause == INSTANCE PauseSpec WITH
           needed <- Threshold, fails <- evidence,
           paused <- [k \in Keys |-> Penalised(entries[k])]

(* Both brakes implement PauseSpec: a destination is refused only after the *)
(* threshold's worth of dead connections with no good one between them (or  *)
(* a unanimous refusal), however the ends of concurrent connections, resets *)
(* and prunes interleave; one good connection or a reset lifts it.          *)
BrakeIsFair == Pause!PauseSpecification

(* A probe that fails during a penalty keeps the penalty on its rung        *)
(* (tcp_health.go:152-154: "extend on the same rung rather than counting    *)
(* toward the next one").                                                   *)
ExtendsSameRung ==
  \A k \in Keys : transport = "tcp" => entries[k].left <= Ladder[entries[k].rung]

(* Once a destination's path works for good, and whatever else goes on, its *)
(* refusal ends for good: late reports of connections that died earlier can *)
(* renew it only finitely often, and refused clients never do.              *)
PauseEnds ==
  \A k \in Keys : <>[](path[k]) => <>[](~Penalised(entries[k]))
=============================================================================
