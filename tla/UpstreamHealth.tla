--------------------------- MODULE UpstreamHealth ---------------------------
(***************************************************************************)
(* The standing of one upstream (core/netprobe/latency.go): the streak that  *)
(* makes an outage, the window of outcomes and the breaker over it, the flap *)
(* rule, the seat it has at its destinations; and the prober that feeds it   *)
(* (daemon/proxylatency.go, the loop of main) next to real traffic.  The     *)
(* other names of its bindings appear as the verdicts they lead to.          *)
(*                                                                         *)
(* Stamps are ages in ticks of the prober's fast interval, saturated one     *)
(* past the last value anything compares them with; a stamp that was never   *)
(* set, or that nothing reads any more, is as old as can be.  What is measured (RTTs, handshake times) is in  *)
(* DialOrder: nothing here depends on it.                                    *)
(***************************************************************************)
EXTENDS Integers, Sequences, FiniteSets, SequencesExt, FiniteSetsExt

CONSTANTS
  DeadStrikes,       \* deadStrikeThreshold
  Window,            \* breakerWindow
  WindowTTL,         \* breakerWindowTTL
  MinSamples,        \* breakerMinSamples
  CooldownMax,       \* breakerCooldownMax (breakerCooldown is one tick)
  TripMemory,        \* breakerTripMemory
  FlapOutages,       \* flapOutages
  FlapWindow,        \* flapWindow
  ResetGrace,        \* resetGrace
  CloseStreak,       \* breakerCloseStreak
  SeatGrace,         \* SeatGrace
  LatencyTTL,        \* proxyLatencyTTL
  Attempts,          \* proxyProbeAttempts
  FullEvery          \* proxyProbeInterval in fast intervals

(* How the code's constants relate.                                        *)
HealthAssumption ==
  /\ {DeadStrikes, Window, MinSamples, CooldownMax, FlapOutages, CloseStreak, Attempts, FullEvery}
       \subseteq Nat \ {0}
  /\ {WindowTTL, TripMemory, FlapWindow, ResetGrace, SeatGrace, LatencyTTL} \subseteq Nat
  /\ CloseStreak <= MinSamples /\ MinSamples <= Window /\ Window <= 10
  /\ 5 * (DeadStrikes - 1) < 2 * MinSamples   \* one streak short of an outage is no bad rate

VARIABLES
  sample,     \* the name's entry of samples
  grace,      \* ticks of graceUntil left
  queue,      \* outcomes of the round that are still to be recorded
  due,        \* the ticker or probeNow wants a round: "none", "tick", "now"
  sinceFull,  \* ticks since lastFull
  path,       \* environment: "flaky", or "works" from now on
  lone        \* ghost: did it fail outside an outage, and how many outages began

healthVars == <<sample, grace, queue, due, sinceFull, path, lone>>

Unknown ==
  [has |-> FALSE, ok |-> FALSE, at |-> LatencyTTL + 1, fails |-> 0, window |-> <<>>,
   traffic |-> 1, suspectSince |-> SeatGrace, open |-> FALSE, openedAt |-> CooldownMax,
   closedAt |-> TripMemory + 1, trips |-> 0, outages |-> <<>>]

HealthInit ==
  /\ sample = Unknown
  /\ grace = 0 /\ queue = <<>> /\ due = "none" /\ sinceFull = FullEvery
  /\ path = "flaky"
  /\ lone = [single |-> FALSE, outages |-> 0]

(***************************************************************************)
(* The window                                                              *)
(***************************************************************************)
suspect(s) == s.fails >= DeadStrikes

Young(w, span) == SelectSeq(w, LAMBDA o : o.age <= span)
trimOutcomes(w) == Young(w, WindowTTL)
trimTimes(ts) == SelectSeq(ts, LAMBDA age : age <= FlapWindow)

LastN(w, n) == IF Len(w) > n THEN SubSeq(w, Len(w) - n + 1, Len(w)) ELSE w
appendOutcome(w, ok) == LastN(Append(trimOutcomes(w), [ok |-> ok, age |-> 0]), Window)

(* Only whether there are FlapOutages young outages matters: older ones go. *)
appendOutage(ts) == LastN(Append(trimTimes(ts), 0), FlapOutages)

Bad(w) == Cardinality({i \in DOMAIN w : ~w[i].ok})

(* failureRate in 2520ths, the common denominator of up to ten outcomes.    *)
Whole == 2520
failureRate(w) == IF w = <<>> THEN 0 ELSE (Whole * Bad(w)) \div Len(w)
OpenRate == (2 * Whole) \div 5          \* breakerOpenRate
CloseRate == Whole \div 5               \* breakerCloseRate
RelativeMargin == Whole \div 4          \* breakerRelativeMargin

endsWithSuccesses(w, n) ==
  Len(w) >= n /\ \A i \in Len(w) - n + 1 .. Len(w) : w[i].ok

(* A plausible slip: the outage's failures stay in the window.              *)
outageKept(w) == w

(* clearOutage: without the trailing failures, before the success that      *)
(* ended them if it is in the window.                                       *)
clearOutage(w) ==
  LET tail == IF w # <<>> /\ w[Len(w)].ok THEN <<w[Len(w)]>> ELSE <<>>
      rest == SubSeq(w, 1, Len(w) - Len(tail))
      keep == Max({0} \cup {i \in DOMAIN rest : rest[i].ok})
  IN SubSeq(rest, 1, keep) \o tail

(***************************************************************************)
(* The other names: is it the uplink?  mostOthersDownLocked and             *)
(* peerFailureRateLocked can say anything, whatever this name's record.     *)
(***************************************************************************)
mostOthersDown == BOOLEAN
peerFailureRate == {0, Whole}

(***************************************************************************)
(* record: one outcome, from a probe or from traffic              *)
(***************************************************************************)
cooldown(s) ==
  LET doubled == 2 ^ (IF s.trips > 1 THEN s.trips - 1 ELSE 0)
  IN IF doubled > CooldownMax THEN CooldownMax ELSE doubled

Streaked(s, ok, traffic) ==
  [s EXCEPT !.has = TRUE,
            !.ok = ok \/ (traffic /\ s.ok),
            !.fails = IF ok THEN 0 ELSE IF @ < DeadStrikes THEN @ + 1 ELSE @,
            !.at = IF traffic THEN @ ELSE 0]

Weighed(s, ok, traffic) ==
  IF ~traffic \/ s.traffic >= 1
    THEN [s EXCEPT !.traffic = IF traffic THEN 0 ELSE @, !.window = appendOutcome(@, ok)]
    ELSE [s EXCEPT !.window = trimOutcomes(@)]

OutageBegins(was, s) == suspect(s) /\ ~suspect(was)

WithOutage(was, s, uplink) ==
  IF OutageBegins(was, s)
    THEN [s EXCEPT !.suspectSince = 0,
                   !.outages = IF uplink THEN @ ELSE appendOutage(@)]
  ELSE IF suspect(was) /\ ~suspect(s) THEN [s EXCEPT !.window = clearOutage(@), !.suspectSince = SeatGrace]
  ELSE s

evaluateBreaker(s, baseline) ==
  IF ~s.open
    THEN \/ Len(trimTimes(s.outages)) >= FlapOutages
         \/ /\ ~suspect(s) /\ Len(s.window) >= MinSamples
            /\ failureRate(s.window) >= OpenRate
            /\ failureRate(s.window) - baseline >= RelativeMargin
    ELSE \/ s.openedAt < cooldown(s)
         \/ Len(s.window) < MinSamples \/ failureRate(s.window) > CloseRate
         \/ ~endsWithSuccesses(s.window, CloseStreak)

Judged(s, open) ==
  IF open /\ ~s.open
    THEN [s EXCEPT !.open = TRUE, !.openedAt = 0, !.closedAt = TripMemory + 1, !.outages = <<>>,
                   !.trips = IF s.closedAt > TripMemory THEN 1
                             ELSE IF 2 ^ @ <= CooldownMax THEN @ + 1 ELSE @]
  ELSE IF ~open /\ s.open THEN [s EXCEPT !.open = FALSE, !.closedAt = 0, !.openedAt = CooldownMax]
  ELSE s

Recorded(ok, traffic, uplink, baseline) ==
  LET s == WithOutage(sample, Weighed(Streaked(sample, ok, traffic), ok, traffic), uplink)
  IN Judged(s, evaluateBreaker(s, baseline))

record(ok, traffic) ==
  IF ~ok /\ grace > 0
    THEN UNCHANGED <<sample, lone>>
    ELSE /\ \E uplink \in mostOthersDown, baseline \in peerFailureRate :
              sample' = Recorded(ok, traffic, uplink, baseline)
         /\ lone' = [single |-> lone.single \/ (ok /\ sample.fails > 0 /\ ~suspect(sample)),
                     outages |-> IF OutageBegins(sample, sample') /\ lone.outages < FlapOutages
                                   THEN lone.outages + 1 ELSE lone.outages]

(***************************************************************************)
(* What the rest of the daemon asks                                        *)
(***************************************************************************)
Seat ==
  IF ~sample.has THEN "held"
  ELSE IF sample.open THEN "lost"
  ELSE IF suspect(sample) THEN IF sample.suspectSince >= SeatGrace THEN "lost" ELSE "outage"
  ELSE "held"

Unsettled == ~sample.has \/ sample.open \/ ~sample.ok \/ sample.at > LatencyTTL

(***************************************************************************)
(* The prober: its loop in main and probeProxies                            *)
(***************************************************************************)
(* What a round yields for the name: a failure at once when its store row is *)
(* gone; else one outcome per attempt, all failures when the transfer test   *)
(* stalled, and nothing when no name of the round had a success.             *)
probeProxies ==
  IF path = "works" THEN {[a \in 1 .. Attempts |-> TRUE]}
  ELSE {<<FALSE>>, <<>>} \cup [1 .. Attempts -> BOOLEAN]

Round ==
  /\ due # "none" /\ queue = <<>>
  /\ LET full == due = "now" \/ sinceFull >= FullEvery
     IN /\ IF full \/ Unsettled THEN queue' \in probeProxies ELSE UNCHANGED queue
        /\ sinceFull' = IF full THEN 0 ELSE sinceFull
  /\ due' = "none"
  /\ UNCHANGED <<sample, grace, path, lone>>

RecordProbe ==
  /\ queue # <<>>
  /\ record(Head(queue), FALSE)
  /\ queue' = Tail(queue)
  /\ UNCHANGED <<grace, due, sinceFull, path>>

(***************************************************************************)
(* Traffic, the network and time                                           *)
(***************************************************************************)
(* Fail and Succeed: a connection through the name carried nothing, or did. *)
Traffic ==
  /\ \E ok \in BOOLEAN : (path = "works" => ok) /\ record(ok, TRUE)
  /\ UNCHANGED <<grace, queue, due, sinceFull, path>>

(* A network change or a wake: Reset, and probeNow.                         *)
Reset ==
  /\ path = "flaky"
  /\ sample' = Unknown
  /\ grace' = ResetGrace /\ due' = "now"
  /\ UNCHANGED <<queue, sinceFull, path, lone>>

PathSettles ==
  /\ path = "flaky" /\ path' = "works"
  /\ UNCHANGED <<sample, grace, queue, due, sinceFull, lone>>

Older(age, max) == IF age < max THEN age + 1 ELSE max

Aged(s) ==
  [s EXCEPT !.at = Older(@, LatencyTTL + 1), !.traffic = 1,
            !.window = trimOutcomes([i \in DOMAIN @ |-> [@[i] EXCEPT !.age = @ + 1]]),
            !.suspectSince = Older(@, SeatGrace), !.openedAt = Older(@, CooldownMax),
            !.closedAt = Older(@, TripMemory + 1),
            !.outages = trimTimes([i \in DOMAIN @ |-> @[i] + 1])]

(* A round is over before the next tick of the prober's ticker.             *)
HealthTick ==
  /\ due = "none" /\ queue = <<>>
  /\ sample' = IF sample.has THEN Aged(sample) ELSE sample
  /\ grace' = IF grace > 0 THEN grace - 1 ELSE 0
  /\ due' = "tick" /\ sinceFull' = Older(sinceFull, FullEvery)
  /\ UNCHANGED <<queue, path, lone>>

HealthNext == Round \/ RecordProbe \/ Traffic \/ Reset \/ PathSettles \/ HealthTick

(* The prober's loop and its ticker go on: a tick is followed by its round   *)
(* and the round by the next tick.                                           *)
HealthFairness == []<>(due = "tick") /\ []<>(due = "none")

(***************************************************************************)
(* Properties                                                              *)
(***************************************************************************)

(* A name that was simply down is never demoted for it: unless it failed     *)
(* between successes, or went down FlapOutages times, its breaker is closed, *)
(* however long the outage and whatever probes and connections saw of it     *)
(* (latency.go:445-452 and clearOutage).                                     *)
DownIsNotFlaky ==
  sample.open => lone.single \/ lone.outages >= FlapOutages

(* Whatever its record, a name whose path works for good gets its seat back  *)
(* and keeps it: cool-downs end, the window is refilled by the re-checks of  *)
(* unsettled names, and no old outage demotes it for ever.                   *)
ReturnsToService ==
  [](path = "works" => <>[](Seat = "held" /\ sample.ok))
=============================================================================
