------------------------------ MODULE DialOrder ------------------------------
(***************************************************************************)
(* The order in which a connection tries the members of its rule's         *)
(* binding: LatencyTracker.RankFrom (core/netprobe/latency.go),            *)
(* siteAvoid.demote (daemon/siteavoid.go) and diverseOrder                 *)
(* (daemon/proxytun.go), applied one after the other by orderedNames and   *)
(* raceRound.                                                              *)
(*                                                                         *)
(* What they are given is chosen at the start: how the latency tracker     *)
(* stands towards each member (UpstreamHealth), which member the           *)
(* destination is bound to (StickySites), which are avoided for its site   *)
(* (SiteAvoid) and which share a way in or a way out.  Costs and rates are *)
(* small numbers.                                                          *)
(***************************************************************************)
EXTENDS Naturals, Integers, Sequences, FiniteSets, SequencesExt

CONSTANTS
    Binding,            \* the members, in the order of the rule
    Standings,          \* the standings a member may have
    Incumbents,         \* the members the destination may be bound to
    Ways,               \* member -> set of keys: its way in, its way out
    HysteresisFloor, FractionNum, FractionDen

VARIABLES standing, incumbent, shunned, keysOf, order

orderVars == <<standing, incumbent, shunned, keysOf, order>>

Names == ToSet(Binding)
Idx(m) == CHOOSE i \in DOMAIN Binding : Binding[i] = m

Healthy == 0
Probation == 1
Unsure == 2
Suspected == 3
Dead == 4

\* sort.SliceStable's comparison.
RanksBefore(a, b) ==
    LET x == standing[a]
        y == standing[b]
        never(s) == s.rtt = 0
    IN  CASE x.tier # y.tier -> x.tier < y.tier
          [] x.tier \in {Healthy, Probation} /\ x.rtt # y.rtt -> x.rtt < y.rtt
          [] x.tier \in {Suspected, Dead} /\ x.rate # y.rate -> x.rate < y.rate
          [] x.tier \in {Suspected, Dead} /\ never(x) # never(y) -> never(y)
          [] x.tier \in {Suspected, Dead} /\ x.rtt # y.rtt -> x.rtt < y.rtt
          [] OTHER -> Idx(a) < Idx(b)

Sorted ==
    [i \in DOMAIN Binding |->
        CHOOSE m \in Names : Cardinality({o \in Names \ {m} : RanksBefore(o, m)}) = i - 1]

beatsByMargin(challenger, held) ==
    LET x == standing[challenger]
        y == standing[held]
        gain == y.rtt - x.rtt
    IN  IF x.tier # y.tier THEN x.tier < y.tier
        ELSE gain >= HysteresisFloor /\ gain * FractionDen >= FractionNum * y.rtt

\* The member put in front, the others keeping their order.
ToFront(m, seq) == <<m>> \o SelectSeq(seq, LAMBDA o : o # m)

RankFrom ==
    LET held == standing[incumbent]
    IN  IF /\ incumbent \in Names
           /\ Sorted[1] # incumbent
           /\ held.tier <= Unsure
           /\ \/ held.tier = Unsure /\ ~held.probation
              \/ ~beatsByMargin(Sorted[1], incumbent)
        THEN ToFront(incumbent, Sorted)
        ELSE Sorted

demote(ranked) ==
    LET ok == SelectSeq(ranked, LAMBDA m : m \notin shunned)
        last == SelectSeq(ranked, LAMBDA m : m \in shunned)
    IN  IF ok = << >> THEN ranked ELSE ok \o last

BestOf(ranked, among) ==
    ranked[CHOOSE i \in DOMAIN ranked :
              ranked[i] \in among /\ \A j \in 1 .. i - 1 : ranked[j] \notin among]

\* A plausible slip: a launch is compared with the one before it only.
diverseFromLast(ranked) ==
    LET Fresh(left, seen) == {m \in left : keysOf[m] \cap seen = {}}
        pass[k \in 0 .. Len(ranked)] ==
            IF k = 0 THEN [out |-> << >>, seen |-> {}]
            ELSE LET p == pass[k - 1]
                     left == ToSet(ranked) \ ToSet(p.out)
                     again == Fresh(left, p.seen) = {}
                     m == BestOf(ranked, IF again THEN left ELSE Fresh(left, p.seen))
                 IN  [out |-> Append(p.out, m), seen |-> keysOf[m]]
    IN  IF Len(ranked) < 3 THEN ranked ELSE pass[Len(ranked)].out

\* The best member left that shares no key with those of this pass; a new
\* pass begins when there is none.
diverseOrder(ranked) ==
    LET Fresh(left, seen) == {m \in left : keysOf[m] \cap seen = {}}
        pass[k \in 0 .. Len(ranked)] ==
            IF k = 0 THEN [out |-> << >>, seen |-> {}]
            ELSE LET p == pass[k - 1]
                     left == ToSet(ranked) \ ToSet(p.out)
                     again == Fresh(left, p.seen) = {}
                     m == BestOf(ranked, IF again THEN left ELSE Fresh(left, p.seen))
                 IN  [out |-> Append(p.out, m),
                      seen |-> keysOf[m] \cup (IF again THEN {} ELSE p.seen)]
    IN  IF Len(ranked) < 3 THEN ranked ELSE pass[Len(ranked)].out

orderedNames == demote(RankFrom)

OrderInit ==
    /\ standing \in [Names -> Standings]
    /\ incumbent \in Incumbents
    /\ shunned \in SUBSET Names
    /\ keysOf \in Ways
    /\ order = << >>

\* raceRound fixes the order of its launches.
raceRound ==
    /\ order = << >>
    /\ order' = diverseOrder(orderedNames)
    /\ UNCHANGED <<standing, incumbent, shunned, keysOf>>

OrderNext == raceRound

OrderSpec == OrderInit /\ [][OrderNext]_orderVars

-----------------------------------------------------------------------------
(* Properties. *)

Decided == order # << >>

Open == Names \ shunned

\* The launches that share no way in and no way out.
Pass ==
    {k \in DOMAIN order : \A i, j \in 1 .. k : i # j => keysOf[order[i]] \cap keysOf[order[j]] = {}}

\* Every member is launched once.  The destination stays with the member it
\* is bound to while that is not avoided and no other is better by the
\* margin or in a better tier; a member that stands badly never leads while a
\* healthy one that is not avoided is there.  And until a way in or out is
\* used twice, every way that no launch has used yet has been tried.
LaunchesAreSound ==
    Decided =>
        /\ Len(order) = Len(Binding) /\ ToSet(order) = Names
        /\ LET lead == order[1]
               rivals == IF Open = {} THEN Names ELSE Open
           IN  /\ lead \in rivals
               /\ \A m \in rivals : standing[lead].tier > Unsure => standing[m].tier >= standing[lead].tier
               /\ (/\ incumbent \in rivals /\ standing[incumbent].tier <= Unsure
                   /\ \A m \in Names : ~beatsByMargin(m, incumbent)) => lead = incumbent
        /\ \A m \in Names \ {order[k] : k \in Pass} :
               \E k \in Pass : keysOf[m] \cap keysOf[order[k]] # {}

\* What the comment on orderedNames says of a member that keeps failing the
\* site: "still in the list, just tried last".
AvoidedTriedLast ==
    Decided => \A i, j \in DOMAIN order : order[i] \in shunned /\ order[j] \in Open => j < i

=============================================================================
