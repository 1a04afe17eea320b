------------------------------ MODULE NodePool ------------------------------
(***************************************************************************)
(* Parking of dead pool nodes (daemon/xray_nodepark.go) and its place in   *)
(* the dialer slots the supervisor loads (resolveDialerSlots in            *)
(* daemon/xray.go, strategies in daemon/xray_strategy.go).                 *)
(*                                                                         *)
(* Three goroutines meet here.  The health poll copies the loaded slots    *)
(* under the supervisor's mutex, lets it go, reads the observatory, judges *)
(* the copy and reconciles.  A network change returns every parked node    *)
(* and reconciles.  A user (or a subscription refresh) changes a pool's    *)
(* members or strategy and reconciles.  The park records have a lock of    *)
(* their own, so they move while a Reconcile is under way.                 *)
(*                                                                         *)
(* A node may be a member of several pools; its park record is shared by   *)
(* them.  The observatory's report is an arbitrary input.  Instants are    *)
(* kept as ages and remaining times, in ticks, so time never runs out.     *)
(***************************************************************************)
EXTENDS Integers, Sequences, FiniteSets

CONSTANTS Nodes, Pools,
          PoolSeq,            \* the pools in slot order
          Pins,               \* pool -> nodes a manual strategy pins
          Memberships,        \* the memberships subscription refreshes lead to
          Strategies,         \* the strategies users and the classifier choose
          nodeDeadBeforePark, nodeTrialWindow, nodeParkInitial, nodeParkMax,
          NoOne,
          MaxEvents           \* bound: edits, switches, network changes, skipped polls

ASSUME PoolAssumption ==
  /\ nodeTrialWindow \in Nat \ {0} /\ nodeTrialWindow <= nodeDeadBeforePark
  /\ nodeParkInitial \in Nat \ {0} /\ nodeParkInitial <= nodeParkMax
  /\ nodeDeadBeforePark \in Nat /\ nodeParkMax \in Nat
  /\ Memberships \subseteq [Pools -> SUBSET Nodes]
  /\ Strategies \subseteq {"stable", "agile", "manual"}
  /\ PoolSeq \in Seq(Pools) /\ MaxEvents \in Nat
  /\ \A p \in Pools : p \in {PoolSeq[i] : i \in DOMAIN PoolSeq}

VARIABLES members,   \* pool -> nodes its dialer resolves to
          strategy,  \* pool -> strategy its next Reconcile resolves it with
          nodes,     \* nodeParker.nodes: node -> park record, NoRecord if none
          slots,     \* s.loadedSlots: pool -> members and strategy loaded
          pc,        \* poll, net, user: what each is doing
          poll,      \* the poll's copy of the slots
          changed,   \* has this poll round anything to apply
          mu,        \* the Reconcile that holds the supervisor's mutex
          snap,      \* the parked nodes that Reconcile read
          events,
          back,      \* history: ticks since a node was last put back, capped
          pinged     \* history: nodes out of use whose park a live ping ended

vars == <<members, strategy, nodes, slots, pc, poll, changed, mu, snap, events, back, pinged>>

Callers == {"poll", "net", "user"}

ASSUME NobodyAssumption == NoOne \notin Callers

No == -1   \* a zero time.Time
NoRecord == [dead |-> No, left |-> No, for |-> 0, trial |-> FALSE]

InRange(seq) == {seq[i] : i \in DOMAIN seq}
Least(a, b) == IF a <= b THEN a ELSE b

-----------------------------------------------------------------------------
(* nodeParker                                                              *)

\* parked(): before its parkedUntil, which is one tick away at least.
Parked == {n \in Nodes : nodes[n].left > 0}

\* A variant without the cap, for mutation.
ParkUncapped(rec) ==
  CASE rec.for = 0 -> nodeParkInitial
    [] rec.for # 0 /\ rec.trial -> 2 * rec.for
    [] OTHER -> rec.for

\* parkFor: doubled, up to a cap, when a trial failed.
parkFor(rec) ==
  CASE rec.for = 0 -> nodeParkInitial
    [] rec.for # 0 /\ rec.trial -> Least(2 * rec.for, nodeParkMax)
    [] OTHER -> rec.for

\* observe, for one member of one slot.  A node that answers is forgotten; a
\* dead one is parked once it has been dead for as long as its standing asks,
\* if a sibling answers.
ObserveMember(rec, n, seen, siblingAlive, size) ==
  LET dead == IF rec.dead = No THEN 0 ELSE rec.dead
      wait == IF rec.trial THEN nodeTrialWindow ELSE nodeDeadBeforePark
  IN  CASE seen[n] = "alive" -> NoRecord
        [] seen[n] = "unknown" -> rec
        [] seen[n] = "dead" ->
             IF dead >= wait /\ siblingAlive /\ size > 1
             THEN [dead |-> No, left |-> parkFor(rec), for |-> parkFor(rec), trial |-> FALSE]
             ELSE [rec EXCEPT !.dead = dead]

NeverParks(slot) == slot.strategy \in {"agile", "manual"}

\* observe, for one slot: agile and manual slots are skipped.
ObserveSlot(recs, slot, seen) ==
  LET alive == \E m \in slot.members : seen[m] = "alive"
  IN  IF NeverParks(slot) THEN recs
      ELSE [n \in Nodes |->
              IF n \in slot.members
              THEN ObserveMember(recs[n], n, seen, alive, Cardinality(slot.members))
              ELSE recs[n]]

\* observe: the slots in order.  Each slot has its own outbound for a member,
\* so the observatory may report differently on the same node.
Observed(recs, loaded, seen) ==
  LET after[i \in 0..Len(PoolSeq)] ==
        IF i = 0 THEN recs ELSE ObserveSlot(after[i - 1], loaded[PoolSeq[i]], seen[PoolSeq[i]])
  IN  after[Len(PoolSeq)]

\* A variant that keeps the failures seen so far, for mutation.
OnTrialStillDead(rec) == [rec EXCEPT !.left = No, !.trial = TRUE]

\* What a node put back on trial keeps: how long it was parked last.
OnTrial(rec) == [rec EXCEPT !.left = No, !.dead = No, !.trial = TRUE]

\* A variant that may empty the list, for mutation.
withoutAllParked(ms, out) == ms \ out

\* withoutParked: never empties a list.
withoutParked(ms, out) == IF ms \ out = {} THEN ms ELSE ms \ out

-----------------------------------------------------------------------------
(* resolveDialerSlots                                                      *)

Effective(p) ==
  IF strategy[p] = "manual" /\ Pins[p] \cap members[p] = {} THEN "stable"
  ELSE strategy[p]

ResolvedSlot(p, out) ==
  [members |-> CASE Effective(p) = "manual" -> Pins[p] \cap members[p]
                 [] Effective(p) = "agile" -> members[p]
                 [] OTHER -> withoutParked(members[p], out),
   strategy |-> Effective(p)]

\* The parked members an agile pool takes back, whose records are dropped.
TakenBack(out) == {n \in out : \E p \in Pools : Effective(p) = "agile" /\ n \in members[p]}

\* A variant that retains only what it is about to load, for mutation.
DroppedUnloaded(out) ==
  TakenBack(out) \cup (Nodes \ UNION {ResolvedSlot(p, out).members : p \in Pools})

\* forget and retain: the records a Reconcile drops.
Dropped(out) == TakenBack(out) \cup (Nodes \ UNION {members[p] : p \in Pools})

-----------------------------------------------------------------------------
Statuses == {"alive", "dead", "unknown"}

\* What the observatory can report on the members of the slots.
Reports(loaded) ==
  {seen \in [Pools -> [Nodes -> Statuses]] :
     \A p \in Pools, n \in Nodes : n \notin loaded[p].members => seen[p][n] = "unknown"}

Init ==
  /\ members \in Memberships
  /\ strategy = [p \in Pools |-> "stable"]
  /\ nodes = [n \in Nodes |-> NoRecord]
  /\ slots = [p \in Pools |-> [members |-> members[p], strategy |-> "stable"]]
  /\ pc = [c \in Callers |-> "idle"]
  /\ poll = <<>>
  /\ changed = FALSE
  /\ mu = NoOne
  /\ snap = {}
  /\ events = 0
  /\ back = [n \in Nodes |-> nodeTrialWindow]
  /\ pinged = {}

\* Time passes: records age, parks run down.
Tick ==
  /\ nodes' = [n \in Nodes |->
       [nodes[n] EXCEPT !.dead = IF @ = No THEN No ELSE Least(@ + 1, nodeDeadBeforePark),
                        !.left = IF @ > 0 THEN @ - 1 ELSE @]]
  /\ back' = [n \in Nodes |-> Least(back[n] + 1, nodeTrialWindow)]
  /\ nodes' # nodes \/ back' # back
  /\ UNCHANGED <<members, strategy, slots, pc, poll, changed, mu, snap, events, pinged>>

\* PollNodeHealth copies the slots under the mutex and releases it.
PollReads ==
  /\ pc["poll"] = "idle" /\ mu = NoOne
  /\ poll' = slots
  /\ pc' = [pc EXCEPT !["poll"] = "observe"]
  /\ changed' = FALSE
  /\ UNCHANGED <<members, strategy, nodes, slots, mu, snap, events, back, pinged>>

\* A round that decides nothing: the metrics do not answer, or the round
\* falls between two decisions and at most follows an agile pool's move.
PollSkips ==
  /\ pc["poll"] = "observe" /\ events < MaxEvents
  /\ events' = events + 1
  /\ \E next \in {"idle"} \cup {"want" : p \in {q \in Pools : poll[q].strategy = "agile"}} :
       pc' = [pc EXCEPT !["poll"] = next]
  /\ poll' = <<>>
  /\ UNCHANGED <<members, strategy, nodes, slots, changed, mu, snap, back, pinged>>

\* It judges that copy by what the observatory reports, and the auto
\* classifier may turn a pool over.
PollObserves ==
  /\ pc["poll"] = "observe"
  /\ \E seen \in Reports(poll) : nodes' = Observed(nodes, poll, seen)
  /\ \/ UNCHANGED <<strategy, events>>
     \/ /\ events < MaxEvents /\ "agile" \in Strategies
        /\ events' = events + 1
        /\ \E p \in Pools : /\ strategy[p] # "manual"
                            /\ strategy' = [strategy EXCEPT ![p] =
                                 IF @ = "agile" THEN "stable" ELSE "agile"]
  /\ changed' = (strategy' # strategy \/ \E n \in Nodes : nodes'[n].left > nodes[n].left)
  /\ pc' = [pc EXCEPT !["poll"] = "release"]
  /\ poll' = <<>>
  /\ pinged' = pinged \cup {n \in Nodes : nodes[n].left # No /\ nodes'[n].left = No}
  /\ UNCHANGED <<members, slots, mu, snap, back>>

\* A variant that returns early when observe changed nothing, for mutation.
PollReleasesIfChanged ==
  /\ pc["poll"] = "release"
  /\ IF ~changed
     THEN pc' = [pc EXCEPT !["poll"] = "idle"] /\ UNCHANGED <<nodes, back>>
     ELSE LET due == {n \in Nodes : nodes[n].left = 0}
          IN  /\ nodes' = [n \in Nodes |-> IF n \in due THEN OnTrial(nodes[n]) ELSE nodes[n]]
              /\ back' = [n \in Nodes |-> IF n \in due THEN 0 ELSE back[n]]
              /\ pc' = [pc EXCEPT !["poll"] = "want"]
  /\ changed' = FALSE
  /\ UNCHANGED <<members, strategy, slots, poll, mu, snap, events, pinged>>

\* release: nodes whose time is up go back on trial; any change is applied.
PollReleases ==
  /\ pc["poll"] = "release"
  /\ LET due == {n \in Nodes : nodes[n].left = 0}
     IN  /\ nodes' = [n \in Nodes |-> IF n \in due THEN OnTrial(nodes[n]) ELSE nodes[n]]
         /\ back' = [n \in Nodes |-> IF n \in due THEN 0 ELSE back[n]]
         /\ pc' = [pc EXCEPT !["poll"] = IF changed \/ due # {} THEN "want" ELSE "idle"]
  /\ changed' = FALSE
  /\ UNCHANGED <<members, strategy, slots, poll, mu, snap, events, pinged>>

\* ReturnParked, on a network change or a wake from sleep.
ReturnParked ==
  /\ pc["net"] = "idle" /\ events < MaxEvents
  /\ events' = events + 1
  /\ LET out == {n \in Nodes : nodes[n].left # No}
     IN  /\ nodes' = [n \in Nodes |-> IF n \in out THEN OnTrial(nodes[n]) ELSE nodes[n]]
         /\ back' = [n \in Nodes |-> IF n \in out THEN 0 ELSE back[n]]
         /\ pc' = [pc EXCEPT !["net"] = IF out # {} THEN "want" ELSE "idle"]
  /\ UNCHANGED <<members, strategy, slots, poll, changed, mu, snap, pinged>>

\* A handler changes a strategy, or a refresh a membership, and reconciles.
UserEdits ==
  /\ pc["user"] = "idle" /\ events < MaxEvents
  /\ events' = events + 1
  /\ \/ members' \in Memberships \ {members} /\ UNCHANGED strategy
     \/ /\ \E p \in Pools, s \in Strategies : strategy' = [strategy EXCEPT ![p] = s]
        /\ UNCHANGED members
  /\ pc' = [pc EXCEPT !["user"] = "want"]
  /\ UNCHANGED <<nodes, slots, poll, changed, mu, snap, back, pinged>>

\* Reconcile takes the mutex and reads which nodes are parked ...
ReconcileReads(c) ==
  /\ pc[c] = "want" /\ mu = NoOne
  /\ mu' = c
  /\ snap' = Parked
  /\ pc' = [pc EXCEPT ![c] = "in"]
  /\ UNCHANGED <<members, strategy, nodes, slots, poll, changed, events, back, pinged>>

\* ... and resolves every pool with that: an agile pool's parked members are
\* forgotten, records of nodes no pool has any more are dropped, the slots
\* are loaded.
ReconcileLoads(c) ==
  /\ mu = c
  /\ slots' = [p \in Pools |-> ResolvedSlot(p, snap)]
  /\ nodes' = [n \in Nodes |-> IF n \in Dropped(snap) THEN NoRecord ELSE nodes[n]]
  /\ mu' = NoOne
  /\ snap' = {}
  /\ pinged' = {n \in pinged : \A p \in Pools : n \notin slots'[p].members}
  /\ pc' = [pc EXCEPT ![c] = "idle"]
  /\ UNCHANGED <<members, strategy, poll, changed, events, back>>

Reconciles == \E c \in Callers : ReconcileReads(c) \/ ReconcileLoads(c)

Next == \/ Tick \/ PollReads \/ PollSkips \/ PollObserves \/ PollReleases
        \/ ReturnParked \/ UserEdits \/ Reconciles

Spec == Init /\ [][Next]_vars

\* Time goes on, the poll's ticker keeps firing and answers, and the mutex is
\* handed over.
Fairness == /\ WF_vars(Tick)
            /\ SF_vars(PollReads)
            /\ WF_vars(PollObserves \/ PollReleases)
            /\ SF_vars(Reconciles)

FairSpec == Spec /\ Fairness

-----------------------------------------------------------------------------
\* The shape of the pools, the park records and the slots; a park is never
\* longer than nodeParkMax, however many trials a node has failed.
TypeOK ==
  /\ members \in [Pools -> SUBSET Nodes]
  /\ strategy \in [Pools -> {"stable", "agile", "manual"}]
  /\ nodes \in [Nodes -> [dead : No..nodeDeadBeforePark, left : No..nodeParkMax,
                          for : 0..nodeParkMax, trial : BOOLEAN]]
  /\ slots \in [Pools -> [members : SUBSET Nodes, strategy : {"stable", "agile", "manual"}]]
  /\ pc \in [Callers -> {"idle", "observe", "release", "want", "in"}]
  /\ mu \in Callers \cup {NoOne}
  /\ snap \subseteq Nodes
  /\ events \in 0..MaxEvents
  /\ back \in [Nodes -> 0..nodeTrialWindow]
  /\ pinged \subseteq Nodes

\* No goroutine has anything left to apply.
Quiet == mu = NoOne /\ \A c \in Callers : pc[c] = "idle"

\* A member a stable pool resolves to and does not have loaded.
LeftOut(p, n) ==
  /\ slots[p].strategy = "stable"
  /\ n \in members[p] \ slots[p].members

LoadedNowhere(n) == \A p \in Pools : n \notin slots[p].members

\* A member of a stable pool that no pool has loaded.
OutOfUse(n) == LoadedNowhere(n) /\ \E p \in Pools : LeftOut(p, n)

\* A node out of use has a park record to bring it back, unless it was its
\* own live ping that ended the park: through every interleaving of the
\* poll's stale copy, network changes, strategy switches and refreshes,
\* neither forget, retain, release nor releaseAll leaves a node behind.
OnlyPingsLose ==
  Quiet => \A n \in Nodes : OutOfUse(n) /\ n \notin pinged => nodes[n].left # No

\* "Parking never empties a pool", also when the nodes of one pool were
\* parked on what their siblings in other pools showed.
NeverEmptied ==
  Quiet => \A p \in Pools : members[p] # {} => slots[p].members # {}

\* Both, with the shape of the records: parking loses no node and no pool.
PoolsSurvive == TypeOK /\ OnlyPingsLose /\ NeverEmptied

\* A node that is put back is parked again only after a whole trial window,
\* however its record was touched in between (by a second pool it is in, a
\* network change, or a Reconcile that loaded it before its release).
WholeTrial ==
  [][\A n \in Nodes : (nodes[n].left = No /\ nodes'[n].left # No)
                        => back[n] = nodeTrialWindow]_vars

\* No node stays out of use: a member of a stable pool is loaded again and
\* again, whatever the observatory reports (save the pings of OnlyPingsLose).
ComesBack ==
  \A n \in Nodes : []<>(~OutOfUse(n) \/ n \in pinged)

=============================================================================
