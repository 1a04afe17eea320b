--------------------------- MODULE NodePool_proof ---------------------------
(***************************************************************************)
(* Proofs about NodePool, for any nodes, pools, memberships and times:      *)
(* parking loses no node and empties no pool, and a node that was put back  *)
(* has its whole trial.                                                     *)
(*                                                                         *)
(* OnlyPingsLose and NeverEmptied speak of quiet states and are not         *)
(* inductive.  The invariant says what holds while someone is at work: a    *)
(* node out of use without a record has a Reconcile coming that will load   *)
(* it, either one that waits for the mutex (Pending) or the one that holds  *)
(* it and did not read the node as parked; and of a node that the Reconcile *)
(* did read as parked, the record is still there, or a ping ended it, or    *)
(* whoever took it reconciles next.                                         *)
(***************************************************************************)
EXTENDS NodePool, WellFoundedInduction, TLAPS

RecType == [dead : No..nodeDeadBeforePark, left : No..nodeParkMax,
            for : 0..nodeParkMax, trial : BOOLEAN]
SlotType == [members : SUBSET Nodes, strategy : {"stable", "agile", "manual"}]

Pending == \E c \in Callers : pc[c] = "want"

\* The poll's copy has the shape of the slots, and the holder of the mutex
\* is inside its Reconcile.
Shape == /\ TypeOK
         /\ pc["poll"] = "observe" => poll \in [Pools -> SlotType]
         /\ \A c \in Callers : mu = c => pc[c] = "in"

\* A node out of use without a record is about to be loaded.
Recalled ==
  \A n \in Nodes : OutOfUse(n) /\ n \notin pinged /\ nodes[n].left = No
                     => Pending \/ (mu # NoOne /\ n \notin snap)

\* What a Reconcile read as parked still is, or somebody reconciles next.
SnapBacked ==
  mu # NoOne => \A n \in snap : nodes[n].left = No => n \in pinged \/ Pending

\* An empty slot of a pool with members is about to be filled.
Refilled ==
  \A p \in Pools : members[p] # {} /\ slots[p].members = {} => Pending \/ mu # NoOne

\* No node has been seen dead for longer than it has been back.
TrialKept ==
  \A n \in Nodes : nodes[n].dead <= back[n] \/ back[n] = nodeTrialWindow

Inv == Shape /\ Recalled /\ SnapBacked /\ Refilled /\ TrialKept

-----------------------------------------------------------------------------
(* Induction over the slots that observe goes through.                      *)

LEMMA Induction ==
  ASSUME NEW S \in SUBSET Nat, 0 \in S, \A k \in S : k + 1 \in S
  PROVE  S = Nat
<1> DEFINE Less == {ss \in Nat \X Nat : ss[1] < ss[2]}
           T == Nat \ S
<1>1. IsWellFoundedOn(Less, Nat)  BY NatLessThanWellFounded, Zenon DEF OpToRel
<1>2. SUFFICES ASSUME T # {} PROVE FALSE  BY Zenon
<1>3. T \in SUBSET Nat  OBVIOUS
<1> HIDE DEF T
<1>4. PICK x \in T : \A y \in T : ~(<<y, x>> \in Less)  BY <1>1, <1>2, <1>3, WFMin, Zenon
<1> USE DEF T
<1>5. x # 0 /\ x - 1 \in Nat /\ x - 1 < x  OBVIOUS
<1>6. <<x - 1, x>> \in Less  BY <1>5
<1>7. x - 1 \in S  BY <1>4, <1>5, <1>6
<1> QED  BY <1>5, <1>7

\* observe is a fold over the slots in order.
LEMMA ObservedFolds ==
  ASSUME NEW recs, NEW loaded, NEW seen
  PROVE  \E f : /\ f[0] = recs
                /\ \A i \in 1..Len(PoolSeq) :
                     f[i] = ObserveSlot(f[i - 1], loaded[PoolSeq[i]], seen[PoolSeq[i]])
                /\ Observed(recs, loaded, seen) = f[Len(PoolSeq)]
<1> DEFINE G(g, i) == ObserveSlot(g, loaded[PoolSeq[i]], seen[PoolSeq[i]])
           Is(f, k) == f = [i \in 0..k |-> IF i = 0 THEN recs ELSE G(f[i - 1], i)]
           after == CHOOSE f : Is(f, Len(PoolSeq))
           S == {k \in Nat : \E f : Is(f, k)}
<1>1. Observed(recs, loaded, seen) = after[Len(PoolSeq)]  BY DEF Observed
<1>2. Len(PoolSeq) \in Nat  BY PoolAssumption
<1> HIDE DEF G
<1>3. 0 \in S
  <2>1. Is([i \in 0..0 |-> recs], 0)  OBVIOUS
  <2> QED  BY <2>1, Zenon
<1>4. \A k \in S : k + 1 \in S
  <2> SUFFICES ASSUME NEW k \in Nat, NEW f, Is(f, k) PROVE \E g : Is(g, k + 1)
    OBVIOUS
  <2> DEFINE g == [i \in 0..k + 1 |-> IF i = k + 1 THEN G(f[k], k + 1) ELSE f[i]]
  <2>1. \A i \in 0..k + 1 : g[i] = IF i = 0 THEN recs ELSE G(g[i - 1], i)
    <3> SUFFICES ASSUME NEW i \in 0..k + 1
                 PROVE  g[i] = IF i = 0 THEN recs ELSE G(g[i - 1], i)
      OBVIOUS
    <3>1. CASE i = k + 1
      <4>1. g[i] = G(f[k], k + 1) /\ g[i - 1] = f[k] /\ i # 0  BY <3>1
      <4> QED  BY <3>1, <4>1
    <3>2. CASE i = 0
      <4>1. g[i] = f[i] /\ f[i] = recs  BY <3>2
      <4> QED  BY <3>2, <4>1
    <3>3. CASE i # 0 /\ i # k + 1
      <4>1. i \in 0..k /\ i - 1 \in 0..k /\ i - 1 # k + 1 /\ i - 1 \in 0..k + 1  BY <3>3
      <4>2. g[i] = f[i] /\ g[i - 1] = f[i - 1]  BY <3>3, <4>1
      <4>3. f[i] = G(f[i - 1], i)  BY <3>3, <4>1
      <4> QED  BY <3>3, <4>2, <4>3
    <3> QED  BY <3>1, <3>2, <3>3
  <2>2. Is(g, k + 1)  BY <2>1
  <2> QED  BY <2>2, Zenon
<1>5. Len(PoolSeq) \in S  BY <1>2, <1>3, <1>4, Induction, Zenon
<1>6. Is(after, Len(PoolSeq))
  <2> HIDE DEF Is
  <2> QED  BY <1>5
<1>7. /\ after[0] = recs
      /\ \A i \in 1..Len(PoolSeq) : after[i] = G(after[i - 1], i)
  <2> HIDE DEF after
  <2> QED  BY <1>2, <1>6
<1> HIDE DEF after
<1> QED  BY <1>1, <1>7 DEF G

-----------------------------------------------------------------------------
(* What the operations on one record do.                                    *)

LEMMA Numbers ==
  /\ nodeTrialWindow \in Nat \ {0} /\ nodeDeadBeforePark \in Nat
  /\ nodeTrialWindow <= nodeDeadBeforePark
  /\ nodeParkInitial \in Nat \ {0} /\ nodeParkMax \in Nat
  /\ nodeParkInitial <= nodeParkMax
  /\ No = -1
BY PoolAssumption DEF No

LEMMA NoRecordFacts ==
  NoRecord \in RecType /\ NoRecord.dead = No /\ NoRecord.left = No
BY Numbers DEF NoRecord, RecType

LEMMA RecFacts ==
  ASSUME NEW r \in RecType
  PROVE  /\ r.dead \in No..nodeDeadBeforePark /\ r.left \in No..nodeParkMax
         /\ r.for \in 0..nodeParkMax /\ r.trial \in BOOLEAN
BY DEF RecType

LEMMA OnTrialFacts ==
  ASSUME NEW r \in RecType
  PROVE  OnTrial(r) \in RecType /\ OnTrial(r).dead = No /\ OnTrial(r).left = No
<1>1. No \in No..nodeDeadBeforePark /\ No \in No..nodeParkMax  BY Numbers
<1> QED  BY <1>1, Zenon DEF OnTrial, RecType

LEMMA ParkForFacts ==
  ASSUME NEW r \in RecType
  PROVE  parkFor(r) \in 1..nodeParkMax
<1>1. r.for \in 0..nodeParkMax /\ r.trial \in BOOLEAN  BY RecFacts
<1>2. CASE r.for = 0  BY <1>2, Numbers DEF parkFor
<1>3. CASE r.for # 0 /\ r.trial
  <2>1. parkFor(r) = Least(2 * r.for, nodeParkMax)  BY <1>3 DEF parkFor
  <2> QED  BY <1>1, <1>3, <2>1, Numbers DEF Least
<1>4. CASE r.for # 0 /\ ~r.trial
  <2>1. parkFor(r) = r.for  BY <1>4 DEF parkFor
  <2> QED  BY <1>1, <1>4, <2>1, Numbers
<1> QED  BY <1>1, <1>2, <1>3, <1>4

LEMMA LeastFacts ==
  ASSUME NEW a \in Int, NEW b \in Int
  PROVE  Least(a, b) \in {a, b} /\ Least(a, b) <= a /\ Least(a, b) <= b
BY DEF Least

\* What a round of observe may make of a record r: it is parked anew only if
\* it had been dead for a trial window before the round began.
Follows(r, q) ==
  /\ q \in RecType
  /\ q.dead \in {No, 0, r.dead}
  /\ q.left \in {No, r.left} \/ r.dead >= nodeTrialWindow

LEMMA MemberFollows ==
  ASSUME NEW r \in RecType, NEW q, Follows(r, q), NEW n \in Nodes,
         NEW seen \in [Nodes -> Statuses], NEW alive, NEW size
  PROVE  Follows(r, ObserveMember(q, n, seen, alive, size))
<1> DEFINE dead == IF q.dead = No THEN 0 ELSE q.dead
           wait == IF q.trial THEN nodeTrialWindow ELSE nodeDeadBeforePark
           new == ObserveMember(q, n, seen, alive, size)
           parks == dead >= wait /\ alive /\ size > 1
           parked == [dead |-> No, left |-> parkFor(q), for |-> parkFor(q), trial |-> FALSE]
           noted == [q EXCEPT !.dead = dead]
<1>1. q \in RecType  BY DEF Follows
<1>2. /\ q.dead \in No..nodeDeadBeforePark /\ q.trial \in BOOLEAN
      /\ r.dead \in No..nodeDeadBeforePark
  BY <1>1, RecFacts
<1>3. dead \in 0..nodeDeadBeforePark /\ dead \in {0, r.dead}
  BY <1>2, Numbers DEF Follows
<1>4. seen[n] \in {"alive", "dead", "unknown"}  BY DEF Statuses
<1>5. CASE seen[n] = "alive"
  <2>1. new = NoRecord  BY <1>5 DEF ObserveMember
  <2> QED  BY <2>1, NoRecordFacts DEF Follows
<1>6. CASE seen[n] = "unknown"
  <2>1. new = q  BY <1>6 DEF ObserveMember
  <2> QED  BY <2>1
<1>7. CASE seen[n] = "dead" /\ parks
  <2>1. new = parked  BY <1>7 DEF ObserveMember
  <2>2. parkFor(q) \in 1..nodeParkMax  BY <1>1, ParkForFacts
  <2>3. parked \in RecType  BY <2>2, Numbers DEF RecType
  <2>4. dead >= nodeTrialWindow  BY <1>2, <1>3, <1>7, Numbers
  <2>5. r.dead >= nodeTrialWindow  BY <1>3, <2>4, Numbers
  <2> QED  BY <2>1, <2>3, <2>5 DEF Follows
<1>8. CASE seen[n] = "dead" /\ ~parks
  <2>1. new = noted  BY <1>8 DEF ObserveMember
  <2>2. dead \in No..nodeDeadBeforePark  BY <1>3, Numbers
  <2> HIDE DEF dead
  <2>3. noted \in RecType /\ noted.dead = dead /\ noted.left = q.left
    BY <1>1, <2>2 DEF RecType
  <2> QED  BY <1>3, <2>1, <2>3 DEF Follows
<1> QED  BY <1>4, <1>5, <1>6, <1>7, <1>8

LEMMA SlotFollows ==
  ASSUME NEW recs \in [Nodes -> RecType], NEW now \in [Nodes -> RecType],
         \A n \in Nodes : Follows(recs[n], now[n]),
         NEW slot \in SlotType, NEW seen \in [Nodes -> Statuses]
  PROVE  /\ ObserveSlot(now, slot, seen) \in [Nodes -> RecType]
         /\ \A n \in Nodes : Follows(recs[n], ObserveSlot(now, slot, seen)[n])
<1> DEFINE alive == \E m \in slot.members : seen[m] = "alive"
           size == Cardinality(slot.members)
<1>0. SUFFICES ASSUME NEW n \in Nodes
               PROVE  Follows(recs[n], ObserveSlot(now, slot, seen)[n])
  <2>1. /\ DOMAIN ObserveSlot(now, slot, seen) = Nodes
        /\ ObserveSlot(now, slot, seen) =
             [n \in Nodes |-> ObserveSlot(now, slot, seen)[n]]
    BY Zenon DEF ObserveSlot
  <2> QED  BY <2>1 DEF Follows
<1>1. recs[n] \in RecType  OBVIOUS
<1>2. Follows(recs[n], ObserveMember(now[n], n, seen, alive, size))
  <2> HIDE DEF alive, size
  <2> QED  BY <1>1, MemberFollows
<1>3. CASE NeverParks(slot)  BY <1>3 DEF ObserveSlot
<1>4. CASE ~NeverParks(slot) /\ n \in slot.members
  <2>1. ObserveSlot(now, slot, seen)[n] = ObserveMember(now[n], n, seen, alive, size)
    BY <1>4, Zenon DEF ObserveSlot
  <2> QED  BY <1>2, <2>1, Zenon
<1>5. CASE ~NeverParks(slot) /\ n \notin slot.members
  <2>1. ObserveSlot(now, slot, seen)[n] = now[n]  BY <1>5 DEF ObserveSlot
  <2> QED  BY <2>1
<1> QED  BY <1>3, <1>4, <1>5

\* A whole round of observe, over any number of slots.
LEMMA ObserveFollows ==
  ASSUME NEW recs \in [Nodes -> RecType], NEW loaded \in [Pools -> SlotType],
         NEW seen \in [Pools -> [Nodes -> Statuses]]
  PROVE  /\ Observed(recs, loaded, seen) \in [Nodes -> RecType]
         /\ \A n \in Nodes : Follows(recs[n], Observed(recs, loaded, seen)[n])
<1> DEFINE N == Len(PoolSeq)
<1>1. N \in Nat /\ \A i \in 1..N : PoolSeq[i] \in Pools  BY PoolAssumption
<1>2. PICK f : /\ f[0] = recs
               /\ \A i \in 1..N :
                    f[i] = ObserveSlot(f[i - 1], loaded[PoolSeq[i]], seen[PoolSeq[i]])
               /\ Observed(recs, loaded, seen) = f[N]
  BY ObservedFolds
<1> DEFINE S == {k \in Nat : k <= N => /\ f[k] \in [Nodes -> RecType]
                                     /\ \A n \in Nodes : Follows(recs[n], f[k][n])}
<1>3. 0 \in S
  <2>1. \A n \in Nodes : Follows(recs[n], recs[n])  BY DEF Follows
  <2> QED  BY <1>2, <2>1
<1>4. \A k \in S : k + 1 \in S
  <2> SUFFICES ASSUME NEW k \in S, k + 1 <= N
               PROVE  /\ f[k + 1] \in [Nodes -> RecType]
                      /\ \A n \in Nodes : Follows(recs[n], f[k + 1][n])
    OBVIOUS
  <2>1. k + 1 \in 1..N /\ (k + 1) - 1 = k /\ k <= N  BY <1>1
  <2>2. f[k] \in [Nodes -> RecType] /\ \A n \in Nodes : Follows(recs[n], f[k][n])
    BY <2>1
  <2>3. f[k + 1] = ObserveSlot(f[k], loaded[PoolSeq[k + 1]], seen[PoolSeq[k + 1]])
    BY <1>2, <2>1
  <2>4. loaded[PoolSeq[k + 1]] \in SlotType /\ seen[PoolSeq[k + 1]] \in [Nodes -> Statuses]
    BY <1>1, <2>1
  <2> QED  BY <2>2, <2>3, <2>4, SlotFollows
<1>5. N \in S  BY <1>1, <1>3, <1>4, Induction, Zenon
<1> QED  BY <1>1, <1>2, <1>5

-----------------------------------------------------------------------------
(* The steps.                                                               *)

LEMMA InitInv == Init => Inv
<1> SUFFICES ASSUME Init PROVE Inv  OBVIOUS
<1> USE DEF Init
<1>1. members \in [Pools -> SUBSET Nodes]  BY PoolAssumption
<1>2. nodes \in [Nodes -> RecType]  BY NoRecordFacts
<1>3. slots \in [Pools -> SlotType]  BY <1>1 DEF SlotType
<1>4. TypeOK  BY <1>1, <1>2, <1>3, Numbers, PoolAssumption DEF TypeOK, RecType, SlotType, Callers
<1>5. Shape  BY <1>4, NobodyAssumption DEF Shape, Callers
<1>6. \A n \in Nodes : ~OutOfUse(n)  BY <1>1, Zenon DEF OutOfUse, LeftOut
<1>7. TrialKept  BY DEF TrialKept
<1>8. Refilled  BY <1>1 DEF Refilled
<1> QED  BY <1>5, <1>6, <1>7, <1>8 DEF Inv, Recalled, SnapBacked

\* The types, with records and slots named, now and after a step.
TypesOf ==
  /\ members \in [Pools -> SUBSET Nodes]
  /\ strategy \in [Pools -> {"stable", "agile", "manual"}]
  /\ nodes \in [Nodes -> RecType]
  /\ slots \in [Pools -> SlotType]
  /\ pc \in [Callers -> {"idle", "observe", "release", "want", "in"}]
  /\ mu \in Callers \cup {NoOne}
  /\ snap \subseteq Nodes
  /\ events \in 0..MaxEvents
  /\ back \in [Nodes -> 0..nodeTrialWindow]
  /\ pinged \subseteq Nodes

LEMMA Types == (TypeOK <=> TypesOf) /\ (TypeOK' <=> TypesOf')
BY DEF TypeOK, TypesOf, RecType, SlotType

\* A step that loads nothing keeps every promise about the slots if whatever
\* it takes from the records, or changes in the memberships, leaves a
\* Reconcile waiting, and if nobody who waited stops waiting.
LEMMA NothingLoaded ==
  ASSUME Inv, Shape', UNCHANGED <<slots, mu, snap>>,
         pinged \subseteq pinged',
         Pending => Pending',
         members' = members \/ Pending',
         \A n \in Nodes : nodes'[n].left = No
            => nodes[n].left = No \/ n \in pinged' \/ Pending'
  PROVE  Recalled' /\ SnapBacked' /\ Refilled'
<1>0. CASE Pending'  BY <1>0 DEF Recalled, SnapBacked, Refilled
<1>1. CASE ~Pending'
  <2>1. members' = members /\ ~Pending  BY <1>1
  <2>2. \A n \in Nodes : OutOfUse(n)' <=> OutOfUse(n)
    BY <2>1 DEF OutOfUse, LoadedNowhere, LeftOut
  <2>3. Recalled'  BY <1>1, <2>1, <2>2 DEF Recalled, Inv
  <2>4. SnapBacked'
    <3>1. snap \subseteq Nodes  BY Types DEF Inv, Shape, TypesOf
    <3> QED  BY <1>1, <2>1, <3>1 DEF SnapBacked, Inv
  <2>5. Refilled'  BY <2>1 DEF Refilled, Inv
  <2> QED  BY <2>3, <2>4, <2>5
<1> QED  BY <1>0, <1>1

\* A caller that was not waiting may do anything but enter the mutex.
LEMMA OthersWait ==
  ASSUME NEW c \in Callers, NEW at,
         pc \in [Callers -> {"idle", "observe", "release", "want", "in"}],
         pc[c] # "want", pc' = [pc EXCEPT ![c] = at]
  PROVE  (Pending => Pending') /\ (at = "want" => Pending')
BY DEF Pending

\* What a tick makes of an age and of what is left of a park.
LEMMA Ages ==
  ASSUME NEW d \in No..nodeDeadBeforePark, NEW l \in No..nodeParkMax,
         NEW b \in 0..nodeTrialWindow
  PROVE  LET older == IF d = No THEN No ELSE Least(d + 1, nodeDeadBeforePark)
             less == IF l > 0 THEN l - 1 ELSE l
             later == Least(b + 1, nodeTrialWindow)
         IN  /\ older \in No..nodeDeadBeforePark /\ less \in No..nodeParkMax
             /\ later \in 0..nodeTrialWindow
             /\ less = No => l = No
             /\ d <= b \/ b = nodeTrialWindow
                  => older <= later \/ later = nodeTrialWindow
<1>1. /\ Least(d + 1, nodeDeadBeforePark) \in {d + 1, nodeDeadBeforePark}
      /\ Least(d + 1, nodeDeadBeforePark) <= d + 1
      /\ Least(d + 1, nodeDeadBeforePark) <= nodeDeadBeforePark
  BY Numbers, LeastFacts
<1>2. /\ Least(b + 1, nodeTrialWindow) \in {b + 1, nodeTrialWindow}
      /\ Least(b + 1, nodeTrialWindow) <= b + 1
      /\ Least(b + 1, nodeTrialWindow) <= nodeTrialWindow
  BY Numbers, LeastFacts
<1> QED  BY <1>1, <1>2, Numbers

LEMMA TickInv ==
  ASSUME Inv, Tick
  PROVE  Inv'
<1> DEFINE age(d) == IF d = No THEN No ELSE Least(d + 1, nodeDeadBeforePark)
           run(l) == IF l > 0 THEN l - 1 ELSE l
<1>0. /\ nodes' = [n \in Nodes |-> [nodes[n] EXCEPT !.dead = age(@), !.left = run(@)]]
      /\ back' = [n \in Nodes |-> Least(back[n] + 1, nodeTrialWindow)]
      /\ UNCHANGED <<members, strategy, slots, pc, poll, mu, snap, events, pinged>>
  BY Zenon DEF Tick
<1>1. TypeOK /\ nodes \in [Nodes -> RecType] /\ back \in [Nodes -> 0..nodeTrialWindow]
  BY Types DEF Inv, Shape, TypesOf
<1>2. ASSUME NEW n \in Nodes
      PROVE  /\ nodes'[n] \in RecType
             /\ nodes'[n].left = No => nodes[n].left = No
             /\ back'[n] \in 0..nodeTrialWindow
             /\ nodes'[n].dead <= back'[n] \/ back'[n] = nodeTrialWindow
  <2> DEFINE r == nodes[n]
             d == age(r.dead)
             l == run(r.left)
  <2>1. r \in RecType /\ back[n] \in 0..nodeTrialWindow  BY <1>1
  <2>2. r.dead \in No..nodeDeadBeforePark /\ r.left \in No..nodeParkMax  BY <2>1, RecFacts
  <2>3. nodes'[n] = [r EXCEPT !.dead = d, !.left = l]  BY <1>0, Zenon
  <2>4. back'[n] = Least(back[n] + 1, nodeTrialWindow)  BY <1>0, Zenon
  <2>5. r.dead <= back[n] \/ back[n] = nodeTrialWindow  BY DEF Inv, TrialKept
  <2>6. /\ d \in No..nodeDeadBeforePark /\ l \in No..nodeParkMax
        /\ back'[n] \in 0..nodeTrialWindow
        /\ l = No => r.left = No
        /\ d <= back'[n] \/ back'[n] = nodeTrialWindow
    <3> HIDE DEF r
    <3> QED  BY <2>1, <2>2, <2>4, <2>5, Ages
  <2> HIDE DEF r, d, l
  <2>7. /\ [r EXCEPT !.dead = d, !.left = l] \in RecType
        /\ [r EXCEPT !.dead = d, !.left = l].dead = d
        /\ [r EXCEPT !.dead = d, !.left = l].left = l
    BY <2>1, <2>6, Zenon DEF RecType
  <2>8. nodes[n].left = r.left  BY DEF r
  <2> QED  BY <2>3, <2>6, <2>7, <2>8
<1>3. nodes' \in [Nodes -> RecType]
  <2>1. nodes' = [n \in Nodes |-> nodes'[n]]  BY <1>0, Zenon
  <2> QED  BY <1>2, <2>1
<1>4. back' \in [Nodes -> 0..nodeTrialWindow]
  <2>1. back' = [n \in Nodes |-> back'[n]]  BY <1>0, Zenon
  <2> QED  BY <1>2, <2>1
<1>5. TypeOK'  BY <1>0, <1>1, <1>3, <1>4, Types, Zenon DEF TypesOf
<1>6. Shape'  BY <1>0, <1>5, Zenon DEF Inv, Shape
<1>7. Pending => Pending'  BY <1>0, Zenon DEF Pending
<1>8. UNCHANGED <<slots, mu, snap, members, pinged>>  BY <1>0, Zenon
<1>9. Recalled' /\ SnapBacked' /\ Refilled'  BY <1>2, <1>6, <1>7, <1>8, NothingLoaded
<1>10. TrialKept'  BY <1>2 DEF TrialKept
<1> QED  BY <1>6, <1>9, <1>10 DEF Inv

LEMMA PollReadsInv ==
  ASSUME Inv, PollReads
  PROVE  Inv'
<1> USE DEF PollReads
<1>1. TypeOK  BY DEF Inv, Shape
<1>2. pc' \in [Callers -> {"idle", "observe", "release", "want", "in"}]
  BY <1>1, Types DEF Callers, TypesOf
<1>3. TypeOK'  BY <1>1, <1>2, Types DEF TypesOf
<1>4. Shape'
  <2>1. poll' \in [Pools -> SlotType]  BY <1>1, Types DEF TypesOf
  <2>2. \A c \in Callers : mu' # c  BY NobodyAssumption
  <2> QED  BY <1>3, <2>1, <2>2 DEF Shape
<1>5. Pending => Pending'  BY <1>1, Types, OthersWait, Zenon DEF Callers, TypesOf
<1>6. Recalled' /\ SnapBacked' /\ Refilled'  BY <1>4, <1>5, NothingLoaded
<1>7. TrialKept'  BY DEF Inv, TrialKept
<1> QED  BY <1>4, <1>6, <1>7 DEF Inv

LEMMA PollSkipsInv ==
  ASSUME Inv, PollSkips
  PROVE  Inv'
<1> USE DEF PollSkips
<1>1. TypeOK  BY DEF Inv, Shape
<1>2. PICK at \in {"idle", "want"} : pc' = [pc EXCEPT !["poll"] = at]  BY Zenon
<1>3. pc' \in [Callers -> {"idle", "observe", "release", "want", "in"}]
  BY <1>1, <1>2, Types DEF Callers, TypesOf
<1>4. events' \in 0..MaxEvents  BY <1>1, Types, PoolAssumption DEF TypesOf
<1>5. TypeOK'  BY <1>1, <1>3, <1>4, Types DEF TypesOf
<1>6. Shape'
  <2>1. pc'["poll"] # "observe"  BY <1>1, <1>2, Types DEF Callers, TypesOf
  <2>2. \A c \in Callers : mu' = c => pc'[c] = "in"
    BY <1>1, <1>2, Types DEF Inv, Shape, Callers, TypesOf
  <2> QED  BY <1>5, <2>1, <2>2 DEF Shape
<1>7. Pending => Pending'  BY <1>1, <1>2, Types, OthersWait, Zenon DEF Callers, TypesOf
<1>8. Recalled' /\ SnapBacked' /\ Refilled'  BY <1>6, <1>7, NothingLoaded
<1>9. TrialKept'  BY DEF Inv, TrialKept
<1> QED  BY <1>6, <1>8, <1>9 DEF Inv

\* What a round of observe does to the records, whatever is reported.
LEMMA RoundFollows ==
  ASSUME Inv, PollObserves
  PROVE  /\ nodes' \in [Nodes -> RecType]
         /\ \A n \in Nodes : Follows(nodes[n], nodes'[n])
<1>1. PICK seen \in Reports(poll) : nodes' = Observed(nodes, poll, seen)
  BY DEF PollObserves
<1>2. seen \in [Pools -> [Nodes -> Statuses]]  BY DEF Reports
<1>3. nodes \in [Nodes -> RecType] /\ poll \in [Pools -> SlotType]
  BY Types DEF Inv, Shape, PollObserves, TypesOf
<1> QED  BY <1>1, <1>2, <1>3, ObserveFollows

LEMMA PollObservesInv ==
  ASSUME Inv, PollObserves
  PROVE  Inv'
<1>1. TypeOK  BY DEF Inv, Shape
<1>2. pc' \in [Callers -> {"idle", "observe", "release", "want", "in"}]
  BY <1>1, Types DEF Callers, PollObserves, TypesOf
<1>3. events' \in 0..MaxEvents /\ strategy' \in [Pools -> {"stable", "agile", "manual"}]
  <2>1. events \in 0..MaxEvents /\ strategy \in [Pools -> {"stable", "agile", "manual"}]
    BY <1>1, Types DEF TypesOf
  <2>2. events' \in 0..MaxEvents  BY <2>1, PoolAssumption DEF PollObserves
  <2>3. \/ strategy' = strategy
        \/ \E p \in Pools : strategy' = [strategy EXCEPT ![p] =
                                IF @ = "agile" THEN "stable" ELSE "agile"]
    BY DEF PollObserves
  <2>4. strategy' \in [Pools -> {"stable", "agile", "manual"}]  BY <2>1, <2>3
  <2> QED  BY <2>2, <2>4
<1>4. pinged' \subseteq Nodes  BY <1>1, Types DEF PollObserves, TypesOf
<1>5. TypeOK'  BY <1>1, <1>2, <1>3, <1>4, RoundFollows, Types DEF PollObserves, TypesOf
<1>6. Shape'
  <2>1. pc'["poll"] # "observe"  BY <1>1, Types DEF Callers, PollObserves, TypesOf
  <2>2. \A c \in Callers : mu' = c => pc'[c] = "in"
    BY <1>1, Types DEF Inv, Shape, Callers, PollObserves, TypesOf
  <2> QED  BY <1>5, <2>1, <2>2 DEF Shape
<1>7. Pending => Pending'  BY <1>1, Types, OthersWait, Zenon DEF Callers, PollObserves, TypesOf
<1>8. Recalled' /\ SnapBacked' /\ Refilled'
  <2>1. \A n \in Nodes : nodes'[n].left = No => nodes[n].left = No \/ n \in pinged'
    BY DEF PollObserves
  <2>2. UNCHANGED <<slots, mu, snap, members>> /\ pinged \subseteq pinged'
    BY DEF PollObserves
  <2> QED  BY <1>6, <1>7, <2>1, <2>2, NothingLoaded
<1>9. TrialKept'
  <2> SUFFICES ASSUME NEW n \in Nodes
               PROVE  nodes'[n].dead <= back'[n] \/ back'[n] = nodeTrialWindow
    BY DEF TrialKept
  <2>1. nodes[n].dead <= back[n] \/ back[n] = nodeTrialWindow  BY DEF Inv, TrialKept
  <2>2. nodes'[n].dead \in {No, 0, nodes[n].dead}  BY RoundFollows DEF Follows
  <2>3. back[n] \in 0..nodeTrialWindow /\ back'[n] = back[n]
    BY <1>1, Types DEF PollObserves, TypesOf
  <2> QED  BY <2>1, <2>2, <2>3, Numbers
<1> QED  BY <1>6, <1>8, <1>9 DEF Inv

\* Nodes put back on trial: their records stay well formed, their trials
\* start anew, and a record ends only for a node that was put back.
LEMMA PutBack ==
  ASSUME Inv, NEW due \in SUBSET Nodes,
         nodes' = [n \in Nodes |-> IF n \in due THEN OnTrial(nodes[n]) ELSE nodes[n]],
         back' = [n \in Nodes |-> IF n \in due THEN 0 ELSE back[n]]
  PROVE  /\ nodes' \in [Nodes -> RecType] /\ back' \in [Nodes -> 0..nodeTrialWindow]
         /\ TrialKept'
         /\ \A n \in Nodes : nodes'[n].left = No => nodes[n].left = No \/ n \in due
<1>1. nodes \in [Nodes -> RecType] /\ back \in [Nodes -> 0..nodeTrialWindow]
  BY Types DEF Inv, Shape, TypesOf
<1>2. ASSUME NEW n \in Nodes
      PROVE  /\ nodes'[n] \in RecType /\ back'[n] \in 0..nodeTrialWindow
             /\ nodes'[n].dead <= back'[n] \/ back'[n] = nodeTrialWindow
             /\ nodes'[n].left = No => nodes[n].left = No \/ n \in due
  <2>1. nodes[n] \in RecType /\ back[n] \in 0..nodeTrialWindow  BY <1>1
  <2>2. CASE n \in due
    <3>1. nodes'[n] = OnTrial(nodes[n]) /\ back'[n] = 0  BY <2>2
    <3> QED  BY <2>1, <2>2, <3>1, OnTrialFacts, Numbers
  <2>3. CASE n \notin due
    <3>1. nodes'[n] = nodes[n] /\ back'[n] = back[n]  BY <2>3
    <3>2. nodes[n].dead <= back[n] \/ back[n] = nodeTrialWindow  BY DEF Inv, TrialKept
    <3> QED  BY <2>1, <3>1, <3>2
  <2> QED  BY <2>2, <2>3
<1>3. nodes' \in [Nodes -> RecType] /\ back' \in [Nodes -> 0..nodeTrialWindow]  BY <1>2
<1>4. TrialKept'  BY <1>2 DEF TrialKept
<1> QED  BY <1>2, <1>3, <1>4

LEMMA PollReleasesInv ==
  ASSUME Inv, PollReleases
  PROVE  Inv'
<1> DEFINE due == {n \in Nodes : nodes[n].left = 0}
           at == IF changed \/ due # {} THEN "want" ELSE "idle"
<1>0. /\ pc["poll"] = "release" /\ pc' = [pc EXCEPT !["poll"] = at]
      /\ nodes' = [n \in Nodes |-> IF n \in due THEN OnTrial(nodes[n]) ELSE nodes[n]]
      /\ back' = [n \in Nodes |-> IF n \in due THEN 0 ELSE back[n]]
      /\ UNCHANGED <<members, strategy, slots, poll, mu, snap, events, pinged>>
  BY DEF PollReleases
<1>1. TypeOK  BY DEF Inv, Shape
<1>2. pc \in [Callers -> {"idle", "observe", "release", "want", "in"}]
  BY <1>1, Types DEF TypesOf
<1>3. /\ pc' \in [Callers -> {"idle", "observe", "release", "want", "in"}]
      /\ pc'["poll"] # "observe"
      /\ \A c \in Callers : c # "poll" => pc'[c] = pc[c]
  BY <1>0, <1>2 DEF Callers
<1>4. /\ nodes' \in [Nodes -> RecType] /\ back' \in [Nodes -> 0..nodeTrialWindow]
      /\ TrialKept'
      /\ \A n \in Nodes : nodes'[n].left = No => nodes[n].left = No \/ n \in due
  <2> HIDE DEF due
  <2>1. due \in SUBSET Nodes  BY DEF due
  <2> QED  BY <1>0, <2>1, PutBack
<1>5. TypeOK'  BY <1>0, <1>1, <1>3, <1>4, Types DEF TypesOf
<1>6. Shape'
  <2>1. \A c \in Callers : mu' = c => pc'[c] = "in"
    BY <1>0, <1>3 DEF Inv, Shape
  <2> QED  BY <1>3, <1>5, <2>1 DEF Shape
<1>7. (Pending => Pending') /\ (due # {} => Pending')
  BY <1>0, <1>2, OthersWait, Zenon DEF Callers
<1>8. Recalled' /\ SnapBacked' /\ Refilled'
  BY <1>0, <1>4, <1>6, <1>7, NothingLoaded
<1> QED  BY <1>4, <1>6, <1>8 DEF Inv

LEMMA ReturnParkedInv ==
  ASSUME Inv, ReturnParked
  PROVE  Inv'
<1> DEFINE out == {n \in Nodes : nodes[n].left # No}
           at == IF out # {} THEN "want" ELSE "idle"
<1>0. /\ pc["net"] = "idle" /\ pc' = [pc EXCEPT !["net"] = at]
      /\ nodes' = [n \in Nodes |-> IF n \in out THEN OnTrial(nodes[n]) ELSE nodes[n]]
      /\ back' = [n \in Nodes |-> IF n \in out THEN 0 ELSE back[n]]
      /\ events < MaxEvents /\ events' = events + 1
      /\ UNCHANGED <<members, strategy, slots, poll, mu, snap, pinged>>
  BY DEF ReturnParked
<1>1. TypeOK  BY DEF Inv, Shape
<1>2. pc \in [Callers -> {"idle", "observe", "release", "want", "in"}]
  BY <1>1, Types DEF TypesOf
<1>3. /\ pc' \in [Callers -> {"idle", "observe", "release", "want", "in"}]
      /\ \A c \in Callers : c # "net" => pc'[c] = pc[c]
  BY <1>0, <1>2 DEF Callers
<1>4. /\ nodes' \in [Nodes -> RecType] /\ back' \in [Nodes -> 0..nodeTrialWindow]
      /\ TrialKept'
      /\ \A n \in Nodes : nodes'[n].left = No => nodes[n].left = No \/ n \in out
  <2> HIDE DEF out
  <2>1. out \in SUBSET Nodes  BY DEF out
  <2> QED  BY <1>0, <2>1, PutBack
<1>a. events' \in 0..MaxEvents  BY <1>0, <1>1, Types, PoolAssumption DEF TypesOf
<1>5. TypeOK'  BY <1>0, <1>1, <1>3, <1>4, <1>a, Types DEF TypesOf
<1>6. Shape'
  <2>1. \A c \in Callers : mu' = c => pc'[c] = "in"
    BY <1>0, <1>3 DEF Inv, Shape
  <2>2. pc'["poll"] = "observe" => poll' \in [Pools -> SlotType]
    BY <1>0, <1>3 DEF Inv, Shape, Callers
  <2> QED  BY <1>5, <2>1, <2>2 DEF Shape
<1>7. (Pending => Pending') /\ (out # {} => Pending')
  BY <1>0, <1>2, OthersWait, Zenon DEF Callers
<1>8. Recalled' /\ SnapBacked' /\ Refilled'
  BY <1>0, <1>4, <1>6, <1>7, NothingLoaded
<1> QED  BY <1>4, <1>6, <1>8 DEF Inv

LEMMA UserEditsInv ==
  ASSUME Inv, UserEdits
  PROVE  Inv'
<1>0. /\ pc["user"] = "idle" /\ pc' = [pc EXCEPT !["user"] = "want"]
      /\ events < MaxEvents /\ events' = events + 1
      /\ UNCHANGED <<nodes, slots, poll, mu, snap, back, pinged>>
  BY DEF UserEdits
<1>1. TypeOK  BY DEF Inv, Shape
<1>2. pc \in [Callers -> {"idle", "observe", "release", "want", "in"}]
  BY <1>1, Types DEF TypesOf
<1>3. /\ pc' \in [Callers -> {"idle", "observe", "release", "want", "in"}]
      /\ \A c \in Callers : c # "user" => pc'[c] = pc[c]
  BY <1>0, <1>2 DEF Callers
<1>4. members' \in [Pools -> SUBSET Nodes]
  BY <1>1, Types, PoolAssumption DEF TypesOf, UserEdits
<1>5. strategy' \in [Pools -> {"stable", "agile", "manual"}]
  <2>1. \/ strategy' = strategy
        \/ \E p \in Pools, s \in Strategies : strategy' = [strategy EXCEPT ![p] = s]
    BY DEF UserEdits
  <2>2. strategy \in [Pools -> {"stable", "agile", "manual"}]
    BY <1>1, Types DEF TypesOf
  <2> QED  BY <2>1, <2>2, PoolAssumption
<1>6. events' \in 0..MaxEvents  BY <1>0, <1>1, Types, PoolAssumption DEF TypesOf
<1>7. TypeOK'  BY <1>0, <1>1, <1>3, <1>4, <1>5, <1>6, Types DEF TypesOf
<1>8. Shape'
  <2>1. \A c \in Callers : mu' = c => pc'[c] = "in"
    BY <1>0, <1>3 DEF Inv, Shape
  <2>2. pc'["poll"] = "observe" => poll' \in [Pools -> SlotType]
    BY <1>0, <1>3 DEF Inv, Shape, Callers
  <2> QED  BY <1>7, <2>1, <2>2 DEF Shape
<1>9. Pending'  BY <1>0, <1>2, OthersWait, Zenon DEF Callers
<1>10. Recalled' /\ SnapBacked' /\ Refilled'  BY <1>9 DEF Recalled, SnapBacked, Refilled
<1>11. TrialKept'  BY <1>0 DEF Inv, TrialKept
<1> QED  BY <1>8, <1>10, <1>11 DEF Inv

LEMMA ReconcileReadsInv ==
  ASSUME Inv, NEW c \in Callers, ReconcileReads(c)
  PROVE  Inv'
<1>0. /\ mu' = c /\ snap' = Parked /\ pc' = [pc EXCEPT ![c] = "in"]
      /\ mu = NoOne
      /\ UNCHANGED <<members, strategy, nodes, slots, poll, events, back, pinged>>
  BY DEF ReconcileReads
<1>1. TypeOK  BY DEF Inv, Shape
<1>2. pc \in [Callers -> {"idle", "observe", "release", "want", "in"}]
  BY <1>1, Types DEF TypesOf
<1>3. /\ pc' \in [Callers -> {"idle", "observe", "release", "want", "in"}]
      /\ pc'[c] = "in" /\ \A d \in Callers : d # c => pc'[d] = pc[d]
  BY <1>0, <1>2
<1>4. c # NoOne /\ mu' # NoOne  BY <1>0, NobodyAssumption
<1>5. TypeOK'  BY <1>0, <1>1, <1>3, Types DEF TypesOf, Parked
<1>6. Shape'
  <2>1. pc'["poll"] = "observe" => poll' \in [Pools -> SlotType]
    BY <1>0, <1>3 DEF Inv, Shape, Callers
  <2> QED  BY <1>0, <1>3, <1>5, <2>1 DEF Shape
<1>7. \A n \in snap' : nodes'[n].left # No
  <2>1. \A n \in snap' : nodes'[n].left > 0  BY <1>0 DEF Parked
  <2> QED  BY <2>1, Numbers
<1>8. Recalled' /\ SnapBacked' /\ Refilled'
  BY <1>4, <1>7 DEF Recalled, SnapBacked, Refilled
<1>9. TrialKept'  BY <1>0 DEF Inv, TrialKept
<1> QED  BY <1>6, <1>8, <1>9 DEF Inv

\* What a pool resolves to: not nothing if it has members, and of a stable
\* pool all but nodes that are parked.
LEMMA ResolvedFacts ==
  ASSUME TypeOK, NEW p \in Pools, NEW out \in SUBSET Nodes
  PROVE  LET slot == ResolvedSlot(p, out)
         IN  /\ slot \in SlotType
             /\ members[p] # {} => slot.members # {}
             /\ slot.strategy = "stable" => members[p] \ slot.members \subseteq out
             /\ Effective(p) = "agile" => slot.members = members[p]
<1>1. /\ members[p] \in SUBSET Nodes
      /\ strategy[p] \in {"stable", "agile", "manual"}
  BY Types DEF TypesOf
<1>2. Effective(p) \in {"stable", "agile", "manual"}  BY <1>1 DEF Effective
<1>3. CASE Effective(p) = "manual"
  <2>1. ResolvedSlot(p, out) = [members |-> Pins[p] \cap members[p], strategy |-> "manual"]
    BY <1>3 DEF ResolvedSlot
  <2>2. Pins[p] \cap members[p] # {}  BY <1>3 DEF Effective
  <2> QED  BY <1>1, <1>3, <2>1, <2>2 DEF SlotType
<1>4. CASE Effective(p) = "agile"
  <2>1. ResolvedSlot(p, out) = [members |-> members[p], strategy |-> "agile"]
    BY <1>4 DEF ResolvedSlot
  <2> QED  BY <1>1, <1>4, <2>1 DEF SlotType
<1>5. CASE Effective(p) = "stable"
  <2>1. ResolvedSlot(p, out) = [members |-> withoutParked(members[p], out),
                                strategy |-> "stable"]
    BY <1>5 DEF ResolvedSlot
  <2>2. /\ withoutParked(members[p], out) \subseteq members[p]
        /\ members[p] # {} => withoutParked(members[p], out) # {}
        /\ members[p] \ withoutParked(members[p], out) \subseteq out
    BY DEF withoutParked
  <2> QED  BY <1>1, <1>5, <2>1, <2>2 DEF SlotType
<1> QED  BY <1>2, <1>3, <1>4, <1>5

LEMMA ReconcileLoadsInv ==
  ASSUME Inv, NEW c \in Callers, ReconcileLoads(c)
  PROVE  Inv'
<1>0. /\ mu = c /\ mu' = NoOne /\ snap' = {} /\ pc' = [pc EXCEPT ![c] = "idle"]
      /\ slots' = [p \in Pools |-> ResolvedSlot(p, snap)]
      /\ nodes' = [n \in Nodes |-> IF n \in Dropped(snap) THEN NoRecord ELSE nodes[n]]
      /\ pinged' = {n \in pinged : \A p \in Pools : n \notin slots'[p].members}
      /\ UNCHANGED <<members, strategy, poll, events, back>>
  BY DEF ReconcileLoads
<1>1. TypeOK /\ TypesOf  BY Types DEF Inv, Shape
<1>2. pc \in [Callers -> {"idle", "observe", "release", "want", "in"}] /\ snap \in SUBSET Nodes
  BY <1>1 DEF TypesOf
<1>3. /\ pc' \in [Callers -> {"idle", "observe", "release", "want", "in"}]
      /\ pc'[c] = "idle" /\ \A d \in Callers : d # c => pc'[d] = pc[d]
  BY <1>0, <1>2
<1>4. pc[c] = "in" /\ mu # NoOne  BY <1>0, NobodyAssumption DEF Inv, Shape
<1>5. Pending => Pending'  BY <1>3, <1>4 DEF Pending
<1>6. slots' \in [Pools -> SlotType]  BY <1>0, <1>1, <1>2, ResolvedFacts
<1>7. nodes' \in [Nodes -> RecType]  BY <1>0, <1>1, NoRecordFacts DEF TypesOf
<1>8. pinged' \subseteq Nodes  BY <1>0, <1>1 DEF TypesOf
<1>9. TypeOK'  BY <1>0, <1>1, <1>3, <1>6, <1>7, <1>8, Types DEF TypesOf
<1>10. Shape'
  <2>1. pc'["poll"] = "observe" => poll' \in [Pools -> SlotType]
    BY <1>0, <1>3 DEF Inv, Shape, Callers
  <2>2. \A d \in Callers : mu' # d  BY <1>0, NobodyAssumption
  <2> QED  BY <1>9, <2>1, <2>2 DEF Shape
<1>11. Recalled'
  <2> SUFFICES ASSUME NEW n \in Nodes, OutOfUse(n)', n \notin pinged', nodes'[n].left = No
               PROVE  Pending'
    BY DEF Recalled
  <2>1. PICK p \in Pools : /\ slots'[p].strategy = "stable"
                           /\ n \in members[p] \ slots'[p].members
    BY <1>0 DEF OutOfUse, LeftOut
  <2>2. \A q \in Pools : n \notin slots'[q].members  BY DEF OutOfUse, LoadedNowhere
  <2>3. n \in snap  BY <1>0, <1>1, <1>2, <2>1, ResolvedFacts
  <2>4. n \notin TakenBack(snap)
    <3> SUFFICES ASSUME NEW q \in Pools, Effective(q) = "agile", n \in members[q]
                 PROVE  FALSE
      BY DEF TakenBack
    <3>1. slots'[q].members = members[q]  BY <1>0, <1>1, <1>2, ResolvedFacts
    <3> QED  BY <2>2, <3>1
  <2>5. n \notin Dropped(snap)  BY <2>1, <2>4 DEF Dropped
  <2>6. nodes[n].left = No  BY <1>0, <2>5
  <2>7. n \notin pinged  BY <1>0, <2>2
  <2> QED  BY <1>4, <1>5, <2>3, <2>6, <2>7 DEF Inv, SnapBacked
<1>12. SnapBacked'  BY <1>0 DEF SnapBacked
<1>13. Refilled'
  <2>1. \A p \in Pools : members'[p] # {} => slots'[p].members # {}
    BY <1>0, <1>1, <1>2, ResolvedFacts
  <2> QED  BY <2>1 DEF Refilled
<1>14. TrialKept'
  <2> SUFFICES ASSUME NEW n \in Nodes
               PROVE  nodes'[n].dead <= back'[n] \/ back'[n] = nodeTrialWindow
    BY DEF TrialKept
  <2>1. nodes[n].dead <= back[n] \/ back[n] = nodeTrialWindow  BY DEF Inv, TrialKept
  <2>2. back'[n] = back[n] /\ back[n] \in 0..nodeTrialWindow  BY <1>0, <1>1 DEF TypesOf
  <2>3. nodes'[n] \in {NoRecord, nodes[n]}  BY <1>0
  <2> QED  BY <2>1, <2>2, <2>3, NoRecordFacts, Numbers
<1> QED  BY <1>10, <1>11, <1>12, <1>13, <1>14 DEF Inv

LEMMA NextInv == Inv /\ [Next]_vars => Inv'
<1> SUFFICES ASSUME Inv, [Next]_vars PROVE Inv'  OBVIOUS
<1>1. CASE Tick  BY <1>1, TickInv
<1>2. CASE PollReads  BY <1>2, PollReadsInv
<1>3. CASE PollSkips  BY <1>3, PollSkipsInv
<1>4. CASE PollObserves  BY <1>4, PollObservesInv
<1>5. CASE PollReleases  BY <1>5, PollReleasesInv
<1>6. CASE ReturnParked  BY <1>6, ReturnParkedInv
<1>7. CASE UserEdits  BY <1>7, UserEditsInv
<1>8. CASE Reconciles  BY <1>8, ReconcileReadsInv, ReconcileLoadsInv DEF Reconciles
<1>9. CASE UNCHANGED vars
  BY <1>9 DEF vars, Inv, Shape, TypeOK, Recalled, SnapBacked, Refilled, TrialKept,
              Pending, OutOfUse, LoadedNowhere, LeftOut
<1> QED  BY <1>1, <1>2, <1>3, <1>4, <1>5, <1>6, <1>7, <1>8, <1>9 DEF Next

-----------------------------------------------------------------------------
\* Parking loses no node and empties no pool (withoutParked, forget, retain,
\* release and releaseAll of xray_nodepark.go), for any nodes, pools and
\* memberships and however the poll, network changes and users interleave.
THEOREM Survive == Spec => []PoolsSurvive
<1>1. Inv => PoolsSurvive
  <2> SUFFICES ASSUME Inv PROVE PoolsSurvive  OBVIOUS
  <2>1. TypeOK  BY DEF Inv, Shape
  <2>2. Quiet => ~Pending /\ mu = NoOne  BY DEF Quiet, Pending
  <2>3. OnlyPingsLose  BY <2>2 DEF OnlyPingsLose, Inv, Recalled
  <2>4. NeverEmptied  BY <2>2 DEF NeverEmptied, Inv, Refilled
  <2> QED  BY <2>1, <2>3, <2>4 DEF PoolsSurvive
<1> QED  BY <1>1, InitInv, NextInv, PTL DEF Spec

\* A node that was put back is parked again only after a whole trial window
\* (observe with trial set), for any thresholds and any number of pools.
THEOREM Trial == Spec => WholeTrial
<1> DEFINE Parks == \A n \in Nodes : (nodes[n].left = No /\ nodes'[n].left # No)
                                        => back[n] = nodeTrialWindow
<1>1. Inv /\ [Next]_vars => [Parks]_vars
  <2> SUFFICES ASSUME Inv, Next, NEW n \in Nodes,
                      nodes[n].left = No, nodes'[n].left # No
               PROVE  back[n] = nodeTrialWindow
    OBVIOUS
  <2>1. nodes[n] \in RecType /\ back[n] \in 0..nodeTrialWindow
    BY Types DEF Inv, Shape, TypesOf
  <2>2. OnTrial(nodes[n]).left = No /\ NoRecord.left = No
    BY <2>1, OnTrialFacts, NoRecordFacts
  <2>3. PollObserves
    <3>1. CASE Tick
      <4>1. nodes'[n].left = No
        <5>1. nodes'[n] = [nodes[n] EXCEPT
                 !.dead = IF @ = No THEN No ELSE Least(@ + 1, nodeDeadBeforePark),
                 !.left = IF @ > 0 THEN @ - 1 ELSE @]
          BY <3>1, Zenon DEF Tick
        <5>2. nodes'[n].left = IF nodes[n].left > 0 THEN nodes[n].left - 1 ELSE nodes[n].left
          BY <2>1, <5>1 DEF RecType
        <5> QED  BY <5>2, Numbers
      <4> QED  BY <4>1
    <3>2. CASE PollReads \/ PollSkips \/ UserEdits
      BY <3>2 DEF PollReads, PollSkips, UserEdits
    <3>3. CASE PollReleases \/ ReturnParked
      <4>1. \E due : nodes' = [m \in Nodes |-> IF m \in due THEN OnTrial(nodes[m]) ELSE nodes[m]]
        BY <3>3 DEF PollReleases, ReturnParked
      <4>2. nodes'[n] \in {OnTrial(nodes[n]), nodes[n]}  BY <4>1
      <4> QED  BY <2>2, <4>2
    <3>4. CASE Reconciles  BY <2>2, <3>4 DEF Reconciles, ReconcileReads, ReconcileLoads
    <3> QED  BY <3>1, <3>2, <3>3, <3>4 DEF Next
  <2>4. nodes[n].dead >= nodeTrialWindow  BY <2>3, RoundFollows DEF Follows
  <2>5. nodes[n].dead <= back[n] \/ back[n] = nodeTrialWindow  BY DEF Inv, TrialKept
  <2> QED  BY <2>1, <2>4, <2>5, RecFacts, Numbers
<1> QED  BY <1>1, InitInv, NextInv, PTL DEF Spec, WholeTrial
=============================================================================
