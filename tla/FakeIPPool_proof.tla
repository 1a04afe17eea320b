-------------------------- MODULE FakeIPPool_proof --------------------------
(* What concurrent DNS handlers, a failing store and crashes cannot break   *)
(* in the fake-IP pool, for any number of handlers, hosts and addresses,    *)
(* and what the table says of the pool when one handler serves over a store *)
(* that does not fail.                                                      *)
EXTENDS FakeIPPool, WellFoundedInduction, TLAPS

(* A handler about to install the route has an answer, one that is queueing *)
(* has something to queue, and only a woken writer flushes.                 *)
Handling ==
  /\ \A t \in Handlers : pc[t] = "route" => query[t] \in Answer
  /\ \A t \in Handlers : pc[t] \in {"queue", "kick"} => todo[t] # << >>
  /\ flusher = "writer" => writer = "woken"

(* The inductive invariant.                                                 *)
Inv == TypeOK /\ Handling /\ LeaseMapsAgree /\ OneHostPerAddress /\ NoLostWakeup

(* None and Delete are none of the things they stand beside.                *)
LEMMA Distinct ==
  /\ None \notin Slots /\ None \notin Lease /\ None \notin Row
  /\ Delete \notin Row /\ Delete # None /\ NoAnswer \notin Answer
  BY AbsentAssumption DEF NoAnswer, Answer

(* The block has at least one slot, and time only counts up.                *)
LEMMA Arithmetic ==
  /\ Size \in Nat /\ Size >= 2 /\ TTL \in Nat /\ TTL >= 1
  /\ \A s \in Slots : s \in Addresses /\ (s + 1) % Size \in 0 .. Size - 1
  BY BlockAssumption, TTLAssumption DEF Slots, Addresses

(* What is not yet over lies ahead, and the other way round.                *)
LEMMA Ahead ==
  ASSUME NEW x \in Nat, NEW y \in Nat
  PROVE  x > y <=> ~ (x <= y)
  BY SMT

(* A set of numbers has a least element, ...                                *)
LEMMA LeastExists ==
  ASSUME NEW T \in SUBSET Nat, T # {}
  PROVE  \E x \in T : \A y \in T : x <= y
<1> DEFINE Less == {ss \in Nat \X Nat : ss[1] < ss[2]}
<1>1. IsWellFoundedOn(Less, Nat)
  BY NatLessThanWellFounded, Zenon DEF OpToRel
<1>2. \E x \in T : \A y \in T : ~ (<<y, x>> \in Less)
  BY <1>1, WFMin, Zenon
<1>3. PICK x \in T : \A y \in T : ~ (<<y, x>> \in Less)
  BY <1>2
<1>4. \A y \in T : x <= y
  <2> SUFFICES ASSUME NEW y \in T PROVE x <= y
    OBVIOUS
  <2>1. ~ (<<y, x>> \in Less)
    BY <1>3
  <2>2. x \in Nat /\ y \in Nat
    OBVIOUS
  <2>3. <<y, x>> \in Nat \X Nat /\ <<y, x>>[1] = y /\ <<y, x>>[2] = x
    BY <2>2
  <2>4. ~ (y < x)
    BY <2>1, <2>3, Zenon
  <2> QED BY <2>2, <2>4
<1> QED BY <1>4

(* ... and a bounded one a greatest: the cursor of a restored pool exists.   *)
LEMMA MaxExists ==
  ASSUME NEW n \in Nat, NEW T \in SUBSET (0 .. n), T # {}
  PROVE  \E x \in T : \A y \in T : y <= x
<1> DEFINE D == {k \in Nat : n - k \in T}
<1>1. D # {}
  <2>1. PICK t \in T : TRUE
    BY Zenon
  <2>2. t \in 0 .. n /\ n - t \in Nat /\ n - (n - t) = t
    OBVIOUS
  <2>3. n - t \in D
   BY <2>1, <2>2
  <2> QED BY <2>3, Zenon
<1>2. PICK k \in D : \A j \in D : k <= j
  BY <1>1, LeastExists, Zenon
<1>3. \A y \in T : y <= n - k
  <2> SUFFICES ASSUME NEW y \in T PROVE y <= n - k
    OBVIOUS
  <2>1. y \in 0 .. n /\ n - y \in Nat /\ n - (n - y) = y
    OBVIOUS
  <2>2. n - y \in D
    BY <2>1
  <2>3. k <= n - y
    BY <1>2, <2>2
  <2> QED BY <2>1, <2>3
<1>4. n - k \in T
  OBVIOUS
<1> QED BY <1>3, <1>4

(* The initial state satisfies the invariant: at most one foreign row.      *)
LEMMA InitInv == Init => Inv
<1> SUFFICES ASSUME Init PROVE Inv
  OBVIOUS
<1>1. db \in [Hosts -> Row \cup {None}] /\ OneHostPerAddress
  <2>1. CASE db = Nothing
    BY <2>1 DEF Nothing, OneHostPerAddress
  <2>2. CASE \E h \in Hosts, a \in Addresses \ Slots :
               db = [Nothing EXCEPT ![h] = [ip |-> a, expiresAt |-> TTL]]
    BY <2>2, Arithmetic DEF Nothing, Row, OneHostPerAddress
  <2> QED BY <2>1, <2>2 DEF Init, ForeignTables
<1>2. TypeOK
  <2>1. << >> \in Seq(Write) /\ 0 \in 0 .. Size - 1
    BY Arithmetic
  <2> QED BY <1>1, <2>1, Zenon DEF Init, TypeOK, Nothing
<1>3. Handling /\ LeaseMapsAgree /\ NoLostWakeup
  BY <1>1 DEF Init, Handling, LeaseMapsAgree, NoLostWakeup, Nothing
<1> QED BY <1>1, <1>2, <1>3 DEF Inv

-----------------------------------------------------------------------------
(* A start restores maps that agree: the table has one host per address.    *)
LEMMA StartInv ==
  ASSUME Inv, Start
  PROVE  Inv'
<1> USE DEF Inv
<1>1. \A s \in Slots : \A g, h \in Restorable : db[g].ip = s /\ db[h].ip = s => g = h
  BY Distinct DEF Restorable, OneHostPerAddress
<1>2. \A h \in Restorable : db[h] \in Row /\ db[h].ip \in Slots /\ h \in Hosts
  BY DEF Restorable, TypeOK
<1>3. \A s \in Slots : RestoredLease(s) \in Lease \cup {None}
  <2> SUFFICES ASSUME NEW s \in Slots PROVE RestoredLease(s) \in Lease \cup {None}
    OBVIOUS
  <2> DEFINE owners == {h \in Restorable : db[h].ip = s}
  <2>1. CASE owners = {}
    BY <2>1 DEF RestoredLease
  <2>2. CASE owners # {}
    <3>1. PICK h \in owners : h = CHOOSE g \in owners : TRUE
      BY <2>2
    <3>2. RestoredLease(s) = [host |-> h, expiry |-> db[h].expiresAt, stored |-> db[h].expiresAt]
      BY <2>2, <3>1 DEF RestoredLease
    <3> QED BY <1>2, <3>1, <3>2 DEF Lease, Row
  <2> QED BY <2>1, <2>2
<1>4. \A h \in Restorable : RestoredLease(db[h].ip) # None /\ RestoredLease(db[h].ip).host = h
  <2> SUFFICES ASSUME NEW h \in Restorable
               PROVE  RestoredLease(db[h].ip) # None /\ RestoredLease(db[h].ip).host = h
    OBVIOUS
  <2> DEFINE owners == {g \in Restorable : db[g].ip = db[h].ip}
  <2>1. owners = {h}
    BY <1>1, <1>2
  <2>2. RestoredLease(db[h].ip) = [host |-> h, expiry |-> db[h].expiresAt, stored |-> db[h].expiresAt]
    BY <2>1 DEF RestoredLease
  <2>3. RestoredLease(db[h].ip) \in Lease
    BY <1>2, <2>2 DEF Lease, Row
  <2> QED BY <2>2, <2>3, Distinct
<1>5. \A s \in Slots : RestoredLease(s) # None =>
        /\ RestoredLease(s).host \in Restorable
        /\ db[RestoredLease(s).host].ip = s
  BY DEF RestoredLease
<1>6. db' \in [Hosts -> Row \cup {None}] /\ OneHostPerAddress'
  BY DEF Start, DropExpired, TypeOK, OneHostPerAddress
<1>7. CursorAfter({db[h].ip : h \in Restorable}) \in 0 .. Size - 1
  <2> DEFINE O == {db[h].ip : h \in Restorable} \cup {0}
             m == CHOOSE x \in O : \A o \in O : o <= x
  <2>1. O \in SUBSET (0 .. Size - 1) /\ O # {} /\ Size - 1 \in Nat
    BY <1>2, Arithmetic DEF Slots
  <2>2. \E x \in O : \A o \in O : o <= x
    BY <2>1, MaxExists, Zenon
  <2>3. m \in O
    BY <2>2
  <2>4. CursorAfter({db[h].ip : h \in Restorable}) = (1 + m) % Size
    BY DEF CursorAfter
  <2> HIDE DEF m, O
  <2>5. m \in Nat
    BY <2>1, <2>3
  <2> QED BY <2>4, <2>5, Arithmetic
<1>8. CASE byHost' = Nothing /\ byIP' = [s \in Slots |-> None] /\ cursor' = 0
  <2> QED BY <1>6, <1>8, Arithmetic DEF Start, TypeOK, Handling, LeaseMapsAgree, NoLostWakeup, Nothing, handler
<1>9. CASE /\ byHost' = [h \in Hosts |-> IF h \in Restorable THEN db[h].ip ELSE None]
           /\ byIP' = [s \in Slots |-> RestoredLease(s)]
           /\ cursor' = CursorAfter({db[h].ip : h \in Restorable})
  <2>1. TypeOK'
    BY <1>2, <1>3, <1>6, <1>7, <1>9 DEF Start, TypeOK, handler
  <2>2. LeaseMapsAgree'
    BY <1>2, <1>4, <1>5, <1>9, Distinct DEF LeaseMapsAgree
  <2>3. Handling' /\ NoLostWakeup'
    BY DEF Start, Handling, NoLostWakeup, handler
  <2> QED BY <1>6, <2>1, <2>2, <2>3
<1> QED BY <1>8, <1>9 DEF Start

(* Handing a handler its answer and its queue calls.                        *)
LEMMA BeginTypes ==
  ASSUME Inv, NEW t \in Handlers, NEW h \in Hosts, NEW s \in Slots,
         NEW writes \in Seq(Write), Begin(t, h, s, writes),
         UNCHANGED <<kick, writer, flusher, pending>>, pc[t] = "idle"
  PROVE  /\ pc' \in [Handlers -> {"idle", "queue", "kick", "route"}]
         /\ query' \in [Handlers -> Answer \cup {NoAnswer}]
         /\ todo' \in [Handlers -> Seq(Write)]
         /\ Handling' /\ NoLostWakeup'
<1> USE DEF Inv
<1>1. [host |-> h, ip |-> s] \in Answer
  BY DEF Answer
<1>2. pc'[t] \in {"route", "queue"} /\ (pc'[t] = "queue" => writes # << >>)
      /\ pc' = [pc EXCEPT ![t] = pc'[t]]
  BY DEF Begin, TypeOK
<1>3. /\ pc' \in [Handlers -> {"idle", "queue", "kick", "route"}]
      /\ query' \in [Handlers -> Answer \cup {NoAnswer}]
      /\ todo' \in [Handlers -> Seq(Write)]
  BY <1>1, <1>2 DEF Begin, TypeOK
<1>4. Handling'
  BY <1>1, <1>2 DEF Begin, TypeOK, Handling
<1>5. NoLostWakeup'
  BY <1>2 DEF NoLostWakeup, TypeOK
<1> QED BY <1>3, <1>4, <1>5

(* What allocate queues is a list of writes.                                *)
LEMMA WritesTyped ==
  ASSUME TypeOK, NEW h \in Hosts, NEW s \in Slots
  PROVE  /\ <<Put(h, s)>> \in Seq(Write)
         /\ \A g \in Hosts : <<Drop(g)>> \in Seq(Write) /\ <<Drop(g), Put(h, s)>> \in Seq(Write)
<1>1. Put(h, s) \in Write
  BY Arithmetic DEF TypeOK, Put, Write, Row
<1>2. \A g \in Hosts : Drop(g) \in Write
  BY DEF Drop, Write
<1> QED BY <1>1, <1>2

(* A refresh moves expiries only.                                           *)
LEMMA RefreshInv ==
  ASSUME Inv, NEW t \in Handlers, NEW h \in Hosts, Refresh(t, h)
  PROVE  Inv' /\ \A s \in Slots : byIP[s] # None => byIP'[s] # None /\ byIP'[s].host = byIP[s].host
<1> USE DEF Inv
<1> DEFINE s == byHost[h]
           l == [byIP[s] EXCEPT !.expiry = now + TTL,
                                !.stored = IF WorthWriting(s) THEN now + TTL ELSE @]
<1>1. s \in Slots /\ byIP[s] \in Lease
  BY DEF Refresh, TypeOK, LeaseMapsAgree
<1>2. byIP' = [byIP EXCEPT ![s] = l]
  BY <1>1, Zenon DEF Refresh, TypeOK
<1>3. l \in Lease /\ l.host = byIP[s].host
  <2> DEFINE e == IF WorthWriting(s) THEN now + TTL ELSE byIP[s].stored
  <2>1. now + TTL \in Nat /\ e \in Nat
    BY <1>1, Arithmetic DEF Lease, TypeOK
  <2>2. l = [byIP[s] EXCEPT !.expiry = now + TTL, !.stored = e]
    BY <1>1 DEF Lease
  <2> HIDE DEF e
  <2> QED BY <1>1, <2>1, <2>2, Zenon DEF Lease
<1>4. PICK writes \in Seq(Write) : Begin(t, h, s, writes)
  <2>1. << >> \in Seq(Write) /\ <<Put(h, s)>> \in Seq(Write)
    BY <1>1, WritesTyped
  <2> QED BY <2>1, Zenon DEF Refresh
<1>5. UNCHANGED <<now, restarts, proc, byHost, cursor, pending, batch, kick, writer, flusher, db>>
  BY DEF Refresh, store
<1> HIDE DEF l
<1>6. byIP' \in [Slots -> Lease \cup {None}] /\ byIP'[s] # None /\ byIP'[s].host = byIP[s].host
      /\ \A r \in Slots \ {s} : byIP'[r] = byIP[r]
  BY <1>1, <1>2, <1>3, Distinct DEF TypeOK
<1> HIDE DEF s
<1>7. TypeOK' /\ Handling' /\ NoLostWakeup'
  BY <1>1, <1>4, <1>5, <1>6, BeginTypes, Zenon DEF TypeOK, Refresh
<1>8. LeaseMapsAgree' /\ OneHostPerAddress'
  <2>1. \A r \in Slots : (byIP'[r] # None <=> byIP[r] # None)
                         /\ (byIP[r] # None => byIP'[r].host = byIP[r].host)
    BY <1>1, <1>6, Distinct
  <2>2. \A g \in Hosts : byHost[g] # None => byHost[g] \in Slots
    BY DEF TypeOK
  <2> QED BY <1>5, <2>1, <2>2 DEF LeaseMapsAgree, OneHostPerAddress
<1> QED BY <1>1, <1>6, <1>7, <1>8

(* An allocation takes a slot nobody holds, or whose lease has run out, and *)
(* takes it away from the old holder in both maps.                          *)
LEMMA AllocateInv ==
  ASSUME Inv, NEW t \in Handlers, NEW h \in Hosts, Allocate(t, h)
  PROVE  Inv' /\ \A s \in Slots : Live(s) => byIP'[s] = byIP[s]
<1> USE DEF Inv
<1>1. PICK i \in 0 .. Size - 1 : ScanStops(i) /\
        LET s == ScanOffset(i) IN
            /\ byHost' = [Evict(s) EXCEPT ![h] = s]
            /\ byIP' = [byIP EXCEPT ![s] =
                 [host |-> h, expiry |-> now + TTL, stored |-> now + TTL]]
            /\ cursor' = (s + 1) % Size
            /\ Begin(t, h, s, IF byIP[s] = None THEN <<Put(h, s)>>
                              ELSE <<Drop(byIP[s].host), Put(h, s)>>)
  BY Zenon DEF Allocate
<1> DEFINE s == ScanOffset(i)
           l == [host |-> h, expiry |-> now + TTL, stored |-> now + TTL]
<1>2. s \in Slots /\ ~ Live(s)
  BY <1>1 DEF ScanStops, Reusable
<1>3. l \in Lease /\ l.host = h
  BY Arithmetic DEF Lease, TypeOK
<1>4. byIP[s] # None => byIP[s].host \in Hosts
  BY <1>2 DEF TypeOK, Lease
<1>5. PICK writes \in Seq(Write) : Begin(t, h, s, writes)
  BY <1>1, <1>2, <1>4, WritesTyped, Zenon
<1>6. byHost[h] = None /\ pc[t] = "idle"
      /\ UNCHANGED <<now, restarts, proc, pending, batch, kick, writer, flusher, db>>
  BY DEF Allocate, store
<1>7. byHost' = [Evict(s) EXCEPT ![h] = s] /\ byIP' = [byIP EXCEPT ![s] = l] /\ cursor' = (s + 1) % Size
  BY <1>1
<1> HIDE DEF l, s
<1>8. byIP' \in [Slots -> Lease \cup {None}] /\ byIP'[s] = l
      /\ \A r \in Slots \ {s} : byIP'[r] = byIP[r]
  BY <1>2, <1>3, <1>7 DEF TypeOK
<1>9. byHost' \in [Hosts -> Slots \cup {None}] /\ byHost'[h] = s
      /\ \A g \in Hosts \ {h} :
           byHost'[g] = IF byIP[s] # None /\ byIP[s].host = g THEN None ELSE byHost[g]
  BY <1>2, <1>4, <1>7 DEF TypeOK, Evict
<1>10. TypeOK' /\ Handling' /\ NoLostWakeup'
  BY <1>2, <1>5, <1>6, <1>7, <1>8, <1>9, BeginTypes, Arithmetic DEF TypeOK
<1>11. \A g \in Hosts : byHost'[g] # None => byIP'[byHost'[g]] # None /\ byIP'[byHost'[g]].host = g
  <2> SUFFICES ASSUME NEW g \in Hosts, byHost'[g] # None
               PROVE  byIP'[byHost'[g]] # None /\ byIP'[byHost'[g]].host = g
    OBVIOUS
  <2>1. CASE g = h
    BY <1>3, <1>8, <1>9, <2>1, Distinct
  <2>2. CASE g # h
    <3>1. byHost'[g] = byHost[g] /\ byHost[g] \in Slots
      BY <1>9, <2>2 DEF TypeOK
    <3>2. byIP[byHost[g]] # None /\ byIP[byHost[g]].host = g
      BY <3>1, Distinct DEF LeaseMapsAgree
    <3>3. byHost[g] # s
      BY <1>9, <2>2, <3>1, <3>2, Distinct
    <3> QED BY <1>8, <3>1, <3>2, <3>3
  <2> QED BY <2>1, <2>2
<1>12. \A r \in Slots : byIP'[r] # None => byHost'[byIP'[r].host] = r
  <2> SUFFICES ASSUME NEW r \in Slots, byIP'[r] # None
               PROVE  byHost'[byIP'[r].host] = r
    OBVIOUS
  <2>1. CASE r = s
    BY <1>3, <1>8, <1>9, <2>1
  <2>2. CASE r # s
    <3>1. byIP'[r] = byIP[r] /\ byIP[r] # None
      BY <1>8, <2>2
    <3>2. byIP[r].host \in Hosts /\ byHost[byIP[r].host] = r
      BY <3>1 DEF LeaseMapsAgree, TypeOK, Lease
    <3>3. byIP[r].host # h
      BY <1>6, <3>2, Distinct
    <3>4. byIP[s] # None => byIP[s].host # byIP[r].host
      BY <1>2, <2>2, <3>2 DEF LeaseMapsAgree
    <3> QED BY <1>9, <3>1, <3>2, <3>3, <3>4
  <2> QED BY <2>1, <2>2
<1>13. OneHostPerAddress'
  BY <1>6 DEF OneHostPerAddress
<1> QED BY <1>2, <1>8, <1>10, <1>11, <1>12, <1>13 DEF LeaseMapsAgree

(* queue and the wake-up, the end of a query, and a release.                *)
LEMMA HandlerInv ==
  ASSUME Inv, NEW t \in Handlers, Queue(t) \/ Kick(t) \/ Deliver(t) \/ Release(t)
  PROVE  Inv' /\ \A s \in Slots : byIP'[s] = byIP[s] \/ byIP'[s] = None
<1> USE DEF Inv
<1>1. CASE Queue(t)
  <2>1. todo[t] \in Seq(Write) /\ todo[t] # << >> /\ Head(todo[t]) \in Write
    <3>1. todo[t] \in Seq(Write) /\ todo[t] # << >>
      BY <1>1 DEF Queue, Handling, TypeOK
    <3> QED BY <3>1
  <2>2. pending' \in [Hosts -> Row \cup {None, Delete}]
    BY <1>1, <2>1 DEF Queue, TypeOK, Write
  <2>3. TypeOK'
    BY <1>1, <2>2 DEF Queue, TypeOK, memory
  <2>4. Handling' /\ NoLostWakeup'
    BY <1>1, <2>1 DEF Queue, Handling, NoLostWakeup, TypeOK
  <2>5. LeaseMapsAgree' /\ OneHostPerAddress' /\ byIP' = byIP
    BY <1>1 DEF Queue, memory, LeaseMapsAgree, OneHostPerAddress
  <2> QED BY <2>3, <2>4, <2>5
<1>2. CASE Kick(t)
  <2>1. todo[t] \in Seq(Write) /\ todo[t] # << >>
    BY <1>2 DEF Kick, Handling, TypeOK
  <2>2. Tail(todo[t]) \in Seq(Write) /\ (Len(todo[t]) > 1 => Tail(todo[t]) # << >>)
    <3> DEFINE rest == Tail(todo[t])
    <3>1. rest \in Seq(Write) /\ Len(rest) = Len(todo[t]) - 1 /\ Len(todo[t]) \in Nat
      BY <2>1
    <3>2. Len(todo[t]) > 1 => rest # << >>
      <4> HIDE DEF rest
      <4> QED BY <3>1
    <3> QED BY <3>1, <3>2
  <2>3. query[t] # NoAnswer => query[t] \in Answer
    BY DEF TypeOK
  <2>4. AfterQueue(t) \in {"queue", "idle", "route"} /\ (AfterQueue(t) = "queue" => Len(todo[t]) > 1)
        /\ (AfterQueue(t) = "route" => query[t] # NoAnswer)
    BY DEF AfterQueue
  <2>5. TypeOK'
    BY <1>2, <2>2, <2>4 DEF Kick, TypeOK, memory
  <2>6. Handling' /\ NoLostWakeup'
    BY <1>2, <2>2, <2>3, <2>4 DEF Kick, Handling, NoLostWakeup, TypeOK
  <2>7. LeaseMapsAgree' /\ OneHostPerAddress' /\ byIP' = byIP
    BY <1>2 DEF Kick, memory, LeaseMapsAgree, OneHostPerAddress
  <2> QED BY <2>5, <2>6, <2>7
<1>3. CASE Deliver(t)
  <2>1. TypeOK'
    BY <1>3 DEF Deliver, TypeOK, memory, store
  <2>2. Handling' /\ NoLostWakeup'
    BY <1>3 DEF Deliver, Handling, NoLostWakeup, TypeOK, store
  <2>3. LeaseMapsAgree' /\ OneHostPerAddress' /\ byIP' = byIP
    BY <1>3, Zenon DEF Deliver, memory, store, LeaseMapsAgree, OneHostPerAddress
  <2> QED BY <2>1, <2>2, <2>3
<1>4. CASE Release(t)
  <2> DEFINE h == query[t].host
  <2>1. h \in Hosts
    BY <1>4 DEF Release, Handling, Answer
  <2>2. UNCHANGED <<now, restarts, proc, cursor, pending, batch, kick, writer, flusher, db>>
        /\ query' = [query EXCEPT ![t] = NoAnswer] /\ pc[t] = "route"
    BY <1>4 DEF Release, store
  <2>3. CASE byHost[h] = None
    <3>1. pc' = [pc EXCEPT ![t] = "idle"] /\ UNCHANGED <<byHost, byIP, todo>>
      BY <1>4, <2>3 DEF Release
    <3>2. TypeOK' /\ Handling'
      BY <2>2, <3>1 DEF TypeOK, Handling
    <3>3. NoLostWakeup' /\ LeaseMapsAgree' /\ OneHostPerAddress'
      BY <2>2, <3>1 DEF NoLostWakeup, LeaseMapsAgree, OneHostPerAddress, TypeOK
    <3> QED BY <3>1, <3>2, <3>3
  <2>4. CASE byHost[h] # None
    <3> DEFINE s == byHost[h]
    <3>1. s \in Slots /\ byIP[s] # None /\ byIP[s].host = h
      BY <2>1, <2>4 DEF TypeOK, LeaseMapsAgree
    <3>2. /\ byHost' = [byHost EXCEPT ![h] = None] /\ byIP' = [byIP EXCEPT ![s] = None]
          /\ todo' = [todo EXCEPT ![t] = <<Drop(h)>>] /\ pc' = [pc EXCEPT ![t] = "queue"]
      BY <1>4, <2>4 DEF Release
    <3>3. <<Drop(h)>> \in Seq(Write) /\ <<Drop(h)>> # << >>
      BY <2>1, <3>1, WritesTyped
    <3> HIDE DEF s, h
    <3>4. TypeOK'
      BY <2>1, <2>2, <3>1, <3>2, <3>3 DEF TypeOK
    <3>5. Handling' /\ NoLostWakeup' /\ OneHostPerAddress'
      BY <2>2, <3>2, <3>3 DEF Handling, NoLostWakeup, OneHostPerAddress, TypeOK
    <3>6. \A g \in Hosts : byHost'[g] # None =>
            byIP'[byHost'[g]] # None /\ byIP'[byHost'[g]].host = g
      BY <2>1, <3>1, <3>2 DEF LeaseMapsAgree, TypeOK
    <3>7. \A r \in Slots : byIP'[r] # None => byHost'[byIP'[r].host] = r
      <4> SUFFICES ASSUME NEW r \in Slots, byIP'[r] # None PROVE byHost'[byIP'[r].host] = r
        OBVIOUS
      <4>1. r # s /\ byIP'[r] = byIP[r]
        BY <3>1, <3>2 DEF TypeOK
      <4>2. byIP[r].host \in Hosts /\ byHost[byIP[r].host] = r
        <5>1. byIP[r] \in Lease
          BY <4>1 DEF TypeOK
        <5> QED BY <4>1, <5>1 DEF Lease, LeaseMapsAgree
      <4>3. byIP[r].host # h
        BY <3>1, <4>1, <4>2 DEF s, LeaseMapsAgree
      <4> QED BY <2>1, <3>2, <4>1, <4>2, <4>3 DEF TypeOK
    <3>8. \A r \in Slots : byIP'[r] = byIP[r] \/ byIP'[r] = None
      BY <3>1, <3>2 DEF TypeOK
    <3> QED BY <3>4, <3>5, <3>6, <3>7, <3>8 DEF LeaseMapsAgree
  <2> QED BY <2>3, <2>4
<1> QED BY <1>1, <1>2, <1>3, <1>4

(* The writer and its flushes: the table never gets two rows of one address.*)
LEMMA WriterInv ==
  ASSUME Inv,
         \/ WriterWake \/ WriterDone \/ \E f \in {"writer", "shutdown"} : Steal(f)
         \/ \E h \in Hosts : FlushDelete(h) \/ FlushPut(h)
  PROVE  Inv' /\ UNCHANGED <<byHost, byIP>>
<1> USE DEF Inv
<1>1. UNCHANGED <<now, restarts, proc, byHost, byIP, cursor, pc, query, todo>>
  BY DEF WriterWake, WriterDone, Steal, FlushDelete, FlushPut, memory, handler
<1>2. LeaseMapsAgree'
  BY <1>1, Zenon DEF LeaseMapsAgree
<1>3. CASE WriterWake \/ WriterDone
  <2>1. UNCHANGED <<pending, batch, db>>
    BY <1>3 DEF WriterWake, WriterDone
  <2>2. TypeOK'
    BY <1>1, <1>3, <2>1, Zenon DEF WriterWake, WriterDone, TypeOK
  <2>3. Handling' /\ NoLostWakeup'
    BY <1>1, <1>3, <2>1, Zenon DEF WriterWake, WriterDone, Handling, NoLostWakeup
  <2> QED BY <1>1, <1>2, <2>1, <2>2, <2>3 DEF OneHostPerAddress
<1>4. ASSUME NEW f \in {"writer", "shutdown"}, Steal(f) PROVE Inv'
  <2>1. TypeOK'
    BY <1>1, <1>4 DEF Steal, TypeOK, Nothing
  <2>2. Handling' /\ NoLostWakeup' /\ OneHostPerAddress'
    BY <1>1, <1>4, Zenon DEF Steal, Handling, NoLostWakeup, OneHostPerAddress, Nothing
  <2> QED BY <1>2, <2>1, <2>2
<1>5. ASSUME NEW h \in Hosts, FlushDelete(h) \/ FlushPut(h) PROVE Inv'
  <2>1. UNCHANGED <<pending, kick, writer, flusher>> /\ batch' = [batch EXCEPT ![h] = None]
    BY <1>5 DEF FlushDelete, FlushPut
  <2>2. db' \in [Hosts -> Row \cup {None}] /\ OneHostPerAddress'
    <3>1. CASE db' = db
      BY <3>1 DEF TypeOK, OneHostPerAddress
    <3>2. CASE db' = [db EXCEPT ![h] = None]
      BY <3>2 DEF TypeOK, OneHostPerAddress
    <3>3. CASE batch[h] \in Row /\ db' = Upsert(h, batch[h])
      BY <3>3 DEF TypeOK, OneHostPerAddress, Upsert
    <3> QED BY <1>5, <3>1, <3>2, <3>3 DEF FlushDelete, FlushPut
  <2>3. TypeOK'
    BY <1>1, <2>1, <2>2, Zenon DEF TypeOK
  <2>4. Handling' /\ NoLostWakeup'
    BY <1>1, <2>1, Zenon DEF Handling, NoLostWakeup, Nothing
  <2> QED BY <1>2, <2>2, <2>3, <2>4
<1> QED BY <1>1, <1>3, <1>4, <1>5

(* The process stops, dies, and time passes.                                *)
LEMMA LifeInv ==
  ASSUME Inv, Shutdown \/ ShutdownDone \/ Crash \/ Tick
  PROVE  Inv' /\ UNCHANGED <<byHost, byIP>>
<1> USE DEF Inv
<1>1. UNCHANGED <<restarts, byHost, byIP, cursor, db>>
  BY DEF Shutdown, ShutdownDone, Crash, Tick, Exit, memory, store
<1>2. LeaseMapsAgree' /\ OneHostPerAddress'
  BY <1>1 DEF LeaseMapsAgree, OneHostPerAddress
<1>3. CASE Shutdown \/ Tick
  <2>1. UNCHANGED <<pending, batch, kick, writer, flusher, pc, query, todo>>
        /\ now' \in Nat /\ proc' \in {"running", "stopping", "clean", "crashed"}
    BY <1>3, BoundsAssumption DEF Shutdown, Tick, store, handler, TypeOK
  <2>2. TypeOK'
    BY <1>1, <2>1 DEF TypeOK
  <2> QED BY <1>1, <1>2, <2>1, <2>2 DEF Handling, NoLostWakeup
<1>4. CASE \E how \in {"clean", "crashed"} : Exit(how)
  <2>1. << >> \in Seq(Write)
    OBVIOUS
  <2>2. TypeOK'
    BY <1>1, <1>4, <2>1, Zenon DEF Exit, TypeOK, Nothing
  <2>3. Handling' /\ NoLostWakeup'
    BY <1>4 DEF Exit, Handling, NoLostWakeup, Nothing
  <2> QED BY <1>1, <1>2, <2>2, <2>3
<1> QED BY <1>1, <1>3, <1>4 DEF ShutdownDone, Crash

(* Every step keeps the invariant, and while the process runs a live lease  *)
(* keeps its host.                                                          *)
LEMMA StepInv ==
  ASSUME Inv, [Next]_vars
  PROVE  /\ Inv'
         /\ Running /\ Running' => \A s \in Slots : Live(s) /\ byIP'[s] # None =>
              byIP'[s].host = byIP[s].host
<1> DEFINE Same == \A s \in Slots : Live(s) /\ byIP'[s] # None => byIP'[s].host = byIP[s].host
<1>1. CASE Start
  BY <1>1, StartInv DEF Start, Running
<1>2. ASSUME NEW t \in Handlers, NEW h \in Hosts, Refresh(t, h) PROVE Inv' /\ Same
  BY <1>2, RefreshInv DEF Live
<1>3. ASSUME NEW t \in Handlers, NEW h \in Hosts, Allocate(t, h) PROVE Inv' /\ Same
  BY <1>3, AllocateInv
<1>4. ASSUME NEW t \in Handlers, Queue(t) \/ Kick(t) \/ Deliver(t) \/ Release(t) PROVE Inv' /\ Same
  BY <1>4, HandlerInv
<1>5. CASE \/ WriterWake \/ WriterDone \/ \E f \in {"writer", "shutdown"} : Steal(f)
           \/ \E h \in Hosts : FlushDelete(h) \/ FlushPut(h)
  <2>1. Inv' /\ byIP' = byIP
    BY <1>5, WriterInv
  <2> QED BY <2>1
<1>6. CASE Shutdown \/ ShutdownDone \/ Crash \/ Tick
  <2>1. Inv' /\ byIP' = byIP
    BY <1>6, LifeInv
  <2> QED BY <2>1
<1>7. CASE UNCHANGED vars
  <2>1. Inv'
    BY <1>7 DEF vars, memory, store, handler, Inv, TypeOK, Handling, LeaseMapsAgree,
                OneHostPerAddress, NoLostWakeup
  <2> QED BY <1>7, <2>1 DEF vars, memory
<1> QED BY <1>1, <1>2, <1>3, <1>4, <1>5, <1>6, <1>7, Zenon DEF Next

(* However many DNS handlers interleave between p.mu, wmu and flushMu, and  *)
(* whatever the store refuses or a crash cuts short: byHost and byIP        *)
(* describe the same leases, a live lease never changes hands, the table    *)
(* has one host per address, and a queued write has its wake-up.            *)
THEOREM LeasesSafe == Spec => LeasesAreSafe
<1>1. Inv => LeaseMapsAgree /\ OneHostPerAddress /\ NoLostWakeup
  BY DEF Inv
<1>2. Inv /\ [Next]_vars => Inv'
  BY StepInv
<1>3. Inv /\ [Next]_vars => [Running /\ Running' => \A s \in Slots : Live(s) /\ byIP'[s] # None =>
        byIP'[s].host = byIP[s].host]_vars
  BY StepInv
<1> QED BY <1>1, <1>2, <1>3, InitInv, PTL DEF Spec, LeasesAreSafe, LiveLeaseKept

-----------------------------------------------------------------------------
(* The table against the pool, when queries are served one at a time and    *)
(* the store does not fail.                                                 *)
OneAtATime == ~ StoreMayFail /\ \A t, u \in Handlers : t = u

(* The writes a handler has decided on and not yet put into pending.        *)
Waiting == {w \in Write : \E t \in Handlers : \E i \in DOMAIN todo[t] :
                            todo[t][i] = w /\ (i > 1 \/ pc[t] = "queue")}
Waits(h) == \E w \in Waiting : w.host = h

(* What the table will say of a host once the flush in progress is over,    *)
(* and once all of pending is written.                                      *)
Written(h) == IF batch[h] = None THEN db[h] ELSE batch[h]
Meant(h) == IF pending[h] = None THEN Written(h) ELSE pending[h]

(* A row, or its absence, that is right about a host.                       *)
Agrees(h, v) ==
  IF byHost[h] # None
  THEN v \in Row /\ v.ip = byHost[h] /\ v.expiresAt = byIP[byHost[h]].stored
  ELSE v \in Row => v.ip \notin Slots

(* The last word on every host, wherever it has got to, is right.           *)
Followed ==
  \A h \in Hosts : /\ \A w \in Waiting : w.host = h => Agrees(h, w.want)
                   /\ ~ Waits(h) => Agrees(h, Meant(h))

(* A put never takes an address from a host whose own word is older.        *)
NoClash ==
  /\ \A g, h \in Hosts : g # h /\ batch[g] \in Row /\ batch[h] \in Row
                           => batch[g].ip # batch[h].ip
  /\ \A g, h \in Hosts : g # h /\ pending[g] \in Row /\ pending[h] \in Row
                           => pending[g].ip # pending[h].ip
  /\ \A g, h \in Hosts :
       /\ g # h /\ batch[h] \in Row /\ batch[g] = None
       /\ db[g] \in Row /\ db[g].ip = batch[h].ip
       => pending[g] # None \/ Waits(g)
  /\ \A g, h \in Hosts :
       /\ g # h /\ pending[h] \in Row /\ pending[g] = None
       /\ Written(g) \in Row /\ Written(g).ip = pending[h].ip
       => Waits(g)

(* What a handler has to queue: a put or a delete, or first the delete of   *)
(* the host it evicted.                                                     *)
Calls ==
  \A t \in Handlers :
    /\ pc[t] \in {"idle", "route"} => todo[t] = << >>
    /\ Len(todo[t]) <= 2
    /\ Len(todo[t]) = 2 => todo[t][1].want = Delete /\ todo[t][1].host # todo[t][2].host
    /\ \A i \in DOMAIN todo[t] : todo[t][i].want \in Row => todo[t][i].want.ip \in Slots

(* A flush that is over leaves nothing, and a process that has ended does   *)
(* nothing.                                                                 *)
Phases ==
  /\ flusher = "none" => batch = Nothing
  /\ flusher = "shutdown" => proc = "stopping" /\ pending = Nothing
  /\ proc # "running" => \A t \in Handlers : pc[t] = "idle"
  /\ proc \in {"clean", "crashed"} =>
       pending = Nothing /\ flusher = "none" /\ ~ kick /\ writer = "wait"

(* No lease outlives a whole lease from now, and a stored expiry trails the *)
(* lease's by at most a quarter.                                            *)
Early(v) == v \in Row => v.expiresAt <= now + TTL
Lifetimes ==
  /\ \A h \in Hosts : Early(db[h]) /\ Early(batch[h]) /\ Early(pending[h])
  /\ \A w \in Waiting : Early(w.want)
  /\ \A s \in Slots : byIP[s] # None =>
       byIP[s].stored <= now + TTL /\ byIP[s].expiry - byIP[s].stored \in 0 .. TTL \div 4

Kept == Inv /\ Calls /\ Phases /\ Lifetimes /\ NoClash /\ (proc # "crashed" => Followed)

(* What the invariant says of one lease.                                    *)
LEMMA Leased ==
  ASSUME Inv
  PROVE  /\ now \in Nat /\ TTL \in Nat /\ now + TTL \in Nat
         /\ \A h \in Hosts : byHost[h] # None =>
              /\ byHost[h] \in Slots /\ byIP[byHost[h]] # None
              /\ byIP[byHost[h]] \in Lease /\ byIP[byHost[h]].host = h
         /\ \A s \in Slots : byIP[s] # None =>
              /\ byIP[s] \in Lease /\ byIP[s].host \in Hosts
              /\ byHost[byIP[s].host] = s
<1>1. now \in Nat /\ TTL \in Nat
  BY Arithmetic, Zenon DEF Inv, TypeOK
<1>2. byHost \in [Hosts -> Slots \cup {None}] /\ byIP \in [Slots -> Lease \cup {None}]
  BY Zenon DEF Inv, TypeOK
<1>3. \A h \in Hosts : byHost[h] # None => byHost[h] \in Slots
  BY <1>2
<1>4. \A s \in Slots : byIP[s] # None => byIP[s] \in Lease
  BY <1>2
<1>5. \A l \in Lease : l.host \in Hosts
  BY DEF Lease
<1>6. \A h \in Hosts : byHost[h] # None => byIP[byHost[h]] # None /\ byIP[byHost[h]].host = h
  BY Zenon DEF Inv, LeaseMapsAgree
<1>7. \A s \in Slots : byIP[s] # None => byHost[byIP[s].host] = s
  BY Zenon DEF Inv, LeaseMapsAgree
<1>8. now + TTL \in Nat
  BY <1>1
<1> QED BY <1>1, <1>3, <1>4, <1>5, <1>6, <1>7, <1>8, Zenon

(* What ends before a moment and a lease ends before a later moment and it. *)
LEMMA Later ==
  \A m, n, k, x \in Nat : m <= n /\ x <= m + k => x <= n + k
  OBVIOUS

(* The numbers that count writes, and lists of one and of two.              *)
LEMMA Few == 0 # 2 /\ 1 # 2 /\ \A n \in {0, 1, 2} : n <= 2
  OBVIOUS

LEMMA One ==
  ASSUME NEW p \in Write
  PROVE  <<p>> \in Seq(Write) /\ <<p>> # << >> /\ Len(<<p>>) = 1
         /\ DOMAIN <<p>> = {1} /\ <<p>>[1] = p
  OBVIOUS

LEMMA Two ==
  ASSUME NEW d \in Write, NEW p \in Write
  PROVE  <<d, p>> \in Seq(Write) /\ <<d, p>> # << >> /\ Len(<<d, p>>) = 2
         /\ DOMAIN <<d, p>> = {1, 2} /\ <<d, p>>[1] = d /\ <<d, p>>[2] = p
  OBVIOUS

(* Nothing waits while no handler is at its queue calls.                    *)
LEMMA NothingWaits ==
  ASSUME Calls, \A t \in Handlers : pc[t] \in {"idle", "route"}
  PROVE  Waiting = {}
  BY DEF Calls, Waiting

LEMMA WaitingStays ==
  ASSUME UNCHANGED <<pc, todo>>
  PROVE  Waiting' = Waiting /\ (Calls => Calls')
  BY DEF Waiting, Calls

(* A list of at most two writes.                                            *)
LEMMA Short ==
  ASSUME NEW q \in Seq(Write)
  PROVE  /\ Len(q) \in Nat /\ DOMAIN q = 1 .. Len(q)
         /\ Len(q) <= 2 /\ q # << >> => Len(q) \in {1, 2} /\ 1 \in DOMAIN q
         /\ Len(q) = 0 => q = << >> /\ DOMAIN q = {}
         /\ Len(q) = 1 => DOMAIN q = {1}
         /\ Len(q) = 2 => DOMAIN q = {1, 2}
<1>1. Len(q) \in Nat /\ DOMAIN q = 1 .. Len(q) /\ (q # << >> => Len(q) # 0)
  OBVIOUS
<1> DEFINE n == Len(q)
<1>2. n \in Nat => /\ n <= 2 /\ n # 0 => n \in {1, 2} /\ 1 \in 1 .. n
                   /\ n = 0 => 1 .. n = {}
                   /\ n = 1 => 1 .. n = {1}
                   /\ n = 2 => 1 .. n = {1, 2}
  <2> HIDE DEF n
  <2> QED OBVIOUS
<1> QED BY <1>1, <1>2, Zenon

(* A queue call takes the one write of its host out of those that wait; a   *)
(* put comes last.                                                          *)
LEMMA QueueTakes ==
  ASSUME OneAtATime, Inv, Calls, NEW t \in Handlers, Queue(t)
  PROVE  \E w \in Waiting :
           /\ Waiting' = Waiting \ {w} /\ \A v \in Waiting : v.host = w.host => v = w
           /\ w.want \in Row => Waiting = {w} /\ w.want.ip \in Slots
           /\ pending' = [pending EXCEPT ![w.host] = w.want]
           /\ Calls'
<1> DEFINE q == todo[t]
           w == q[1]
<1>1. q \in Seq(Write) /\ q # << >>
  BY DEF Queue, Inv, Handling, TypeOK
<1>2. /\ Len(q) \in {1, 2} /\ 1 \in DOMAIN q
      /\ Len(q) = 1 => DOMAIN q = {1}
      /\ Len(q) = 2 => DOMAIN q = {1, 2}
  BY <1>1, Short, Zenon DEF Calls
<1>3. pc[t] = "queue" /\ pc'[t] = "kick" /\ todo' = todo
      /\ pending' = [pending EXCEPT ![w.host] = w.want]
  BY <1>1 DEF Queue, Inv, TypeOK
<1>4. Handlers = {t}
  BY DEF OneAtATime
<1>5. \A v : v \in Waiting <=> \E i \in DOMAIN q : q[i] = v
  BY <1>1, <1>3, <1>4 DEF Waiting
<1>6. \A v : v \in Waiting' <=> \E i \in DOMAIN q : q[i] = v /\ i > 1
  BY <1>1, <1>3, <1>4 DEF Waiting
<1>7. Len(q) = 2 => w.want = Delete /\ w.host # q[2].host
  BY DEF Calls
<1>8. w.want \in Row => w.want.ip \in Slots
  BY <1>2 DEF Calls
<1>9. Calls'
  BY <1>3, <1>4 DEF Calls
<1> HIDE DEF q, w
<1>10. CASE Len(q) = 1
  <2>1. Waiting = {w} /\ Waiting' = {}
    BY <1>2, <1>5, <1>6, <1>10 DEF w
  <2> QED BY <1>3, <1>8, <1>9, <2>1, Zenon
<1>11. CASE Len(q) = 2
  <2>1. Waiting = {w, q[2]} /\ Waiting' = {q[2]} /\ w # q[2]
    BY <1>2, <1>5, <1>6, <1>7, <1>11 DEF w
  <2>2. w.want \notin Row
    BY <1>7, <1>11, Distinct
  <2> QED BY <1>3, <1>7, <1>9, <1>11, <2>1, <2>2, Zenon
<1> QED BY <1>2, <1>10, <1>11

(* The wake-up moves no write.                                              *)
LEMMA KickTakes ==
  ASSUME OneAtATime, Inv, Calls, NEW t \in Handlers, Kick(t)
  PROVE  Waiting' = Waiting /\ Calls'
<1> DEFINE q == todo[t]
           r == Tail(q)
<1>1. q \in Seq(Write) /\ q # << >>
  BY DEF Kick, Inv, Handling, TypeOK
<1>2. /\ Len(q) \in {1, 2}
      /\ Len(q) = 1 => DOMAIN q = {1}
      /\ Len(q) = 2 => DOMAIN q = {1, 2}
  BY <1>1, Short, Zenon DEF Calls
<1>3. r \in Seq(Write) /\ Len(r) = Len(q) - 1 /\ \A i \in 1 .. Len(r) : r[i] = q[i + 1]
  BY <1>1
<1>4. pc[t] = "kick" /\ pc'[t] = AfterQueue(t) /\ todo'[t] = r
  BY DEF Kick, Inv, TypeOK
<1>5. Handlers = {t}
  BY DEF OneAtATime
<1>6. pc'[t] = "queue" <=> Len(q) = 2
  <2>1. Len(q) > 1 <=> Len(q) = 2
    <3>1. \A n \in {1, 2} : n > 1 <=> n = 2
      OBVIOUS
    <3> QED BY <1>2, <3>1, Zenon
  <2> QED BY <1>4, <2>1, Zenon DEF AfterQueue
<1>7. \A v : v \in Waiting <=> \E i \in DOMAIN q : q[i] = v /\ i > 1
  BY <1>1, <1>4, <1>5 DEF Waiting
<1>8. \A v : v \in Waiting' <=> \E i \in DOMAIN r : r[i] = v /\ (i > 1 \/ Len(q) = 2)
  <2>1. \A i \in DOMAIN r : r[i] \in Write
    BY <1>3
  <2> HIDE DEF r
  <2> QED BY <1>4, <1>5, <1>6, <2>1 DEF Waiting
<1>9. \A i \in DOMAIN q : q[i].want \in Row => q[i].want.ip \in Slots
  BY DEF Calls
<1>10. pc'[t] \in {"queue", "idle", "route"}
  BY <1>4 DEF AfterQueue
<1> HIDE DEF q, r
<1>11. CASE Len(q) = 1
  <2>1. Len(r) = 0
    BY <1>3, <1>11
  <2>a. r = << >> /\ DOMAIN r = {}
    BY <1>3, <2>1, Short
  <2>2. Waiting' = Waiting
    BY <1>2, <1>7, <1>8, <1>11, <2>a
  <2>3. Calls'
    BY <1>4, <1>5, <2>1, <2>a, Few, Zenon DEF Calls
  <2> QED BY <2>2, <2>3
<1>12. CASE Len(q) = 2
  <2>0. Len(r) = 1
    BY <1>3, <1>12
  <2>1. DOMAIN r = {1} /\ Len(r) = 1 /\ r[1] = q[2]
    <3>1. r[1] = q[1 + 1] /\ DOMAIN r = {1}
      BY <1>3, <2>0, Short, Zenon
    <3> QED BY <2>0, <3>1
  <2>2. Waiting' = Waiting
    BY <1>2, <1>7, <1>8, <1>12, <2>1
  <2>3. Calls'
    <3>1. q[2].want \in Row => q[2].want.ip \in Slots
      BY <1>2, <1>9, <1>12
    <3>2. pc'[t] \notin {"idle", "route"}
      BY <1>6, <1>12
    <3> QED BY <1>4, <1>5, <2>1, <3>1, <3>2, Few, Zenon DEF Calls
  <2> QED BY <2>2, <2>3
<1> QED BY <1>2, <1>11, <1>12

(* A handler that decides on writes has none waiting before.                *)
LEMMA BeginWaits ==
  ASSUME OneAtATime, Inv, Calls, NEW t \in Handlers, pc[t] \in {"idle", "route"},
         NEW ws \in Seq(Write), todo' = [todo EXCEPT ![t] = ws],
         pc'[t] = IF ws = << >> THEN "route" ELSE "queue",
         \/ ws = << >> \/ Len(ws) = 1
         \/ Len(ws) = 2 /\ ws[1].want = Delete /\ ws[1].host # ws[2].host,
         \A i \in DOMAIN ws : ws[i].want \in Row => ws[i].want.ip \in Slots
  PROVE  Waiting = {} /\ Waiting' = {ws[i] : i \in DOMAIN ws} /\ Calls'
<1>1. Handlers = {t} /\ todo'[t] = ws
  <2>1. Handlers = {t}
    BY DEF OneAtATime
  <2>2. todo \in [Handlers -> Seq(Write)]
    BY Zenon DEF Inv, TypeOK
  <2> QED BY <2>1, <2>2, Zenon
<1>2. Waiting = {}
  BY <1>1, NothingWaits
<1>3. \A v : v \in Waiting' <=> \E i \in DOMAIN ws : ws[i] = v
  BY <1>1 DEF Waiting
<1>4. Calls'
  <2>1. Len(ws) <= 2 /\ (Len(ws) = 2 => ws[1].want = Delete /\ ws[1].host # ws[2].host)
    <3>1. ws = << >> => Len(ws) = 0
      OBVIOUS
    <3>2. Len(ws) \in {0, 1, 2}
      BY <3>1, Zenon
    <3> QED BY <3>1, <3>2, Few, Zenon
  <2> QED BY <1>1, <2>1 DEF Calls
<1> QED BY <1>2, <1>3, <1>4

(* The layers under pending change with nothing a handler decides.          *)
LEMMA LayersStay ==
  ASSUME UNCHANGED <<pending, batch, db>>
  PROVE  \A h : Written(h)' = Written(h) /\ Meant(h)' = Meant(h)
  BY DEF Written, Meant

LEMMA DecideKeeps ==
  ASSUME NoClash, Followed, Waiting = {}, UNCHANGED <<pending, batch, db>>,
         \A w \in Waiting' : \A h \in Hosts : w.host = h => Agrees(h, w.want)',
         \A h \in Hosts : ~ Waits(h)' => \A v : Agrees(h, v) => Agrees(h, v)'
  PROVE  NoClash' /\ Followed'
<1>1. \A h : Written(h)' = Written(h) /\ Meant(h)' = Meant(h)
  BY LayersStay
<1>2. \A h : ~ Waits(h)
  BY DEF Waits
<1>3. NoClash'
  BY <1>1, <1>2, Zenon DEF NoClash
<1>4. Followed'
  BY <1>1, <1>2, Zenon DEF Followed
<1> QED BY <1>3, <1>4

(* What is right about a host depends on its own lease only.                *)
LEMMA AgreesStays ==
  ASSUME NEW h, byHost'[h] = byHost[h],
         byHost[h] # None => byIP'[byHost[h]].stored = byIP[byHost[h]].stored
  PROVE  \A v : Agrees(h, v)' <=> Agrees(h, v)
  BY DEF Agrees

(* A queue call hands the last word on a host from the handler to pending.  *)
LEMMA QueueKept ==
  ASSUME OneAtATime, Kept, NEW t \in Handlers, Queue(t)
  PROVE  Kept'
<1> USE DEF Kept
<1>1. PICK w \in Waiting :
           /\ Waiting' = Waiting \ {w} /\ \A v \in Waiting : v.host = w.host => v = w
           /\ w.want \in Row => Waiting = {w} /\ w.want.ip \in Slots
           /\ pending' = [pending EXCEPT ![w.host] = w.want]
           /\ Calls'
  BY QueueTakes
<1>2. UNCHANGED <<now, proc, byHost, byIP, batch, db, flusher>> /\ proc = "running"
      /\ pc' = [pc EXCEPT ![t] = "kick"] /\ pc[t] = "queue"
  BY DEF Queue, memory, Phases
<1>3. w \in Write /\ w.host \in Hosts /\ w.want \in Row \cup {Delete} /\ w.want # None
  BY Distinct DEF Waiting, Write
<1>4. pending'[w.host] = w.want /\ \A h \in Hosts \ {w.host} : pending'[h] = pending[h]
  BY <1>1, <1>3 DEF Inv, TypeOK
<1>5. \A h : Written(h)' = Written(h)
  BY <1>2 DEF Written
<1>6. \A h \in Hosts : Waits(h)' <=> Waits(h) /\ h # w.host
  BY <1>1 DEF Waits
<1>7. \A h, v : Agrees(h, v)' <=> Agrees(h, v)
  BY <1>2 DEF Agrees
<1>8. Followed'
  <2> SUFFICES ASSUME NEW h \in Hosts
               PROVE  /\ \A v \in Waiting' : v.host = h => Agrees(h, v.want)
                      /\ ~ Waits(h)' => Agrees(h, Meant(h)')
    BY <1>7 DEF Followed
  <2>1. CASE h = w.host
    <3>1. Meant(h)' = w.want /\ Agrees(h, w.want)
      BY <1>2, <1>3, <1>4, <2>1, Zenon DEF Meant, Followed
    <3> QED BY <1>1, <2>1, <3>1
  <2>2. CASE h # w.host
    <3>1. Meant(h)' = Meant(h)
      BY <1>4, <1>5, <2>2 DEF Meant
    <3> QED BY <1>1, <1>2, <1>6, <2>2, <3>1 DEF Followed
  <2> QED BY <2>1, <2>2
<1>9. \A k \in Hosts : k # w.host /\ w.want \in Row /\ Meant(k) \in Row
                         => Meant(k).ip # w.want.ip
  <2> SUFFICES ASSUME NEW k \in Hosts, k # w.host, w.want \in Row, Meant(k) \in Row
               PROVE  Meant(k).ip # w.want.ip
    OBVIOUS
  <2> SUFFICES ASSUME Meant(k).ip = w.want.ip
               PROVE  FALSE
    OBVIOUS
  <2>1. ~ Waits(k) /\ w.want.ip \in Slots
    BY <1>1 DEF Waits
  <2>2. Agrees(k, Meant(k)) /\ Agrees(w.host, w.want)
    BY <1>2, <1>3, <2>1 DEF Followed
  <2>3. byHost[k] = w.want.ip /\ byHost[w.host] = w.want.ip
    BY <2>1, <2>2 DEF Agrees
  <2>4. w.want.ip # None
    BY <2>1, Distinct, Zenon
  <2>5. \A g \in Hosts : byHost[g] # None => byIP[byHost[g]].host = g
    BY Leased, Zenon
  <2>6. byIP[w.want.ip].host = k /\ byIP[w.want.ip].host = w.host
    BY <1>3, <2>3, <2>4, <2>5, Zenon
  <2> QED BY <2>6, Zenon
<1>10. NoClash'
  <2>1. \A g, h \in Hosts : g # h /\ pending'[g] \in Row /\ pending'[h] \in Row
                           => pending'[g].ip # pending'[h].ip
    <3>1. \A k \in Hosts : k # w.host /\ w.want \in Row /\ pending[k] \in Row
                             => pending[k].ip # w.want.ip
      BY <1>9, Distinct DEF Meant
    <3> QED BY <1>4, <3>1, Zenon DEF NoClash
  <2>2. \A g, h \in Hosts :
          /\ g # h /\ batch[h] \in Row /\ batch[g] = None
          /\ db[g] \in Row /\ db[g].ip = batch[h].ip
          => pending'[g] # None \/ Waits(g)'
    BY <1>3, <1>4, <1>6 DEF NoClash
  <2>3. \A g, h \in Hosts :
          /\ g # h /\ pending'[h] \in Row /\ pending'[g] = None
          /\ Written(g) \in Row /\ Written(g).ip = pending'[h].ip
          => Waits(g)'
    <3> SUFFICES ASSUME NEW g \in Hosts, NEW h \in Hosts, g # h, pending'[h] \in Row,
                        pending'[g] = None, Written(g) \in Row,
                        Written(g).ip = pending'[h].ip
                 PROVE  Waits(g)'
      OBVIOUS
    <3>1. g # w.host /\ pending[g] = None
      BY <1>3, <1>4
    <3>2. CASE h = w.host
      BY <1>4, <1>9, <3>1, <3>2 DEF Meant
    <3>3. CASE h # w.host
      BY <1>4, <1>6, <3>1, <3>3, Zenon DEF NoClash
    <3> QED BY <3>2, <3>3
  <2> QED BY <1>2, <1>5, <2>1, <2>2, <2>3, Zenon DEF NoClash
<1>11. Lifetimes'
  BY <1>1, <1>2, <1>3, <1>4 DEF Lifetimes, Early
<1>12. Phases'
  BY <1>2 DEF Phases
<1>13. Inv'
  BY HandlerInv
<1> QED BY <1>1, <1>8, <1>10, <1>11, <1>12, <1>13

(* The wake-up, and an answer.                                              *)
LEMMA SendKept ==
  ASSUME OneAtATime, Kept, NEW t \in Handlers, Kick(t) \/ Deliver(t)
  PROVE  Kept'
<1> USE DEF Kept
<1>1. UNCHANGED <<now, proc, byHost, byIP, pending, batch, db, flusher>>
  BY DEF Kick, Deliver, memory, store
<1>2. Waiting' = Waiting /\ Calls'
  <2>1. CASE Kick(t)
    BY <2>1, KickTakes
  <2>2. CASE Deliver(t)
    <3>1. Handlers = {t} /\ pc[t] = "route" /\ pc'[t] = "idle" /\ todo' = todo
      BY <2>2 DEF OneAtATime, Deliver, Inv, TypeOK
    <3>2. Calls'
      BY <3>1, Zenon DEF Calls
    <3>3. Waiting' = Waiting
      BY <3>1, Zenon DEF Waiting, Calls
    <3> QED BY <3>2, <3>3
  <2> QED BY <2>1, <2>2
<1>3. proc = "running"
  BY DEF Phases, Kick, Deliver
<1>4. Phases'
  BY <1>1, <1>3 DEF Phases
<1>5. Lifetimes'
  BY <1>1, <1>2 DEF Lifetimes, Early
<1>6. \A h : /\ Written(h)' = Written(h) /\ Meant(h)' = Meant(h)
             /\ Waits(h)' = Waits(h) /\ \A v : Agrees(h, v)' = Agrees(h, v)
  BY <1>1, <1>2 DEF Written, Meant, Waits, Agrees
<1>7. NoClash'
  BY <1>1, <1>6, Zenon DEF NoClash
<1>8. Followed'
  BY <1>2, <1>3, <1>6 DEF Followed
<1>9. Inv'
  BY HandlerInv
<1> QED BY <1>2, <1>4, <1>5, <1>7, <1>8, <1>9

(* A refresh that is worth writing says so itself; one that is not leaves   *)
(* the stored expiry.                                                       *)
LEMMA RefreshKept ==
  ASSUME OneAtATime, Kept, NEW t \in Handlers, NEW h \in Hosts, Refresh(t, h)
  PROVE  Kept'
<1> USE DEF Kept
<1> DEFINE s == byHost[h]
           e == now + TTL
           fresh == WorthWriting(s)
           ws == IF fresh THEN <<Put(h, s)>> ELSE << >>
           l == [byIP[s] EXCEPT !.expiry = e, !.stored = IF fresh THEN e ELSE @]
<1>1. s \in Slots /\ byIP[s] \in Lease /\ byIP[s].host = h
  BY DEF Refresh, Inv, TypeOK, LeaseMapsAgree
<1>2. /\ byIP' = [byIP EXCEPT ![s] = l] /\ Begin(t, h, s, ws) /\ pc[t] = "idle"
      /\ UNCHANGED <<now, proc, byHost, pending, batch, db, flusher>> /\ proc = "running"
  BY <1>1, Zenon DEF Refresh, Running, store, Inv, TypeOK
<1>3. now \in Nat /\ TTL \in Nat /\ e \in Nat /\ TTL \div 4 \in Nat
  <2>1. now \in Nat /\ TTL \in Nat /\ e \in Nat
    BY Leased, Zenon
  <2> QED BY <2>1, Arithmetic
<1>4. l.expiry = e /\ l.stored = IF fresh THEN e ELSE byIP[s].stored
  BY <1>1 DEF Lease
<1>6. PICK row \in Row : row.ip = s /\ row.expiresAt = e
                        /\ Put(h, s) = [host |-> h, want |-> row]
  BY <1>1, <1>3, Arithmetic, Zenon DEF Put, Row
<1>7. Put(h, s) \in Write
  BY <1>6 DEF Write
<1> HIDE DEF s, e, fresh, l
<1>8. Waiting = {} /\ Waiting' = (IF fresh THEN {Put(h, s)} ELSE {}) /\ Calls'
  <2>1. ws \in Seq(Write) /\ (ws = << >> \/ Len(ws) = 1)
    BY <1>7
  <2>2. DOMAIN ws = IF fresh THEN {1} ELSE {}
    BY <1>7
  <2>3. \A i \in DOMAIN ws : ws[i] = Put(h, s)
    OBVIOUS
  <2>4. Put(h, s).want \in Row => Put(h, s).want.ip \in Slots
    <3>1. Put(h, s).want = row
      BY <1>6
    <3> QED BY <1>1, <1>6, <3>1, Zenon
  <2>5. todo' = [todo EXCEPT ![t] = ws] /\ pc'[t] = IF ws = << >> THEN "route" ELSE "queue"
    BY <1>2 DEF Begin, Inv, TypeOK
  <2> HIDE DEF ws
  <2>6. Waiting = {} /\ Waiting' = {ws[i] : i \in DOMAIN ws} /\ Calls'
    BY <1>2, <2>1, <2>3, <2>4, <2>5, BeginWaits, Zenon
  <2> QED BY <2>2, <2>3, <2>6
<1>9. byIP'[s] = l /\ \A r \in Slots \ {s} : byIP'[r] = byIP[r]
  BY <1>1, <1>2 DEF Inv, TypeOK
<1>10. \A g \in Hosts : g # h \/ ~ fresh => \A v : Agrees(g, v)' <=> Agrees(g, v)
  <2> SUFFICES ASSUME NEW g \in Hosts, g # h \/ ~ fresh
               PROVE  byHost[g] # None => byIP'[byHost[g]].stored = byIP[byHost[g]].stored
    BY <1>2, AgreesStays
  <2> SUFFICES ASSUME byHost[g] # None
               PROVE  byIP'[byHost[g]].stored = byIP[byHost[g]].stored
    BY Zenon
  <2>1. byHost[g] \in Slots /\ byIP[byHost[g]].host = g
    BY DEF Inv, TypeOK, LeaseMapsAgree
  <2>2. CASE byHost[g] # s
    BY <1>9, <2>1, <2>2, Zenon
  <2>3. CASE byHost[g] = s
    BY <1>1, <1>4, <1>9, <2>1, <2>3, Zenon
  <2> QED BY <2>2, <2>3
<1>11. fresh => Agrees(h, row)'
  <2>1. byHost'[h] = s /\ s # None
    BY <1>1, <1>2, Distinct, Zenon DEF s
  <2> QED BY <1>4, <1>6, <1>9, <2>1, Zenon DEF Agrees
<1>12. NoClash' /\ Followed'
  <2>1. \A w \in Waiting' : \A g \in Hosts : w.host = g => Agrees(g, w.want)'
    <3>1. \A w \in Waiting' : fresh /\ w.host = h /\ w.want = row
      BY <1>6, <1>8
    <3> QED BY <1>11, <3>1
  <2>2. \A g \in Hosts : ~ Waits(g)' => \A v : Agrees(g, v) => Agrees(g, v)'
    BY <1>6, <1>8, <1>10 DEF Waits
  <2> QED BY <1>2, <1>8, <2>1, <2>2, DecideKeeps
<1>13. Lifetimes'
  <2>1. byIP[s].stored \in Nat /\ byIP[s].stored <= now + TTL
    BY <1>1, Distinct, Zenon DEF Lease, Lifetimes
  <2>2. l.stored <= now + TTL /\ l.expiry - l.stored \in 0 .. TTL \div 4
    BY <1>3, <1>4, <2>1 DEF e, fresh, WorthWriting
  <2>3. \A r \in Slots : byIP'[r] # None =>
           byIP'[r].stored <= now + TTL /\ byIP'[r].expiry - byIP'[r].stored \in 0 .. TTL \div 4
    BY <1>9, <2>2 DEF Lifetimes
  <2>4. \A w \in Waiting' : w.want.expiresAt <= now + TTL
    BY <1>3, <1>6, <1>8 DEF e
  <2> QED BY <1>2, <2>3, <2>4, Zenon DEF Lifetimes, Early
<1>14. Phases'
  BY <1>2 DEF Phases
<1>15. Inv'
  BY RefreshInv
<1> QED BY <1>8, <1>12, <1>13, <1>14, <1>15

(* An allocation decides on the put, and before it on the delete of the     *)
(* host whose slot it takes.                                                *)
LEMMA AllocateKept ==
  ASSUME OneAtATime, Kept, NEW t \in Handlers, NEW h \in Hosts, Allocate(t, h)
  PROVE  Kept'
<1> USE DEF Kept
<1>1. PICK s \in Slots :
        /\ byHost' = [Evict(s) EXCEPT ![h] = s]
        /\ byIP' = [byIP EXCEPT ![s] = [host |-> h, expiry |-> now + TTL, stored |-> now + TTL]]
        /\ Begin(t, h, s, IF byIP[s] = None THEN <<Put(h, s)>>
                          ELSE <<Drop(byIP[s].host), Put(h, s)>>)
  BY Zenon DEF Allocate, ScanStops
<1>2. /\ byHost[h] = None /\ pc[t] = "idle" /\ proc = "running"
      /\ UNCHANGED <<now, proc, pending, batch, db, flusher>>
  BY Zenon DEF Allocate, Running, store
<1>3. PICK k : byIP[s] # None => k = byIP[s].host /\ k \in Hosts /\ k # h /\ byHost[k] = s
  <2>1. byIP[s] # None => byIP[s].host \in Hosts /\ byHost[byIP[s].host] = s
    BY Leased, Zenon
  <2>2. s # None
    BY Distinct, Zenon
  <2> QED BY <1>2, <2>1, <2>2, Zenon
<1>4. PICK row \in Row : row.ip = s /\ row.expiresAt = now + TTL
                        /\ Put(h, s) = [host |-> h, want |-> row]
  <2>1. now + TTL \in Nat
    BY Leased, Zenon
  <2> QED BY <2>1, Arithmetic DEF Put, Row
<1> DEFINE p == [host |-> h, want |-> row]
           d == [host |-> k, want |-> Delete]
           ws == IF byIP[s] = None THEN <<p>> ELSE <<d, p>>
<1>5. p \in Write /\ (byIP[s] # None => d \in Write)
  BY <1>3, <1>4 DEF Write
<1>a. p.host = h /\ p.want = row /\ d.host = k /\ d.want = Delete
  OBVIOUS
<1> HIDE DEF p, d
<1>6. Waiting = {} /\ Waiting' = (IF byIP[s] = None THEN {p} ELSE {d, p}) /\ Calls'
  <2>1. Begin(t, h, s, ws)
    BY <1>1, <1>3, <1>4, Zenon DEF Drop, p, d
  <2>2. ws \in Seq(Write) /\ ws # << >>
    BY <1>5, One, Two, Zenon
  <2>3. DOMAIN ws = (IF byIP[s] = None THEN {1} ELSE {1, 2})
        /\ Len(ws) = IF byIP[s] = None THEN 1 ELSE 2
    <3>1. CASE byIP[s] = None
      BY <1>5, <3>1, One, Zenon
    <3>2. CASE byIP[s] # None
      BY <1>5, <3>2, Two, Zenon
    <3> QED BY <3>1, <3>2
  <2>4. IF byIP[s] = None THEN ws[1] = p ELSE ws[1] = d /\ ws[2] = p
    BY <1>5, One, Two, Zenon
  <2>5. p.want.ip \in Slots /\ d.want \notin Row
    BY <1>4, <1>a, Distinct
  <2>6. d.want = Delete /\ (byIP[s] # None => d.host # p.host)
    BY <1>3, <1>a, Zenon
  <2> HIDE DEF ws
  <2>7. \A i \in DOMAIN ws : ws[i].want \in Row => ws[i].want.ip \in Slots
    BY <2>3, <2>4, <2>5
  <2>8. todo' = [todo EXCEPT ![t] = ws] /\ pc'[t] = IF ws = << >> THEN "route" ELSE "queue"
    BY <2>1, <2>2 DEF Begin, Inv, TypeOK
  <2>9. Waiting = {} /\ Waiting' = {ws[i] : i \in DOMAIN ws} /\ Calls'
    BY <1>2, <2>2, <2>3, <2>4, <2>6, <2>7, <2>8, BeginWaits, Zenon
  <2> QED BY <2>3, <2>4, <2>9
<1>7. /\ byHost'[h] = s
      /\ \A g \in Hosts \ {h} : byHost'[g] = IF byIP[s] # None /\ g = k THEN None ELSE byHost[g]
  BY <1>1, <1>3 DEF Evict, Inv, TypeOK
<1>8. byIP'[s].stored = now + TTL /\ byIP'[s].expiry = now + TTL
      /\ \A r \in Slots \ {s} : byIP'[r] = byIP[r]
  BY <1>1 DEF Inv, TypeOK
<1>9. Agrees(h, row)' /\ (byIP[s] # None => Agrees(k, Delete)')
  <2>1. s # None /\ Delete \notin Row
    BY Distinct
  <2> QED BY <1>3, <1>4, <1>7, <1>8, <2>1, Zenon DEF Agrees
<1>10. \A g \in Hosts : g # h /\ ~ (byIP[s] # None /\ g = k)
                         => \A v : Agrees(g, v)' <=> Agrees(g, v)
  <2> SUFFICES ASSUME NEW g \in Hosts, g # h, ~ (byIP[s] # None /\ g = k), byHost[g] # None
               PROVE  byIP'[byHost[g]].stored = byIP[byHost[g]].stored
    BY <1>7, AgreesStays, Zenon
  <2>1. byHost[g] \in Slots /\ byIP[byHost[g]] # None /\ byIP[byHost[g]].host = g
    BY Leased, Zenon
  <2>2. byHost[g] # s
    BY <1>3, <2>1, Zenon
  <2> QED BY <1>8, <2>1, <2>2, Zenon
<1>11. NoClash' /\ Followed'
  <2>1. \A w \in Waiting' : \A g \in Hosts : w.host = g => Agrees(g, w.want)'
    <3>1. \A w \in Waiting' : \/ w.host = h /\ w.want = row
                              \/ byIP[s] # None /\ w.host = k /\ w.want = Delete
      BY <1>6, <1>a, Zenon
    <3> QED BY <1>9, <3>1
  <2>2. \A g \in Hosts : ~ Waits(g)' => g # h /\ ~ (byIP[s] # None /\ g = k)
    BY <1>6, <1>a, Zenon DEF Waits
  <2> QED BY <1>2, <1>6, <1>10, <2>1, <2>2, DecideKeeps, Zenon
<1>12. Lifetimes'
  <2>1. now + TTL \in Nat /\ now + TTL <= now + TTL /\ (now + TTL) - (now + TTL) \in 0 .. TTL \div 4
    BY Arithmetic DEF Inv, TypeOK
  <2>2. \A r \in Slots : byIP'[r] # None =>
           byIP'[r].stored <= now + TTL /\ byIP'[r].expiry - byIP'[r].stored \in 0 .. TTL \div 4
    BY <1>8, <2>1, Zenon DEF Lifetimes
  <2>3. \A w \in Waiting' : w.want \in Row => w.want.expiresAt <= now + TTL
    <3>1. \A w \in Waiting' : w.want \in {row, Delete}
      BY <1>6, <1>a, Zenon
    <3> QED BY <1>4, <2>1, <3>1, Distinct, Zenon
  <2> QED BY <1>2, <2>2, <2>3, Zenon DEF Lifetimes, Early
<1>13. Phases'
  BY <1>2 DEF Phases
<1>14. Inv'
  BY AllocateInv
<1> QED BY <1>6, <1>11, <1>12, <1>13, <1>14

(* A release decides on the delete.                                         *)
LEMMA ReleaseKept ==
  ASSUME OneAtATime, Kept, NEW t \in Handlers, Release(t)
  PROVE  Kept'
<1> USE DEF Kept
<1>1. PICK h \in Hosts : h = query[t].host
  BY DEF Release, Inv, Handling, Answer
<1>2. /\ pc[t] = "route" /\ proc = "running" /\ Handlers = {t}
      /\ UNCHANGED <<now, proc, pending, batch, db, flusher>>
  BY DEF Release, store, Phases, OneAtATime
<1>3. Inv' /\ \A s \in Slots : byIP'[s] = byIP[s] \/ byIP'[s] = None
  BY HandlerInv
<1>4. CASE byHost[h] = None
  <2>1. pc' = [pc EXCEPT ![t] = "idle"] /\ UNCHANGED <<byHost, byIP, todo>>
    BY <1>1, <1>4 DEF Release
  <2>2. Waiting = {} /\ Waiting' = {} /\ Calls'
    <3>1. todo[t] = << >> /\ pc'[t] = "idle"
      BY <1>2, <2>1, Zenon DEF Calls, Inv, TypeOK
    <3>2. Calls'
      BY <1>2, <2>1, <3>1, Zenon DEF Calls
    <3> QED BY <1>2, <2>1, <3>1, <3>2 DEF Waiting
  <2>3. \A g, v : Agrees(g, v)' <=> Agrees(g, v)
    BY <2>1, Zenon DEF Agrees
  <2>4. NoClash' /\ Followed'
    BY <1>2, <2>2, <2>3, DecideKeeps
  <2>5. Lifetimes' /\ Phases'
    BY <1>2, <2>1, <2>2, Zenon DEF Lifetimes, Early, Phases
  <2> QED BY <1>3, <2>2, <2>4, <2>5
<1>5. CASE byHost[h] # None
  <2> DEFINE d == [host |-> h, want |-> Delete]
             ws == <<d>>
  <2>1. /\ byHost' = [byHost EXCEPT ![h] = None] /\ byIP' = [byIP EXCEPT ![byHost[h]] = None]
        /\ todo' = [todo EXCEPT ![t] = ws] /\ pc' = [pc EXCEPT ![t] = "queue"]
    BY <1>1, <1>5, Zenon DEF Release, Drop
  <2>2. ws \in Seq(Write) /\ ws # << >> /\ Len(ws) = 1 /\ DOMAIN ws = {1} /\ ws[1] = d
    BY DEF Write
  <2>3. Waiting = {} /\ Waiting' = {d} /\ Calls'
    <3>1. pc'[t] = "queue" /\ d.want \notin Row
      BY <2>1, Distinct DEF Inv, TypeOK
    <3> HIDE DEF ws, d
    <3>2. Waiting = {} /\ Waiting' = {ws[i] : i \in DOMAIN ws} /\ Calls'
      BY <1>2, <2>1, <2>2, <3>1, BeginWaits, Zenon
    <3> QED BY <2>2, <3>2
  <2>4. Agrees(h, Delete)'
    <3>1. byHost'[h] = None /\ Delete \notin Row
      BY <2>1, Distinct DEF Inv, TypeOK
    <3> QED BY <3>1 DEF Agrees
  <2>5. \A g \in Hosts \ {h} : \A v : Agrees(g, v)' <=> Agrees(g, v)
    <3> SUFFICES ASSUME NEW g \in Hosts \ {h}
                 PROVE  /\ byHost'[g] = byHost[g]
                        /\ byHost[g] # None => byIP'[byHost[g]].stored = byIP[byHost[g]].stored
      BY AgreesStays
    <3>1. byHost[g] # None => byHost[g] \in Slots /\ byHost[g] # byHost[h]
      <4>1. byIP[byHost[h]].host = h /\ (byHost[g] # None => byIP[byHost[g]].host = g)
        BY <1>5 DEF Inv, LeaseMapsAgree
      <4>2. byHost[g] # None => byHost[g] \in Slots
        BY DEF Inv, TypeOK
      <4> QED BY <4>1, <4>2
    <3> QED BY <2>1, <3>1 DEF Inv, TypeOK
  <2>6. NoClash' /\ Followed'
    <3>1. \A w \in Waiting' : \A g \in Hosts : w.host = g => Agrees(g, w.want)'
      <4>1. \A w \in Waiting' : w.host = h /\ w.want = Delete
        BY <2>3
      <4> QED BY <2>4, <4>1
    <3>2. \A g \in Hosts : ~ Waits(g)' => g # h
      BY <2>3 DEF Waits
    <3> QED BY <1>2, <2>3, <2>5, <3>1, <3>2, DecideKeeps
  <2>7. Lifetimes' /\ Phases'
    <3>1. \A w \in Waiting' : w.want \notin Row
      BY <2>3, Distinct
    <3>2. Phases'
      BY <1>2 DEF Phases
    <3> QED BY <1>2, <1>3, <3>1, <3>2 DEF Lifetimes, Early
  <2> QED BY <1>3, <2>3, <2>6, <2>7, Zenon
<1> QED BY <1>4, <1>5

(* A flush that begins takes the whole of pending, on top of an empty batch. *)
LEMMA StealKept ==
  ASSUME OneAtATime, Kept, NEW f \in {"writer", "shutdown"}, Steal(f)
  PROVE  Kept'
<1> USE DEF Kept
<1>1. /\ batch = Nothing /\ batch' = pending /\ pending' = Nothing /\ flusher' = f
      /\ f = "shutdown" => proc = "stopping"
      /\ UNCHANGED <<now, proc, byHost, byIP, db, pc, todo>>
  BY DEF Steal, Phases, memory, handler
<1>2. \A h \in Hosts : batch[h] = None /\ pending'[h] = None
  BY <1>1 DEF Nothing
<1>3. Waiting' = Waiting /\ Calls'
  BY <1>1, WaitingStays
<1>4. \A h \in Hosts : Written(h) = db[h] /\ Meant(h)' = Meant(h)
  BY <1>1, <1>2 DEF Written, Meant
<1>5. \A h : Waits(h)' = Waits(h) /\ \A v : Agrees(h, v)' = Agrees(h, v)
  BY <1>1, <1>3 DEF Waits, Agrees
<1>6. Followed => Followed'
  BY <1>3, <1>4, <1>5, Zenon DEF Followed
<1>7. NoClash'
  BY <1>1, <1>2, <1>4, <1>5, Distinct, Zenon DEF NoClash
<1>8. Lifetimes'
  BY <1>1, <1>2, <1>3, Distinct, Zenon DEF Lifetimes, Early
<1>9. proc # "clean" /\ proc # "crashed"
  BY <1>1 DEF Phases, Steal
<1>10. Phases'
  BY <1>1, <1>9 DEF Phases
<1>11. Inv'
  BY WriterInv
<1> QED BY <1>1, <1>3, <1>6, <1>7, <1>8, <1>10, <1>11

(* A delete or a put of the flush: what it takes from another host was      *)
(* overtaken by that host's own later word.                                 *)
LEMMA FlushKept ==
  ASSUME OneAtATime, Kept, NEW h \in Hosts, FlushDelete(h) \/ FlushPut(h)
  PROVE  Kept'
<1> USE DEF Kept
<1>1. /\ flusher # "none" /\ batch' = [batch EXCEPT ![h] = None]
      /\ UNCHANGED <<now, proc, byHost, byIP, pending, kick, writer, flusher, pc, todo>>
  BY DEF FlushDelete, FlushPut, memory, handler
<1>2. batch'[h] = None /\ \A g \in Hosts \ {h} : batch'[g] = batch[g]
  BY <1>1 DEF Inv, TypeOK
<1>3. \/ batch[h] = Delete /\ db' = [db EXCEPT ![h] = None]
      \/ batch[h] \in Row /\ db' = Upsert(h, batch[h])
  BY DEF FlushDelete, FlushPut, OneAtATime
<1>4. /\ db'[h] = IF batch[h] \in Row THEN batch[h] ELSE None
      /\ \A g \in Hosts \ {h} :
           \/ db'[g] = db[g]
           \/ batch[h] \in Row /\ db[g] \in Row /\ db[g].ip = batch[h].ip /\ db'[g] = None
  <2>1. db \in [Hosts -> Row \cup {None}]
    BY Zenon DEF Inv, TypeOK
  <2>2. CASE batch[h] = Delete /\ db' = [db EXCEPT ![h] = None]
    BY <2>1, <2>2, Distinct
  <2>3. CASE batch[h] \in Row /\ db' = Upsert(h, batch[h])
    BY <2>1, <2>3, Zenon DEF Upsert
  <2> QED BY <1>3, <2>2, <2>3, Zenon
<1>5. Waiting' = Waiting /\ Calls'
  BY <1>1, WaitingStays
<1>6. \A g : Waits(g)' = Waits(g) /\ \A v : Agrees(g, v)' = Agrees(g, v)
  BY <1>1, <1>5, Zenon DEF Waits, Agrees
<1>7. batch[h] # None /\ (batch[h] \in Row \/ batch[h] = Delete)
  BY <1>3, Distinct
<1>8. /\ Written(h)' = IF batch[h] \in Row THEN Written(h) ELSE None
      /\ \A g \in Hosts \ {h} : Written(g)' = Written(g) \/ Written(g)' = None
  BY <1>2, <1>4, <1>7, Zenon DEF Written
<1>9. Followed => Followed'
  <2> SUFFICES ASSUME Followed, NEW g \in Hosts, ~ Waits(g) PROVE Agrees(g, Meant(g)')
    BY <1>5, <1>6 DEF Followed
  <2>1. Agrees(g, Meant(g))
    BY DEF Followed
  <2>2. CASE pending[g] # None
    BY <1>1, <2>1, <2>2 DEF Meant
  <2>3. CASE pending[g] = None /\ g = h
    <3>1. Meant(g) = batch[h] /\ Meant(g)' = IF batch[h] \in Row THEN batch[h] ELSE None
      BY <1>1, <1>7, <1>8, <2>3, Zenon DEF Meant, Written
    <3> QED BY <1>7, <2>1, <2>3, <3>1, Distinct, Zenon DEF Agrees
  <2>4. CASE pending[g] = None /\ g # h
    <3>1. Written(g)' = Written(g)
      <4>1. CASE batch[g] = None /\ db'[g] # db[g]
        BY <1>4, <2>4, <4>1, Zenon DEF NoClash
      <4>2. CASE batch[g] # None \/ db'[g] = db[g]
        BY <1>2, <2>4, <4>2, Zenon DEF Written
      <4> QED BY <4>1, <4>2, Zenon
    <3> QED BY <1>1, <2>1, <2>4, <3>1 DEF Meant
  <2> QED BY <2>2, <2>3, <2>4
<1>10. NoClash'
  <2>1. \A g, k \in Hosts : g # k /\ batch'[g] \in Row /\ batch'[k] \in Row
                           => batch'[g].ip # batch'[k].ip
    BY <1>2, Distinct, Zenon DEF NoClash
  <2>2. \A g, k \in Hosts :
       /\ g # k /\ batch'[k] \in Row /\ batch'[g] = None
       /\ db'[g] \in Row /\ db'[g].ip = batch'[k].ip
       => pending[g] # None \/ Waits(g)
    <3> SUFFICES ASSUME NEW g \in Hosts, NEW k \in Hosts, g # k, batch'[k] \in Row,
                        batch'[g] = None, db'[g] \in Row, db'[g].ip = batch'[k].ip
                 PROVE  pending[g] # None \/ Waits(g)
      OBVIOUS
    <3>1. k # h /\ batch[k] = batch'[k]
      BY <1>2, Distinct
    <3>2. CASE g = h
      BY <1>4, <3>1, <3>2, Distinct, Zenon DEF NoClash
    <3>3. CASE g # h
      BY <1>2, <1>4, <3>1, <3>3, Distinct, Zenon DEF NoClash
    <3> QED BY <3>2, <3>3
  <2>3. \A g, k \in Hosts :
       /\ g # k /\ pending[k] \in Row /\ pending[g] = None
       /\ Written(g)' \in Row /\ Written(g)'.ip = pending[k].ip
       => Waits(g)
    <3>1. \A g \in Hosts : Written(g)' \in Row => Written(g)' = Written(g)
      BY <1>8, Distinct, Zenon
    <3> QED BY <3>1, Zenon DEF NoClash
  <2> QED BY <1>1, <1>6, <2>1, <2>2, <2>3, Zenon DEF NoClash
<1>11. Lifetimes'
  <2>1. \A g \in Hosts : Early(db[g]) /\ Early(batch[g]) /\ Early(pending[g])
    BY Zenon DEF Lifetimes
  <2>2. ~ (None \in Row)
    BY Distinct
  <2>3. \A g \in Hosts : Early(db'[g]) /\ Early(batch'[g])
    BY <1>2, <1>4, <2>1, <2>2, Zenon DEF Early
  <2> QED BY <1>1, <1>5, <2>1, <2>3, Zenon DEF Lifetimes, Early
<1>12. Phases'
  BY <1>1 DEF Phases
<1>13. Inv'
  BY WriterInv
<1> QED BY <1>1, <1>5, <1>9, <1>10, <1>11, <1>12, <1>13

(* The writer's sleep, the clock, and the end of the process.               *)
LEMMA LifeKept ==
  ASSUME OneAtATime, Kept,
         WriterWake \/ WriterDone \/ Shutdown \/ ShutdownDone \/ Crash \/ Tick
  PROVE  Kept'
<1> USE DEF Kept
<1>1. UNCHANGED <<byHost, byIP, db>>
  BY DEF WriterWake, WriterDone, Shutdown, ShutdownDone, Crash, Tick, Exit, memory, store
<1>2. Inv'
  BY WriterInv, LifeInv
<1>3. now \in Nat /\ now' \in Nat /\ now <= now' /\ TTL \in Nat
  <2>1. now \in Nat /\ TTL \in Nat
    BY Leased, Zenon
  <2>2. now' = now \/ now' = now + 1
    BY Zenon DEF WriterWake, WriterDone, Shutdown, ShutdownDone, Crash, Tick, Exit
  <2> QED BY <2>1, <2>2
<1>4. \A v \in Row : v.expiresAt <= now + TTL => v.expiresAt <= now' + TTL
  <2>1. \A v \in Row : v.expiresAt \in Nat
    BY DEF Row
  <2> QED BY <1>3, <2>1, Later, Zenon
<1>5. \A s \in Slots : byIP[s] # None => byIP[s].stored <= now' + TTL
  <2>1. \A l \in Lease : l.stored \in Nat
    BY DEF Lease
  <2>2. \A s \in Slots : byIP[s] # None => byIP[s].stored \in Nat /\ byIP[s].stored <= now + TTL
    BY <2>1, Leased, Zenon DEF Lifetimes
  <2> QED BY <1>3, <2>2, Later, Zenon
<1>6. CASE WriterWake \/ WriterDone \/ Shutdown \/ Tick
  <2>1. UNCHANGED <<pending, batch, pc, todo>>
    BY <1>6 DEF WriterWake, WriterDone, Shutdown, Tick, store, handler
  <2>2. Waiting' = Waiting /\ Calls'
    BY <2>1, WaitingStays
  <2>3. \A h : /\ Written(h)' = Written(h) /\ Meant(h)' = Meant(h)
               /\ Waits(h)' = Waits(h) /\ \A v : Agrees(h, v)' = Agrees(h, v)
    BY <1>1, <2>1, <2>2, Zenon DEF Written, Meant, Waits, Agrees
  <2>4. NoClash' /\ (Followed => Followed')
    BY <1>1, <2>1, <2>2, <2>3, Zenon DEF NoClash, Followed
  <2>5. Lifetimes'
    BY <1>1, <1>4, <1>5, <2>1, <2>2, Zenon DEF Lifetimes, Early
  <2>6. Phases' /\ (proc' # "crashed" => proc # "crashed")
    <3>1. CASE WriterWake
      BY <2>1, <3>1, Zenon DEF WriterWake, Phases
    <3>2. CASE WriterDone
      BY <2>1, <3>2, Zenon DEF WriterDone, Phases
    <3>3. CASE Shutdown
      <4>1. proc = "running" /\ proc' = "stopping" /\ (\A t \in Handlers : pc[t] = "idle")
            /\ UNCHANGED <<batch, flusher>>
        BY <3>3, Zenon DEF Shutdown, store, Running
      <4> QED BY <2>1, <4>1 DEF Phases
    <3>4. CASE Tick
      BY <2>1, <3>4, Zenon DEF Tick, store, Phases
    <3> QED BY <1>6, <3>1, <3>2, <3>3, <3>4
  <2> QED BY <1>2, <2>2, <2>4, <2>5, <2>6
<1>7. CASE ShutdownDone \/ Crash
  <2>1. /\ pending' = Nothing /\ batch' = Nothing /\ flusher' = "none"
        /\ ~ kick' /\ writer' = "wait"
        /\ pc' = [t \in Handlers |-> "idle"] /\ todo' = [t \in Handlers |-> << >>]
        /\ now' = now
    BY <1>7 DEF ShutdownDone, Crash, Exit
  <2>2. Calls' /\ Waiting' = {}
    <3>1. \A t \in Handlers : pc'[t] = "idle" /\ todo'[t] = << >>
      BY <2>1, Zenon
    <3>2. Len(<< >>) = 0 /\ DOMAIN << >> = {}
      OBVIOUS
    <3>3. Calls'
      BY <3>1, <3>2, Few, Zenon DEF Calls
    <3> QED BY <3>1, <3>2, <3>3, Zenon DEF Waiting
  <2>3. Phases' /\ NoClash'
    BY <2>1, Distinct, Zenon DEF Phases, NoClash, Nothing
  <2>4. Lifetimes'
    BY <1>1, <2>1, <2>2, Distinct, Zenon DEF Lifetimes, Early, Nothing
  <2>5. proc' # "crashed" => Followed'
    <3> SUFFICES ASSUME ShutdownDone PROVE Followed'
      BY <1>7 DEF Crash, Exit
    <3>1. batch = Nothing /\ pending = Nothing /\ proc = "stopping"
      BY DEF ShutdownDone, Phases
    <3>2. Waiting = {}
      BY <3>1, NothingWaits DEF Phases
    <3>3. \A h \in Hosts : Meant(h)' = Meant(h) /\ ~ Waits(h)
      BY <1>1, <2>1, <3>1, <3>2 DEF Meant, Written, Waits
    <3>4. \A h, v : Agrees(h, v)' <=> Agrees(h, v)
      BY <1>1 DEF Agrees
    <3> QED BY <2>2, <3>1, <3>3, <3>4, Zenon DEF Followed
  <2> QED BY <1>2, <2>2, <2>3, <2>4, <2>5
<1> QED BY <1>6, <1>7

(* A start reads back from the table just what it keeps there.              *)
LEMMA StartKept ==
  ASSUME OneAtATime, Kept, Start
  PROVE  Kept'
<1> USE DEF Kept
<1>1. /\ proc \in {"clean", "crashed"} /\ proc' = "running" /\ db' = DropExpired
      /\ byHost' = [h \in Hosts |-> IF h \in Restorable THEN db[h].ip ELSE None]
      /\ byIP' = [s \in Slots |-> RestoredLease(s)]
      /\ UNCHANGED <<now, pending, batch, kick, writer, flusher, pc, todo>>
  BY DEF Start, OneAtATime, handler
<1>2. /\ pending = Nothing /\ batch = Nothing /\ flusher = "none"
      /\ \A t \in Handlers : pc[t] = "idle"
  BY <1>1 DEF Phases
<1>3. Waiting' = {} /\ Calls'
  BY <1>1, <1>2, NothingWaits, WaitingStays
<1>4. \A h \in Restorable : h \in Hosts /\ db[h] \in Row /\ db[h].ip \in Slots
  BY DEF Restorable, Inv, TypeOK
<1>5. \A h \in Restorable : /\ RestoredLease(db[h].ip).stored = db[h].expiresAt
                            /\ RestoredLease(db[h].ip).expiry = db[h].expiresAt
  <2> SUFFICES ASSUME NEW h \in Restorable
               PROVE  /\ RestoredLease(db[h].ip).stored = db[h].expiresAt
                      /\ RestoredLease(db[h].ip).expiry = db[h].expiresAt
    OBVIOUS
  <2>1. {g \in Restorable : db[g].ip = db[h].ip} = {h}
    BY <1>4, Distinct DEF Inv, OneHostPerAddress
  <2>2. RestoredLease(db[h].ip) =
          [host |-> h, expiry |-> db[h].expiresAt, stored |-> db[h].expiresAt]
    BY <2>1 DEF RestoredLease
  <2> QED BY <2>2
<1>6. \A s \in Slots : RestoredLease(s) # None =>
        \E h \in Restorable : db[h].ip = s
  BY DEF RestoredLease
<1>7. \A h \in Hosts : Written(h)' = db'[h] /\ Meant(h)' = db'[h]
  BY <1>1, <1>2 DEF Written, Meant, Nothing
<1>8. Followed'
  <2> SUFFICES ASSUME NEW h \in Hosts, NEW v, v = db'[h] PROVE Agrees(h, v)'
    BY <1>3, <1>7, Zenon DEF Followed
  <2>1. CASE h \in Restorable
    <3>1. byHost'[h] = db[h].ip /\ byHost'[h] \in Slots
      BY <1>1, <1>4, <2>1
    <3>2. byIP'[byHost'[h]].stored = db[h].expiresAt
      <4>1. byIP'[byHost'[h]] = RestoredLease(db[h].ip)
        BY <1>1, <3>1
      <4> QED BY <1>5, <2>1, <4>1
    <3>3. db'[h] = db[h]
      <4>1. db[h].expiresAt > now /\ now \in Nat /\ db[h].expiresAt \in Nat
        BY <1>4, <2>1 DEF Restorable, Row, Inv, TypeOK
      <4>2. ~ (db[h].expiresAt <= now)
        BY <4>1, Ahead, Zenon
      <4> QED BY <1>1, <4>2 DEF DropExpired
    <3> QED BY <1>4, <2>1, <3>1, <3>2, <3>3, Distinct, Zenon DEF Agrees
  <2>2. CASE h \notin Restorable
    <3>1. byHost'[h] = None
      BY <1>1, <2>2, Zenon
    <3>2. ASSUME db'[h] \in Row PROVE db'[h].ip \notin Slots
      <4>1. db'[h] = db[h] /\ ~ (db[h].expiresAt <= now)
        BY <1>1, <3>2, Distinct, Zenon DEF DropExpired
      <4>2. now \in Nat /\ db[h].expiresAt \in Nat
        BY <3>2, <4>1, Zenon DEF Row, Inv, TypeOK
      <4>3. db[h].expiresAt > now
        BY <4>1, <4>2, Ahead, Zenon
      <4>4. db[h] # None
        BY <3>2, <4>1, Distinct, Zenon
      <4> QED BY <2>2, <4>1, <4>3, <4>4, Zenon DEF Restorable
    <3> QED BY <3>1, <3>2 DEF Agrees
  <2> QED BY <2>1, <2>2
<1>9. NoClash'
  BY <1>1, <1>2, Distinct, Zenon DEF NoClash, Nothing
<1>10. Lifetimes'
  <2>1. \A h \in Hosts : Early(db[h]) /\ (db'[h] = db[h] \/ db'[h] = None)
    BY <1>1, Zenon DEF Lifetimes, DropExpired
  <2>2. \A h \in Hosts : Early(db'[h]) /\ Early(batch'[h]) /\ Early(pending'[h])
    BY <1>1, <1>2, <2>1, Distinct, Zenon DEF Early, Nothing
  <2>3. ASSUME NEW s \in Slots, byIP'[s] # None
        PROVE  /\ byIP'[s].stored <= now + TTL
               /\ byIP'[s].expiry - byIP'[s].stored \in 0 .. TTL \div 4
    <3>1. PICK h \in Restorable : db[h].ip = s
      BY <1>1, <1>6, <2>3
    <3>2. byIP'[s].stored = db[h].expiresAt /\ byIP'[s].expiry = db[h].expiresAt
      <4>1. byIP'[s] = RestoredLease(db[h].ip)
        BY <1>1, <3>1
      <4> QED BY <1>5, <4>1
    <3>3. db[h].expiresAt \in Nat /\ db[h].expiresAt <= now + TTL
      BY <1>4, <2>1 DEF Early, Row
    <3>4. 0 \in 0 .. TTL \div 4 /\ \A n \in Nat : n - n = 0
      BY Arithmetic
    <3> QED BY <3>2, <3>3, <3>4
  <2>4. \A v : Early(v)' <=> Early(v)
    BY <1>1 DEF Early
  <2> QED BY <1>1, <1>3, <2>2, <2>3, <2>4, Zenon DEF Lifetimes, Early
<1>11. Phases'
  BY <1>1, <1>2 DEF Phases
<1>12. Inv'
  BY StartInv
<1> QED BY <1>3, <1>8, <1>9, <1>10, <1>11, <1>12

LEMMA InitKept == Init => Kept
<1> SUFFICES ASSUME Init PROVE Kept
  OBVIOUS
<1>1. Inv
  BY InitInv
<1>2. Calls /\ Waiting = {}
  BY DEF Init, Calls, Waiting
<1>3. Phases /\ NoClash /\ proc = "crashed"
  BY Distinct DEF Init, Phases, NoClash, Nothing
<1>4. Lifetimes
  <2>1. \A h \in Hosts : db[h] # None => db[h].expiresAt = TTL
    <3>1. CASE db = Nothing
      BY <3>1 DEF Nothing
    <3>2. CASE \E g \in Hosts, a \in Addresses :
                 db = [Nothing EXCEPT ![g] = [ip |-> a, expiresAt |-> TTL]]
      BY <3>2 DEF Nothing
    <3>3. db \in ForeignTables
      BY DEF Init
    <3> QED BY <3>1, <3>2, <3>3 DEF ForeignTables
  <2>2. now + TTL = TTL
    BY Arithmetic DEF Init
  <2>3. \A h \in Hosts : Early(db[h]) /\ Early(batch[h]) /\ Early(pending[h])
    <3>1. TTL <= TTL
      BY Arithmetic
    <3> QED BY <2>1, <2>2, <3>1, Distinct, Zenon DEF Init, Early, Nothing
  <2> QED BY <1>2, <2>3, Zenon DEF Lifetimes, Init
<1> QED BY <1>1, <1>2, <1>3, <1>4 DEF Kept

LEMMA StepKept ==
  ASSUME OneAtATime, Kept, [Next]_vars
  PROVE  Kept'
<1>1. CASE UNCHANGED vars
  <2>1. Inv'
    BY <1>1, StepInv DEF Kept
  <2>2. Waiting' = Waiting /\ Calls'
    BY <1>1, WaitingStays DEF vars, handler, Kept
  <2>3. \A h : /\ Written(h)' = Written(h) /\ Meant(h)' = Meant(h)
               /\ Waits(h)' = Waits(h) /\ \A v : Agrees(h, v)' = Agrees(h, v)
    BY <1>1, <2>2, Zenon DEF vars, memory, store, Written, Meant, Waits, Agrees
  <2>4. NoClash' /\ (proc' # "crashed" => Followed')
    BY <1>1, <2>2, <2>3, Zenon DEF vars, memory, store, NoClash, Followed, Kept
  <2>5. Lifetimes' /\ Phases'
    BY <1>1, <2>2, Zenon DEF vars, memory, store, handler, Lifetimes, Early, Phases, Kept
  <2> QED BY <2>1, <2>2, <2>4, <2>5 DEF Kept
<1>2. CASE Next
  BY <1>2, StartKept, LifeKept, RefreshKept, AllocateKept, QueueKept, SendKept, ReleaseKept,
     StealKept, FlushKept DEF Next
<1> QED BY <1>1, <1>2

(* Served one query at a time over a store that does not fail, the table    *)
(* says of every host what the pool says whenever the writer has caught up, *)
(* however evictions, releases, refreshes and flushes interleave and        *)
(* however often the process stops, dies and restores: queue's "last write  *)
(* per host wins" and the two passes of flush never leave a stale row.      *)
THEOREM StoreMatches ==
  ASSUME OneAtATime
  PROVE  Spec => []StoreMatchesPool
<1>1. Kept => StoreMatchesPool
  <2> SUFFICES ASSUME Kept, Settled, NEW h \in Hosts
               PROVE  IF byHost[h] # None
                      THEN /\ db[h] # None /\ db[h].ip = byHost[h]
                           /\ byIP[byHost[h]].expiry - db[h].expiresAt \in 0 .. TTL \div 4
                      ELSE db[h] = None \/ db[h].ip \notin Slots
    BY Zenon DEF StoreMatchesPool
  <2>1. Waiting = {}
    <3>1. \A t \in Handlers : pc[t] \in {"idle", "route"}
      BY DEF Settled, Kept, Inv, TypeOK
    <3> QED BY <3>1, NothingWaits DEF Kept
  <2>2. Meant(h) = db[h]
    BY DEF Settled, Kept, Phases, Meant, Written, Nothing
  <2>3. Agrees(h, db[h])
    BY <2>1, <2>2 DEF Settled, Running, Kept, Followed, Waits
  <2>4. CASE byHost[h] = None
    BY <2>3, <2>4 DEF Agrees, Kept, Inv, TypeOK
  <2>5. CASE byHost[h] # None
    <3>1. Inv /\ Lifetimes
      BY DEF Kept
    <3> QED BY <2>3, <2>5, <3>1, Leased, Distinct, Zenon DEF Agrees, Lifetimes
  <2> QED BY <2>4, <2>5, Zenon
<1>2. Kept /\ [Next]_vars => Kept'
  BY StepKept
<1> QED BY <1>1, <1>2, InitKept, PTL DEF Spec

(* Under the same conditions a clean stop loses no lease: Shutdown's flush  *)
(* has landed every one, so the next start puts each whose stored expiry is *)
(* ahead back on its slot.                                                  *)
THEOREM CleanRestart ==
  ASSUME OneAtATime
  PROVE  Spec => CleanRestartKeepsLeases
<1> DEFINE Back == proc = "clean" /\ Running' =>
             \A h \in Hosts : byHost[h] # None /\ byIP[byHost[h]].stored > now =>
               byHost'[h] = byHost[h]
<1>1. Kept /\ [Next]_vars => [Back]_vars
  <2> SUFFICES ASSUME Kept, Next, proc = "clean", proc' = "running",
                      NEW h \in Hosts, byHost[h] # None, byIP[byHost[h]].stored > now
               PROVE  byHost'[h] = byHost[h]
    BY DEF Running
  <2>1. Start
    BY DEF Next, Shutdown, Crash, Tick, Refresh, Allocate, Queue, Kick, Deliver, Release, WriterWake,
           WriterDone, ShutdownDone, Steal, FlushDelete, FlushPut, Exit, Running
  <2>2. /\ pending = Nothing /\ batch = Nothing /\ \A t \in Handlers : pc[t] = "idle"
        /\ Followed
    BY DEF Kept, Phases
  <2>3. Waiting = {}
    BY <2>2, NothingWaits DEF Kept
  <2>4. Agrees(h, db[h])
    BY <2>2, <2>3, Zenon DEF Followed, Waits, Meant, Written, Nothing
  <2>5. h \in Restorable /\ db[h].ip = byHost[h]
    BY <2>4, Distinct, Zenon DEF Agrees, Restorable, Kept, Inv, TypeOK
  <2> QED BY <2>1, <2>5, Zenon DEF Start, OneAtATime
<1>2. Kept /\ [Next]_vars => Kept'
  BY StepKept
<1> QED BY <1>1, <1>2, InitKept, PTL DEF Spec, CleanRestartKeepsLeases
=============================================================================
