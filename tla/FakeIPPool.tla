----------------------------- MODULE FakeIPPool -----------------------------
(***************************************************************************)
(* The fake-IP pool of the DNS proxy (core/dnsproxy/fakeip.go) with its     *)
(* write-behind store (core/rules/fakeip.go): hostnames lease synthetic     *)
(* addresses, leases outlive the process through a table that a background  *)
(* writer fills, and the process may crash between any two steps.           *)
(*                                                                         *)
(* Addresses are offsets from the first address of the block, so the block  *)
(* is 0 .. Size-1 and -1 and Size stand for the addresses on either side    *)
(* of it.  Time is a counter; a lease lives TTL ticks.                      *)
(***************************************************************************)
EXTENDS Integers, Sequences, FiniteSets

CONSTANTS
  Hosts,          \* hostnames bound to a proxy: or xray: rule
  Handlers,       \* goroutines of the DNS server, each serving one query
  Size,           \* number of addresses in the block (fakeIPPool.size)
  TTL,            \* lease lifetime in ticks (fakeIPPool.ttl)
  MaxTime,        \* bound: the clock stops here
  MaxRestarts,    \* bound: how often the process may come back
  StoreMayFail,   \* whether SQLite calls may return an error
  None,           \* absent map entry / row
  Delete          \* a nil *FakeIPLease in pending: the row is to be deleted

Slots     == 1 .. Size - 1
Addresses == -1 .. Size
Lease     == [host : Hosts, expiry : Nat, stored : Nat]
Row       == [ip : Addresses, expiresAt : Nat]
Write     == [host : Hosts, want : Row \cup {Delete}]

ASSUME BlockAssumption == Size \in Nat /\ Size >= 2
ASSUME TTLAssumption   == TTL \in Nat /\ TTL >= 1
ASSUME AbsentAssumption ==
  /\ None \notin Slots \cup Lease \cup Row
  /\ Delete \notin Row \cup {None}
ASSUME BoundsAssumption ==
  MaxTime \in Nat /\ MaxRestarts \in Nat /\ StoreMayFail \in BOOLEAN

VARIABLES
  now, restarts,
  proc,       \* "running", "stopping" (Shutdown was called), "clean", "crashed"
  byHost,     \* host -> the slot it holds
  byIP,       \* slot -> the lease on it (both maps point at one fakeLease)
  cursor,
  pending,    \* wanted store state per host, not yet picked up by a flush
  batch,      \* the writes of the flush in progress, not yet made
  kick,       \* the buffered wake-up channel
  writer,     \* writeLoop: "wait" on kick or "woken"
  flusher,    \* holder of flushMu: "none", "writer" or "shutdown"
  db,         \* table fake_ip_leases
  pc, query, todo    \* per handler: where it is, its answer, its queue calls

memory  == <<byHost, byIP, cursor>>
store   == <<pending, batch, kick, writer, flusher, db>>
handler == <<pc, query, todo>>
vars    == <<now, restarts, proc, memory, store, handler>>

Running == proc = "running"
Live(s) == byIP[s] # None /\ byIP[s].expiry > now
NoAnswer == [host |-> None, ip |-> None]
Answer == [host : Hosts, ip : Slots]
Nothing == [h \in Hosts |-> None]

TypeOK ==
  /\ now \in Nat /\ restarts \in Nat
  /\ proc \in {"running", "stopping", "clean", "crashed"}
  /\ byHost \in [Hosts -> Slots \cup {None}]
  /\ byIP \in [Slots -> Lease \cup {None}]
  /\ cursor \in 0 .. Size - 1
  /\ pending \in [Hosts -> Row \cup {None, Delete}]
  /\ batch \in [Hosts -> Row \cup {None, Delete}]
  /\ kick \in BOOLEAN
  /\ writer \in {"wait", "woken"}
  /\ flusher \in {"none", "writer", "shutdown"}
  /\ db \in [Hosts -> Row \cup {None}]
  /\ pc \in [Handlers -> {"idle", "queue", "kick", "route"}]
  /\ query \in [Handlers -> Answer \cup {NoAnswer}]
  /\ todo \in [Handlers -> Seq(Write)]

-----------------------------------------------------------------------------
(* The table may hold one row written under another block: the range can be *)
(* reconfigured between two runs of the daemon.                             *)
ForeignTables ==
  {Nothing} \cup
  {[Nothing EXCEPT ![h] = [ip |-> a, expiresAt |-> TTL]] :
     h \in Hosts, a \in Addresses \ Slots}

Init ==
  /\ now = 0 /\ restarts = 0 /\ proc = "crashed"
  /\ byHost = Nothing /\ byIP = [s \in Slots |-> None] /\ cursor = 0
  /\ pending = Nothing /\ batch = Nothing /\ kick = FALSE
  /\ writer = "wait" /\ flusher = "none"
  /\ db \in ForeignTables
  /\ pc = [t \in Handlers |-> "idle"]
  /\ query = [t \in Handlers |-> NoAnswer]
  /\ todo = [t \in Handlers |-> << >>]

(* restore: the rows still live that fall inside the block come back; the   *)
(* unique index on ip leaves no duplicate for "first row wins" to settle.   *)
Restorable == {h \in Hosts : /\ db[h] # None
                             /\ db[h].expiresAt > now
                             /\ db[h].ip \in Slots}

RestoredLease(s) ==
  LET owners == {h \in Restorable : db[h].ip = s}
  IN  IF owners = {} THEN None
      ELSE LET h == CHOOSE h \in owners : TRUE
           IN  [host |-> h, expiry |-> db[h].expiresAt, stored |-> db[h].expiresAt]

(* The slot after the highest restored one; offset 1 when there is none.    *)
CursorAfter(offsets) ==
  (1 + CHOOSE m \in offsets \cup {0} : \A o \in offsets \cup {0} : o <= m) % Size

DropExpired ==
  [h \in Hosts |-> IF db[h] # None /\ db[h].expiresAt <= now THEN None ELSE db[h]]

(* New builds the pool and restores it before a listener is up.             *)
Start ==
  /\ proc \in {"clean", "crashed"}
  /\ restarts < MaxRestarts
  /\ restarts' = restarts + 1
  /\ proc' = "running"
  /\ \/ /\ byHost' = [h \in Hosts |-> IF h \in Restorable THEN db[h].ip ELSE None]
        /\ byIP' = [s \in Slots |-> RestoredLease(s)]
        /\ cursor' = CursorAfter({db[h].ip : h \in Restorable})
        /\ db' \in {DropExpired} \cup (IF StoreMayFail THEN {db} ELSE {})
     \/ /\ StoreMayFail
        /\ byHost' = Nothing /\ byIP' = [s \in Slots |-> None] /\ cursor' = 0
        /\ UNCHANGED db
  /\ UNCHANGED <<now, pending, batch, kick, writer, flusher, handler>>

-----------------------------------------------------------------------------
(* allocate: the in-memory half of Allocate, under p.mu.                    *)

(* Reusable with a bug: a lease is reclaimed one tick before it expires.    *)
ReusableEarly(s) == ~ (byIP[s] # None /\ byIP[s].expiry > now + 1)

(* A slot is free, or its lease has run out.                                *)
Reusable(s) == ~ Live(s)

(* The scan: first usable slot at or after the cursor, offset 0 skipped.    *)
ScanOffset(i) == (cursor + i) % Size
ScanStops(i) ==
  /\ ScanOffset(i) \in Slots /\ Reusable(ScanOffset(i))
  /\ \A j \in 0 .. i - 1 :
       ScanOffset(j) \in Slots => ~ Reusable(ScanOffset(j))

Begin(t, h, s, writes) ==
  /\ query' = [query EXCEPT ![t] = [host |-> h, ip |-> s]]
  /\ todo' = [todo EXCEPT ![t] = writes]
  /\ pc' = [pc EXCEPT ![t] = IF writes = << >> THEN "route" ELSE "queue"]

Put(h, s) == [host |-> h, want |-> [ip |-> s, expiresAt |-> now + TTL]]
Drop(h)   == [host |-> h, want |-> Delete]

(* WorthWriting with a bug: a refresh is written back only after a whole    *)
(* lease.                                                                   *)
WorthWritingLate(s) == now + TTL - byIP[s].stored > TTL

(* A refresh is written back once it has drifted more than a quarter lease. *)
WorthWriting(s) == now + TTL - byIP[s].stored > TTL \div 4

Refresh(t, h) ==
  /\ Running /\ pc[t] = "idle" /\ byHost[h] # None
  /\ LET s == byHost[h] IN
       /\ byIP' = [byIP EXCEPT ![s].expiry = now + TTL,
                               ![s].stored = IF WorthWriting(s) THEN now + TTL ELSE @]
       /\ Begin(t, h, s, IF WorthWriting(s) THEN <<Put(h, s)>> ELSE << >>)
  /\ UNCHANGED <<now, restarts, proc, byHost, cursor, store>>

(* Evict with a bug: the old host keeps its entry.                          *)
EvictOneMap(s) == byHost

(* Reclaiming a slot takes the old host's entry out of byHost too.          *)
Evict(s) == IF byIP[s] = None THEN byHost
            ELSE [byHost EXCEPT ![byIP[s].host] = None]

Allocate(t, h) ==
  /\ Running /\ pc[t] = "idle" /\ byHost[h] = None
  /\ \E i \in 0 .. Size - 1 :
       /\ ScanStops(i)
       /\ LET s == ScanOffset(i) IN
            /\ byHost' = [Evict(s) EXCEPT ![h] = s]
            /\ byIP' = [byIP EXCEPT ![s] =
                 [host |-> h, expiry |-> now + TTL, stored |-> now + TTL]]
            /\ cursor' = (s + 1) % Size
            /\ Begin(t, h, s, IF byIP[s] = None THEN <<Put(h, s)>>
                              ELSE <<Drop(byIP[s].host), Put(h, s)>>)
  /\ UNCHANGED <<now, restarts, proc, store>>

(* queue: pending is set under wmu, then the writer is woken; both happen   *)
(* outside p.mu.                                                            *)
Queue(t) ==
  /\ pc[t] = "queue"
  /\ pending' = [pending EXCEPT ![Head(todo[t]).host] = Head(todo[t]).want]
  /\ pc' = [pc EXCEPT ![t] = "kick"]
  /\ UNCHANGED <<now, restarts, proc, memory, batch, kick, writer, flusher, db,
                 query, todo>>

(* The last write of a release ends the query, that of an allocation leads  *)
(* on to the route install.                                                 *)
AfterQueue(t) ==
  IF Len(todo[t]) > 1 THEN "queue"
  ELSE IF query[t] = NoAnswer THEN "idle" ELSE "route"

(* Kick with a bug: an unbuffered channel drops the wake-up of a busy       *)
(* writer.                                                                  *)
KickUnbuffered(t) ==
  /\ pc[t] = "kick"
  /\ kick' = (writer = "wait")
  /\ pc' = [pc EXCEPT ![t] = AfterQueue(t)]
  /\ todo' = [todo EXCEPT ![t] = Tail(@)]
  /\ UNCHANGED <<now, restarts, proc, memory, pending, batch, writer, flusher, db,
                 query>>

Kick(t) ==
  /\ pc[t] = "kick"
  /\ kick' = TRUE
  /\ pc' = [pc EXCEPT ![t] = AfterQueue(t)]
  /\ todo' = [todo EXCEPT ![t] = Tail(@)]
  /\ UNCHANGED <<now, restarts, proc, memory, pending, batch, writer, flusher, db,
                 query>>

(* handleFakeIP after Allocate: the route install succeeds and the client   *)
(* is answered, or it fails and the host's lease is released.               *)
Deliver(t) ==
  /\ pc[t] = "route"
  /\ pc' = [pc EXCEPT ![t] = "idle"]
  /\ query' = [query EXCEPT ![t] = NoAnswer]
  /\ UNCHANGED <<now, restarts, proc, memory, store, todo>>

Release(t) ==
  /\ pc[t] = "route"
  /\ LET h == query[t].host IN
       IF byHost[h] = None
       THEN /\ pc' = [pc EXCEPT ![t] = "idle"]
            /\ UNCHANGED <<byHost, byIP, todo>>
       ELSE /\ byHost' = [byHost EXCEPT ![h] = None]
            /\ byIP' = [byIP EXCEPT ![byHost[h]] = None]
            /\ todo' = [todo EXCEPT ![t] = <<Drop(h)>>]
            /\ pc' = [pc EXCEPT ![t] = "queue"]
  /\ query' = [query EXCEPT ![t] = NoAnswer]
  /\ UNCHANGED <<now, restarts, proc, cursor, store>>

-----------------------------------------------------------------------------
(* The write-behind half: writeLoop and flush.                              *)

WriterWake ==
  /\ kick /\ writer = "wait"
  /\ kick' = FALSE /\ writer' = "woken"
  /\ UNCHANGED <<now, restarts, proc, memory, pending, batch, flusher, db,
                 handler>>

(* flush takes flushMu and the whole pending map.                           *)
Steal(f) ==
  /\ flusher = "none"
  /\ \/ f = "writer" /\ writer = "woken"
     \/ f = "shutdown" /\ proc = "stopping"
  /\ flusher' = f
  /\ batch' = pending /\ pending' = Nothing
  /\ UNCHANGED <<now, restarts, proc, memory, kick, writer, db, handler>>

(* Upsert with a bug: the other holder of the address keeps its row.        *)
UpsertOnly(h, row) == [db EXCEPT ![h] = row]

(* PutFakeIPLease: one transaction drops the other holder and upserts.      *)
Upsert(h, row) ==
  [g \in Hosts |-> IF g = h THEN row
                   ELSE IF db[g] # None /\ db[g].ip = row.ip THEN None
                   ELSE db[g]]

FlushDelete(h) ==
  /\ flusher # "none" /\ batch[h] = Delete
  /\ batch' = [batch EXCEPT ![h] = None]
  /\ db' \in {[db EXCEPT ![h] = None]} \cup (IF StoreMayFail THEN {db} ELSE {})
  /\ UNCHANGED <<now, restarts, proc, memory, pending, kick, writer, flusher,
                 handler>>

FlushPut(h) ==
  /\ flusher # "none" /\ batch[h] \in Row
  /\ \A g \in Hosts : batch[g] # Delete
  /\ batch' = [batch EXCEPT ![h] = None]
  /\ db' \in {Upsert(h, batch[h])} \cup (IF StoreMayFail THEN {db} ELSE {})
  /\ UNCHANGED <<now, restarts, proc, memory, pending, kick, writer, flusher,
                 handler>>

(* WriterDone with a bug: the writer empties the channel when it is done.   *)
WriterDoneDrains ==
  /\ flusher = "writer" /\ batch = Nothing
  /\ flusher' = "none" /\ writer' = "wait" /\ kick' = FALSE
  /\ UNCHANGED <<now, restarts, proc, memory, pending, batch, db, handler>>

(* The writer's flush returns to writeLoop.                                 *)
WriterDone ==
  /\ flusher = "writer" /\ batch = Nothing
  /\ flusher' = "none" /\ writer' = "wait"
  /\ UNCHANGED <<now, restarts, proc, memory, pending, batch, kick, db, handler>>

-----------------------------------------------------------------------------
(* The process ends: everything but the table is gone.  The dead maps keep  *)
(* their values until Start overwrites them, for the properties to look at. *)
Exit(how) ==
  /\ proc' = how
  /\ pending' = Nothing /\ batch' = Nothing /\ kick' = FALSE
  /\ writer' = "wait" /\ flusher' = "none"
  /\ pc' = [t \in Handlers |-> "idle"]
  /\ query' = [t \in Handlers |-> NoAnswer]
  /\ todo' = [t \in Handlers |-> << >>]
  /\ UNCHANGED <<now, restarts, memory, db>>

(* Shutdown with a bug: the process exits without a last flush.             *)
ShutdownNoFlush ==
  Running /\ (\A t \in Handlers : pc[t] = "idle") /\ Exit("clean")

(* Server.Shutdown stops the listeners, which waits for their handlers,     *)
(* and then flushes.                                                        *)
Shutdown ==
  /\ Running /\ \A t \in Handlers : pc[t] = "idle"
  /\ proc' = "stopping"
  /\ UNCHANGED <<now, restarts, memory, store, handler>>

ShutdownDone == flusher = "shutdown" /\ batch = Nothing /\ Exit("clean")

Crash == proc \in {"running", "stopping"} /\ Exit("crashed")

Tick ==
  /\ now < MaxTime
  /\ now' = now + 1
  /\ UNCHANGED <<restarts, proc, memory, store, handler>>

Next ==
  \/ Start \/ Shutdown \/ Crash \/ Tick
  \/ \E t \in Handlers, h \in Hosts : Refresh(t, h) \/ Allocate(t, h)
  \/ \E t \in Handlers : Queue(t) \/ Kick(t) \/ Deliver(t) \/ Release(t)
  \/ WriterWake \/ WriterDone \/ ShutdownDone
  \/ \E f \in {"writer", "shutdown"} : Steal(f)
  \/ \E h \in Hosts : FlushDelete(h) \/ FlushPut(h)

Spec == Init /\ [][Next]_vars

(* The writer and the flush of a shutdown, which take turns on flushMu, get *)
(* on as long as one of them can, and so does a queue call in progress;     *)
(* queries, crashes and the clock owe nothing.                              *)
StoreStep ==
  \/ WriterWake \/ WriterDone \/ ShutdownDone
  \/ \E f \in {"writer", "shutdown"} : Steal(f)
  \/ \E h \in Hosts : FlushDelete(h) \/ FlushPut(h)

Fairness == WF_vars(StoreStep) /\ \A t \in Handlers : WF_vars(Kick(t))

FairSpec == Spec /\ Fairness

-----------------------------------------------------------------------------
(* Properties                                                               *)

(* The two maps describe one set of leases: a host's slot carries that      *)
(* host's lease and a lease's host holds that slot (allocate and Release    *)
(* edit byHost and byIP separately).                                        *)
LeaseMapsAgree ==
  /\ \A h \in Hosts : byHost[h] # None =>
       byIP[byHost[h]] # None /\ byIP[byHost[h]].host = h
  /\ \A s \in Slots : byIP[s] # None => byHost[byIP[s].host] = s

(* While the process runs, a slot under a live lease never passes from one  *)
(* host straight to another, whichever handlers interleave (the scan of     *)
(* allocate skips it).                                                      *)
LiveLeaseKept ==
  [][Running /\ Running' =>
       \A s \in Slots : Live(s) /\ byIP'[s] # None =>
         byIP'[s].host = byIP[s].host]_vars

(* A write is never left behind: while pending holds one, the wake-up is in *)
(* the channel, about to be put there, or consumed by a writer that has not *)
(* taken the map yet (queue, writeLoop and flush share no lock around it).  *)
NoLostWakeup ==
  pending # Nothing =>
    \/ kick
    \/ writer = "woken" /\ flusher # "writer"
    \/ \E t \in Handlers : pc[t] = "kick"

(* The table never gives one address to two hosts, so restore never has a   *)
(* duplicate to drop (PutFakeIPLease evicts the other holder first).        *)
OneHostPerAddress ==
  \A g, h \in Hosts : g # h /\ db[g] # None /\ db[h] # None =>
    db[g].ip # db[h].ip

Settled ==
  /\ Running /\ flusher = "none" /\ pending = Nothing
  /\ \A t \in Handlers : pc[t] \notin {"queue", "kick"}

(* Once the writer has caught up, the table describes the pool: the same    *)
(* bindings, with expiries that trail by at most a quarter of a lease (what *)
(* the comment on pending promises of writes applied in any order).         *)
StoreMatchesPool ==
  Settled => \A h \in Hosts :
    IF byHost[h] # None
    THEN /\ db[h] # None /\ db[h].ip = byHost[h]
         /\ byIP[byHost[h]].expiry - db[h].expiresAt \in 0 .. TTL \div 4
    ELSE db[h] = None \/ db[h].ip \notin Slots

(* A clean stop loses nothing: every lease whose stored expiry is still     *)
(* ahead comes back on its slot (Shutdown lands the write-behind state).    *)
CleanRestartKeepsLeases ==
  [][proc = "clean" /\ Running' =>
       \A h \in Hosts : byHost[h] # None /\ byIP[byHost[h]].stored > now =>
         byHost'[h] = byHost[h]]_vars

(* A wanted write is eventually taken up by a flush, unless the process     *)
(* dies first (queue never blocks and never drops its wake-up).             *)
WritesAreTakenUp ==
  \A h \in Hosts : pending[h] # None ~> pending[h] = None

(* What concurrent handlers, a failing store and crashes cannot break.      *)
LeasesAreSafe ==
  LiveLeaseKept /\ []LeaseMapsAgree /\ []OneHostPerAddress /\ []NoLostWakeup
=============================================================================
