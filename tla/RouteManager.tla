---------------------------- MODULE RouteManager ----------------------------
(***************************************************************************)
(* The route manager (core/routing/routing.go): the daemon's record of the *)
(* destinations it has pinned to an interface, and the kernel table it     *)
(* edits through /sbin/route.  The manager's lock covers only the map, so  *)
(* every operation is a few steps and callers interleave between them.     *)
(*                                                                         *)
(* Callers are DNS handlers (Install), rule edits (InstallStatic,          *)
(* RemoveByRule) and shutdown (Flush); a caller runs any of these, one at  *)
(* a time.  One more goroutine sweeps, and live connections call Extend.   *)
(* A sequential instance lets one goroutine do everything (Sweeper is then *)
(* the only caller).                                                       *)
(***************************************************************************)
EXTENDS Integers, FiniteSets

CONSTANTS
  Dests,           \* destination addresses (map keys of Manager.routes)
  Ifaces,          \* interfaces a rule may name, OwnTun among them
  OwnTun,          \* the daemon's utun: it dies with the process
  DomainRules,     \* IDs of rules whose routes come from DNS answers (Install)
  IPRules,         \* IDs of IP and CIDR rules (InstallStatic)
  Callers,         \* goroutines that install and remove routes
  Sweeper,         \* the goroutine of the sweep ticker
  TTL,             \* lifetime Install and Extend grant, in ticks
  MaxTime,         \* bound: the clock stops here
  MaxCrashes,      \* bound: how often the process may die
  AddMayFail,      \* whether `route add` may fail on every attempt, or time out
  DeleteMayFail,   \* whether `route delete` may fail
  None

Rules   == DomainRules \cup IPRules
Workers == Callers \cup {Sweeper}
Entry == [iface : Ifaces, expiresAt : Nat, rule : Rules, static : BOOLEAN]
Op    == [dest : Dests, iface : Ifaces, rule : Rules, static : BOOLEAN]

ASSUME IfaceAssumption  == OwnTun \in Ifaces
ASSUME RulesAssumption  == DomainRules \cap IPRules = {}
ASSUME AbsentAssumption == None \notin Ifaces \cup Entry \cup Op \cup Dests
ASSUME TTLAssumption    == TTL \in Nat
ASSUME BoundsAssumption ==
  MaxTime \in Nat /\ MaxCrashes \in Nat /\ AddMayFail \in BOOLEAN /\ DeleteMayFail \in BOOLEAN

VARIABLES
  now, crashes,
  routes,     \* Manager.routes: dest -> entry
  kernel,     \* the kernel's table: dest -> interface
  pc,         \* per worker: "idle", "replace", "add", "record", "remove", "unpin"
  op,         \* per worker: the route being installed
  todo,       \* per worker: destinations a removal still has to visit
  why,        \* per worker: what the removal is for
  victim      \* per worker: the destination being taken out of the kernel

work == <<pc, op, todo, why, victim>>
vars == <<now, crashes, routes, kernel, work>>

TypeOK ==
  /\ now \in Nat /\ crashes \in Nat
  /\ routes \in [Dests -> Entry \cup {None}]
  /\ kernel \in [Dests -> Ifaces \cup {None}]
  /\ pc \in [Workers -> {"idle", "replace", "add", "record", "remove", "unpin"}]
  /\ op \in [Workers -> Op \cup {None}]
  /\ todo \in [Workers -> SUBSET Dests]
  /\ why \in [Workers -> {"nothing", "rule", "sweep", "flush"}]
  /\ victim \in [Workers -> Dests \cup {None}]
  /\ \A w \in Workers :
       /\ pc[w] \in {"replace", "add", "record"} => op[w] \in Op
       /\ pc[w] = "unpin" => victim[w] \in Dests

Init ==
  /\ now = 0 /\ crashes = 0
  /\ routes = [d \in Dests |-> None] /\ kernel = [d \in Dests |-> None]
  /\ pc = [w \in Workers |-> "idle"] /\ op = [w \in Workers |-> None]
  /\ todo = [w \in Workers |-> {}]   /\ why = [w \in Workers |-> "nothing"]
  /\ victim = [w \in Workers |-> None]

-----------------------------------------------------------------------------
(* Install and InstallStatic: look the destination up, unlock, clear a      *)
(* route that points elsewhere, add, lock again and record.                 *)
BeginInstall(w, d, i, r) ==
  /\ pc[w] = "idle"
  /\ op' = [op EXCEPT ![w] = [dest |-> d, iface |-> i, rule |-> r, static |-> r \in IPRules]]
  /\ pc' = [pc EXCEPT ![w] = IF routes[d] # None /\ routes[d].iface # i
                             THEN "replace" ELSE "add"]
  /\ UNCHANGED <<now, crashes, routes, kernel, todo, why, victim>>

(* removeOne: "not in table" is success, any other failure is ignored here. *)
Deleted(d) == {[kernel EXCEPT ![d] = None]} \cup (IF DeleteMayFail THEN {kernel} ELSE {})

(* A route to another interface is cleared before the new one is added.     *)
Replace(w) ==
  /\ pc[w] = "replace"
  /\ kernel' \in Deleted(op[w].dest)
  /\ pc' = [pc EXCEPT ![w] = "add"]
  /\ UNCHANGED <<now, crashes, routes, op, todo, why, victim>>

(* `route add` leaves an existing route alone and says "File exists", which *)
(* the manager takes for success.                                           *)
Added(d, i) == IF kernel[d] = None THEN [kernel EXCEPT ![d] = i] ELSE kernel

Add(w) ==
  /\ pc[w] = "add"
  /\ kernel' = Added(op[w].dest, op[w].iface)
  /\ pc' = [pc EXCEPT ![w] = "record"]
  /\ UNCHANGED <<now, crashes, routes, op, todo, why, victim>>

(* Every attempt failed, or the caller's context ran out and killed the     *)
(* command before it took effect: Install returns an error and leaves the   *)
(* map as it is, also when it has just cleared the old route.               *)
AddFails(w) ==
  /\ pc[w] = "add" /\ AddMayFail
  /\ pc' = [pc EXCEPT ![w] = "idle"] /\ op' = [op EXCEPT ![w] = None]
  /\ UNCHANGED <<now, crashes, routes, kernel, todo, why, victim>>

(* Install grants a lifetime; InstallStatic leaves the expiry at zero.       *)
NewEntry(o) == [iface |-> o.iface, rule |-> o.rule, static |-> o.static,
                expiresAt |-> IF o.static THEN 0 ELSE now + TTL]

Record(w) ==
  /\ pc[w] = "record"
  /\ routes' = [routes EXCEPT ![op[w].dest] = NewEntry(op[w])]
  /\ pc' = [pc EXCEPT ![w] = "idle"] /\ op' = [op EXCEPT ![w] = None]
  /\ UNCHANGED <<now, crashes, kernel, todo, why, victim>>

(* Extend re-stamps whatever entry the destination has.                     *)
Extend(d) ==
  /\ routes[d] # None
  /\ routes' = [routes EXCEPT ![d].expiresAt = now + TTL]
  /\ UNCHANGED <<now, crashes, kernel, work>>

-----------------------------------------------------------------------------
(* RemoveByRule, SweepExpired and Flush: collect the destinations under the *)
(* lock, then Remove them one by one, in map order.                         *)
BeginRemove(w, reason, dests) ==
  /\ pc[w] = "idle" /\ dests # {}
  /\ todo' = [todo EXCEPT ![w] = dests] /\ why' = [why EXCEPT ![w] = reason]
  /\ pc' = [pc EXCEPT ![w] = "remove"]
  /\ UNCHANGED <<now, crashes, routes, kernel, op, victim>>

Tracked  == {d \in Dests : routes[d] # None}
OfRule(r) == {d \in Tracked : routes[d].rule = r}
Stale    == {d \in Tracked : ~ routes[d].static /\ now > routes[d].expiresAt}

RemoveByRule(w, r) == BeginRemove(w, "rule", OfRule(r))
SweepExpired       == BeginRemove(Sweeper, "sweep", Stale)
Flush(w)           == BeginRemove(w, "flush", Tracked)

(* Where a removal goes once it has dealt with one destination.             *)
Visited(w, d) ==
  /\ todo' = [todo EXCEPT ![w] = @ \ {d}]
  /\ pc' = [pc EXCEPT ![w] = IF todo[w] = {d} THEN "idle" ELSE "remove"]
  /\ why' = [why EXCEPT ![w] = IF todo[w] = {d} THEN "nothing" ELSE @]

(* RemoveGone with a bug: the loop never gets past an entry someone else    *)
(* removed.                                                                 *)
RemoveGoneWaits(w, d) ==
  /\ pc[w] = "remove" /\ d \in todo[w] /\ routes[d] = None
  /\ UNCHANGED vars

(* Remove, under the lock: an entry that is gone is skipped, ...            *)
RemoveGone(w, d) ==
  /\ pc[w] = "remove" /\ d \in todo[w] /\ routes[d] = None
  /\ Visited(w, d)
  /\ UNCHANGED <<now, crashes, routes, kernel, op, victim>>

(* RemoveEntry with a bug: the map entry goes and the kernel route stays.   *)
RemoveEntryOnly(w, d) ==
  /\ pc[w] = "remove" /\ d \in todo[w] /\ routes[d] # None
  /\ routes' = [routes EXCEPT ![d] = None]
  /\ Visited(w, d)
  /\ UNCHANGED <<now, crashes, kernel, op, victim>>

(* ... any other is deleted from the map, whatever has become of it since.  *)
RemoveEntry(w, d) ==
  /\ pc[w] = "remove" /\ d \in todo[w] /\ routes[d] # None
  /\ routes' = [routes EXCEPT ![d] = None]
  /\ victim' = [victim EXCEPT ![w] = d]
  /\ pc' = [pc EXCEPT ![w] = "unpin"]
  /\ UNCHANGED <<now, crashes, kernel, op, todo, why>>

(* Remove, after the lock: the kernel's route goes.                         *)
Unpin(w) ==
  /\ pc[w] = "unpin"
  /\ kernel' \in Deleted(victim[w])
  /\ Visited(w, victim[w])
  /\ victim' = [victim EXCEPT ![w] = None]
  /\ UNCHANGED <<now, crashes, routes, op>>

-----------------------------------------------------------------------------
(* The process dies and launchd starts it again: the map is empty, routes   *)
(* through the daemon's own utun went with it, other host routes stay.      *)
Crash ==
  /\ crashes < MaxCrashes /\ crashes' = crashes + 1
  /\ routes' = [d \in Dests |-> None]
  /\ kernel' = [d \in Dests |-> IF kernel[d] = OwnTun THEN None ELSE kernel[d]]
  /\ pc' = [w \in Workers |-> "idle"] /\ op' = [w \in Workers |-> None]
  /\ todo' = [w \in Workers |-> {}]   /\ why' = [w \in Workers |-> "nothing"]
  /\ victim' = [w \in Workers |-> None]
  /\ UNCHANGED now

Tick == now < MaxTime /\ now' = now + 1 /\ UNCHANGED <<crashes, routes, kernel, work>>

Next ==
  \/ Tick \/ Crash
  \/ \E d \in Dests : Extend(d)
  \/ \E w \in Callers :
       \/ \E d \in Dests, i \in Ifaces, r \in Rules : BeginInstall(w, d, i, r)
       \/ Replace(w) \/ Add(w) \/ AddFails(w) \/ Record(w)
       \/ \E r \in Rules : RemoveByRule(w, r)
       \/ Flush(w)
  \/ SweepExpired
  \/ \E w \in Workers : (\E d \in Dests : RemoveGone(w, d) \/ RemoveEntry(w, d)) \/ Unpin(w)

Spec == Init /\ [][Next]_vars

(* The sweep ticker keeps firing and the sweeper's own steps complete; the  *)
(* other callers need no fairness.                                          *)
Fairness ==
  /\ WF_vars(SweepExpired) /\ WF_vars(Unpin(Sweeper))
  /\ WF_vars(\E d \in Dests : RemoveGone(Sweeper, d) \/ RemoveEntry(Sweeper, d))

FairSpec == Spec /\ Fairness

-----------------------------------------------------------------------------
(* Properties                                                               *)

(* No route outlives the manager's knowledge of it: until the process dies, *)
(* whatever the kernel holds is in the map, about to be recorded, or about  *)
(* to be deleted, so Flush at shutdown finds every route.                   *)
NoOrphanRoute ==
  \A d \in Dests : kernel[d] # None /\ crashes = 0 =>
    \/ routes[d] # None
    \/ \E w \in Workers : pc[w] = "record" /\ op[w].dest = d
    \/ \E w \in Workers : pc[w] = "unpin" /\ victim[w] = d

(* An expired route is eventually taken or re-stamped: the sweep reaches    *)
(* every entry that is not static, whatever else runs.                      *)
ExpiredAreReclaimed ==
  \A d \in Dests : d \in Stale ~> d \notin Stale
=============================================================================
