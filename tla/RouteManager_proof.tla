------------------------- MODULE RouteManager_proof -------------------------
(* Type correctness of the route manager, and that no kernel route escapes  *)
(* its bookkeeping, for any number of goroutines and destinations.          *)
EXTENDS RouteManager, TLAPS

(* None is none of the things it stands in for.                             *)
LEMMA EntryPresent == None \notin Entry /\ None \notin Ifaces /\ None \notin Op
  BY AbsentAssumption

(* The initial state is well typed.                                         *)
LEMMA InitTypeOK == Init => TypeOK
  BY DEF Init, TypeOK

(* The steps of an install and of Extend.                                   *)
LEMMA InstallTypes ==
  ASSUME TypeOK, NEW w \in Callers, NEW d \in Dests, NEW i \in Ifaces, NEW r \in Rules,
         BeginInstall(w, d, i, r)
  PROVE  TypeOK'
<1> DEFINE o == [dest |-> d, iface |-> i, rule |-> r, static |-> r \in IPRules]
<1>1. o \in Op
  BY DEF Op
<1>2. op' = [op EXCEPT ![w] = o]
  BY DEF BeginInstall
<1>3. pc'[w] \in {"replace", "add"} /\ pc' = [pc EXCEPT ![w] = pc'[w]]
  BY DEF BeginInstall, TypeOK, Workers
<1>4. w \in Workers
  BY DEF Workers
<1> HIDE DEF o
<1> QED BY <1>1, <1>2, <1>3, <1>4 DEF TypeOK, BeginInstall

(* The kernel table stays one after a `route delete`, ...                   *)
LEMMA DeletedType ==
  ASSUME TypeOK, NEW d \in Dests
  PROVE  Deleted(d) \subseteq [Dests -> Ifaces \cup {None}]
  BY DEF TypeOK, Deleted

(* ... and after a `route add`.                                             *)
LEMMA AddedType ==
  ASSUME TypeOK, NEW d \in Dests, NEW i \in Ifaces
  PROVE  Added(d, i) \in [Dests -> Ifaces \cup {None}]
  BY DEF TypeOK, Added

(* What an install records is an entry.                                     *)
LEMMA NewEntryType ==
  ASSUME TypeOK, NEW o \in Op
  PROVE  NewEntry(o) \in Entry
  BY TTLAssumption DEF TypeOK, NewEntry, Entry, Op

(* The remaining steps of an install keep the types.                        *)
LEMMA CallerTypes ==
  ASSUME TypeOK, NEW w \in Callers,
         Replace(w) \/ Add(w) \/ AddFails(w) \/ Record(w)
  PROVE  TypeOK'
<1>0. w \in Workers
  BY DEF Workers
<1>1. CASE Replace(w)
  <2>1. op[w] \in Op /\ op[w].dest \in Dests
    BY <1>0, <1>1 DEF TypeOK, Replace, Op
  <2>2. kernel' \in [Dests -> Ifaces \cup {None}]
    BY <1>1, <2>1, DeletedType DEF Replace
  <2> QED BY <1>0, <1>1, <2>1, <2>2 DEF TypeOK, Replace
<1>2. CASE Add(w)
  <2>1. op[w] \in Op /\ op[w].dest \in Dests /\ op[w].iface \in Ifaces
    BY <1>0, <1>2 DEF TypeOK, Add, Op
  <2>2. kernel' \in [Dests -> Ifaces \cup {None}]
    BY <1>2, <2>1, AddedType DEF Add
  <2> QED BY <1>0, <1>2, <2>1, <2>2 DEF TypeOK, Add
<1>3. CASE AddFails(w)
  BY <1>0, <1>3 DEF TypeOK, AddFails
<1>4. CASE Record(w)
  <2>1. op[w] \in Op /\ op[w].dest \in Dests
    BY <1>0, <1>4 DEF TypeOK, Record, Op
  <2>2. routes' \in [Dests -> Entry \cup {None}]
    BY <1>4, <2>1, NewEntryType DEF TypeOK, Record
  <2> QED BY <1>0, <1>4, <2>2 DEF TypeOK, Record
<1> QED BY <1>1, <1>2, <1>3, <1>4

(* So does Extend, which also keeps every entry.                            *)
LEMMA ExtendTypes ==
  ASSUME TypeOK, NEW d \in Dests, Extend(d)
  PROVE  TypeOK' /\ routes'[d] # None /\ routes' = [routes EXCEPT ![d] = routes'[d]]
<1> DEFINE e == [routes[d] EXCEPT !.expiresAt = now + TTL]
<1>1. e \in Entry
  BY TTLAssumption DEF TypeOK, Extend, Entry
<1>2. routes' = [routes EXCEPT ![d] = e]
  BY DEF Extend
<1>3. UNCHANGED <<now, crashes, kernel, pc, op, todo, why, victim>>
  BY DEF Extend, work
<1> HIDE DEF e
<1>4. TypeOK'
  BY <1>1, <1>2, <1>3 DEF TypeOK
<1> QED BY <1>1, <1>2, <1>4, EntryPresent DEF TypeOK

(* The steps of a removal.                                                  *)
LEMMA BeginRemoveTypes ==
  ASSUME TypeOK, NEW w \in Workers, NEW reason \in {"rule", "sweep", "flush"},
         NEW S \in SUBSET Dests, BeginRemove(w, reason, S)
  PROVE  TypeOK'
  BY DEF TypeOK, BeginRemove

(* Visiting a destination keeps the types.                                  *)
LEMMA RemoveTypes ==
  ASSUME TypeOK, NEW w \in Workers,
         (\E d \in Dests : RemoveGone(w, d) \/ RemoveEntry(w, d)) \/ Unpin(w)
  PROVE  TypeOK'
<1>1. ASSUME NEW d \in Dests, RemoveGone(w, d) PROVE TypeOK'
  BY <1>1 DEF TypeOK, RemoveGone, Visited
<1>2. ASSUME NEW d \in Dests, RemoveEntry(w, d) PROVE TypeOK'
  BY <1>2 DEF TypeOK, RemoveEntry
<1>3. ASSUME Unpin(w) PROVE TypeOK'
  <2>1. victim[w] \in Dests
    BY <1>3 DEF TypeOK, Unpin
  <2>2. kernel' \in [Dests -> Ifaces \cup {None}]
    BY <1>3, <2>1, DeletedType DEF Unpin
  <2> QED BY <1>3, <2>1, <2>2 DEF TypeOK, Unpin, Visited
<1> QED BY <1>1, <1>2, <1>3

(* A restart keeps the types.                                               *)
LEMMA CrashTypes == TypeOK /\ Crash => TypeOK'
  BY DEF TypeOK, Crash

(* The state is well typed in every reachable state.                        *)
THEOREM TypeCorrect == Spec => []TypeOK
<1>1. ASSUME TypeOK, [Next]_vars PROVE TypeOK'
  <2>1. CASE Tick
    BY <1>1, <2>1, BoundsAssumption DEF TypeOK, Tick, work
  <2>2. CASE Crash
    BY <1>1, <2>2, CrashTypes
  <2>3. CASE \E d \in Dests : Extend(d)
    BY <1>1, <2>3, ExtendTypes
  <2>4. CASE \E w \in Callers, d \in Dests, i \in Ifaces, r \in Rules : BeginInstall(w, d, i, r)
    BY <1>1, <2>4, InstallTypes
  <2>5. CASE \E w \in Callers : Replace(w) \/ Add(w) \/ AddFails(w) \/ Record(w)
    BY <1>1, <2>5, CallerTypes
  <2>6. CASE \E w \in Callers : (\E r \in Rules : RemoveByRule(w, r)) \/ Flush(w)
    BY <1>1, <2>6, BeginRemoveTypes DEF RemoveByRule, Flush, OfRule, Tracked, Workers
  <2>7. CASE SweepExpired
    BY <1>1, <2>7, BeginRemoveTypes DEF SweepExpired, Stale, Tracked, Workers
  <2>8. CASE \E w \in Workers : (\E d \in Dests : RemoveGone(w, d) \/ RemoveEntry(w, d)) \/ Unpin(w)
    BY <1>1, <2>8, RemoveTypes
  <2>9. CASE UNCHANGED vars
    BY <1>1, <2>9 DEF TypeOK, vars, work
  <2> QED BY <1>1, <2>1, <2>2, <2>3, <2>4, <2>5, <2>6, <2>7, <2>8, <2>9 DEF Next
<1> QED BY <1>1, InitTypeOK, PTL DEF Spec

-----------------------------------------------------------------------------
(* What accounts for the kernel's route to d.                               *)
Accounted(d) ==
  \/ routes[d] # None
  \/ \E w \in Workers : pc[w] = "record" /\ op[w].dest = d
  \/ \E w \in Workers : pc[w] = "unpin" /\ victim[w] = d

(* The invariant in those words.                                            *)
LEMMA NoOrphanUnfolded ==
  NoOrphanRoute <=> \A d \in Dests : kernel[d] # None /\ crashes = 0 => Accounted(d)
  BY DEF NoOrphanRoute, Accounted

(* A goroutine that is neither about to record nor about to unpin can move  *)
(* between such places without disturbing anyone's account.                 *)
LEMMA UninvolvedMove ==
  ASSUME TypeOK, NoOrphanRoute, NEW w \in Workers,
         pc[w] \notin {"record", "unpin"},
         UNCHANGED <<crashes, routes, kernel>>,
         \A v \in Workers \ {w} : pc'[v] = pc[v] /\ op'[v] = op[v] /\ victim'[v] = victim[v]
  PROVE  NoOrphanRoute'
  BY DEF NoOrphanRoute

(* Every step of an install keeps every route accounted for.                *)
LEMMA InstallKeepsAccounts ==
  ASSUME TypeOK, NoOrphanRoute, ~ DeleteMayFail, NEW w \in Callers,
         \/ \E d \in Dests, i \in Ifaces, r \in Rules : BeginInstall(w, d, i, r)
         \/ Replace(w) \/ Add(w) \/ AddFails(w) \/ Record(w)
  PROVE  NoOrphanRoute'
<1>0. w \in Workers
  BY DEF Workers
<1>1. CASE \E d \in Dests, i \in Ifaces, r \in Rules : BeginInstall(w, d, i, r)
  BY <1>0, <1>1, UninvolvedMove DEF BeginInstall, TypeOK
<1>2. CASE AddFails(w)
  BY <1>0, <1>2, UninvolvedMove DEF AddFails, TypeOK
<1>3. CASE Replace(w)
  <2>1. op[w].dest \in Dests
    BY <1>0, <1>3 DEF TypeOK, Replace, Op
  <2>2. kernel' = [kernel EXCEPT ![op[w].dest] = None]
    BY <1>3 DEF Replace, Deleted
  <2>3. \A d \in Dests : kernel'[d] # None => kernel[d] # None
    BY <2>1, <2>2 DEF TypeOK
  <2>4. \A d \in Dests : Accounted(d) => Accounted(d)'
    BY <1>0, <1>3 DEF Accounted, Replace, TypeOK
  <2>5. crashes' = crashes
    BY <1>3 DEF Replace
  <2> QED BY <2>3, <2>4, <2>5, NoOrphanUnfolded DEF NoOrphanRoute, Accounted
<1>4. CASE Add(w)
  <2>1. op[w].dest \in Dests
    BY <1>0, <1>4 DEF TypeOK, Add, Op
  <2>2. \A d \in Dests : d # op[w].dest => kernel'[d] = kernel[d]
    BY <1>4, <2>1 DEF Add, Added, TypeOK
  <2>3. \A d \in Dests : Accounted(d) => Accounted(d)'
    BY <1>0, <1>4 DEF Accounted, Add, TypeOK
  <2>4. \A d \in Dests : d = op[w].dest => Accounted(d)'
    BY <1>0, <1>4 DEF Accounted, Add, TypeOK
  <2>5. crashes' = crashes
    BY <1>4 DEF Add
  <2> QED BY <2>2, <2>3, <2>4, <2>5, NoOrphanUnfolded DEF NoOrphanRoute, Accounted
<1>5. CASE Record(w)
  <2>1. op[w] \in Op /\ op[w].dest \in Dests
    BY <1>0, <1>5 DEF TypeOK, Record, Op
  <2>2. routes'[op[w].dest] # None
    BY <1>5, <2>1, NewEntryType, EntryPresent DEF Record, TypeOK
  <2>3. \A d \in Dests : d # op[w].dest /\ Accounted(d) => Accounted(d)'
    BY <1>0, <1>5, <2>1 DEF Accounted, Record, TypeOK
  <2>4. \A d \in Dests : d = op[w].dest => Accounted(d)'
    BY <2>2 DEF Accounted
  <2>5. kernel' = kernel /\ crashes' = crashes
    BY <1>5 DEF Record
  <2> QED BY <2>3, <2>4, <2>5, NoOrphanUnfolded DEF NoOrphanRoute, Accounted
<1> QED BY <1>1, <1>2, <1>3, <1>4, <1>5

(* So does every step of a removal.                                         *)
LEMMA RemovalKeepsAccounts ==
  ASSUME TypeOK, NoOrphanRoute, ~ DeleteMayFail, NEW w \in Workers,
         (\E d \in Dests : RemoveGone(w, d) \/ RemoveEntry(w, d)) \/ Unpin(w)
  PROVE  NoOrphanRoute'
<1>1. ASSUME NEW d \in Dests, RemoveGone(w, d) PROVE NoOrphanRoute'
  BY <1>1, UninvolvedMove DEF RemoveGone, Visited, TypeOK
<1>2. ASSUME NEW d \in Dests, RemoveEntry(w, d) PROVE NoOrphanRoute'
  <2>1. \A e \in Dests : e # d /\ Accounted(e) => Accounted(e)'
    BY <1>2 DEF Accounted, RemoveEntry, TypeOK
  <2>2. Accounted(d)'
    BY <1>2 DEF Accounted, RemoveEntry, TypeOK
  <2>3. kernel' = kernel /\ crashes' = crashes
    BY <1>2 DEF RemoveEntry
  <2> QED BY <2>1, <2>2, <2>3, NoOrphanUnfolded DEF NoOrphanRoute, Accounted
<1>3. ASSUME Unpin(w) PROVE NoOrphanRoute'
  <2>1. victim[w] \in Dests /\ kernel' = [kernel EXCEPT ![victim[w]] = None]
    BY <1>3 DEF Unpin, Deleted, TypeOK
  <2>2. \A d \in Dests : d # victim[w] /\ Accounted(d) => Accounted(d)'
    BY <1>3 DEF Accounted, Unpin, Visited, TypeOK
  <2>4. crashes' = crashes
    BY <1>3 DEF Unpin
  <2>3. kernel'[victim[w]] = None /\ \A d \in Dests : d # victim[w] => kernel'[d] = kernel[d]
    BY <2>1 DEF TypeOK
  <2> QED BY <2>2, <2>3, <2>4, NoOrphanUnfolded DEF NoOrphanRoute, Accounted
<1> QED BY <1>1, <1>2, <1>3

(* As long as the process lives and `route delete` works, the kernel never  *)
(* holds a route the manager has lost track of, however installs, sweeps,   *)
(* removals and re-stamps interleave between map and kernel.                *)
THEOREM NoOrphans ==
  ASSUME ~ DeleteMayFail
  PROVE  Spec => []NoOrphanRoute
<1>1. Init => NoOrphanRoute
  BY DEF Init, NoOrphanRoute
<1>2. ASSUME TypeOK, NoOrphanRoute, [Next]_vars PROVE NoOrphanRoute'
  <2>1. CASE Tick
    BY <1>2, <2>1 DEF NoOrphanRoute, Tick, work
  <2>2. CASE Crash
    BY <1>2, <2>2 DEF TypeOK, Crash, NoOrphanRoute
  <2>3. ASSUME NEW d \in Dests, Extend(d) PROVE NoOrphanRoute'
    <3>1. \A e \in Dests : routes[e] # None => routes'[e] # None
      BY <1>2, <2>3, ExtendTypes DEF TypeOK
    <3>2. UNCHANGED <<crashes, kernel, pc, op, victim>>
      BY <2>3 DEF Extend, work
    <3> QED BY <1>2, <3>1, <3>2 DEF NoOrphanRoute
  <2>4. CASE \E w \in Callers :
               \/ \E d \in Dests, i \in Ifaces, r \in Rules : BeginInstall(w, d, i, r)
               \/ Replace(w) \/ Add(w) \/ AddFails(w) \/ Record(w)
    BY <1>2, <2>4, InstallKeepsAccounts
  <2>5. ASSUME NEW w \in Workers, NEW reason, NEW S, BeginRemove(w, reason, S)
        PROVE  NoOrphanRoute'
    BY <1>2, <2>5, UninvolvedMove DEF BeginRemove, TypeOK
  <2>6. CASE \E w \in Callers : (\E r \in Rules : RemoveByRule(w, r)) \/ Flush(w)
    BY <2>5, <2>6 DEF RemoveByRule, Flush, Workers
  <2>7. CASE SweepExpired
    BY <2>5, <2>7 DEF SweepExpired, Workers
  <2>8. CASE \E w \in Workers : (\E d \in Dests : RemoveGone(w, d) \/ RemoveEntry(w, d)) \/ Unpin(w)
    BY <1>2, <2>8, RemovalKeepsAccounts
  <2>9. CASE UNCHANGED vars
    BY <1>2, <2>9 DEF NoOrphanRoute, vars, work
  <2> QED BY <1>2, <2>1, <2>2, <2>3, <2>4, <2>6, <2>7, <2>8, <2>9 DEF Next
<1> QED BY <1>1, <1>2, TypeCorrect, PTL DEF Spec
=============================================================================
