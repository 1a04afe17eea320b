-------------------------- MODULE SystemDNS_proof --------------------------
(* What the daemon remembers of the machine's DNS stays true across every   *)
(* crash, failing command, user's edit and move between networks, as long   *)
(* as its callers do not overlap.                                           *)
EXTENDS SystemDNS, TLAPS

(* The service points at the daemon.                                        *)
Hijacked(s) == svc[s] = <<Loop>>

(* A call is a record of these fields.                                      *)
CallFields == {"at", "was", "snap", "list", "todo", "op", "failed"}
IsCall(r) == r = [x \in CallFields |-> r[x]]

(* A service is on the loopback or on something its user chose.             *)
Kinds ==
  /\ listed \subseteq Services /\ listed # {}
  /\ svc \in [Services -> Manual \cup {<<Loop>>}]
  /\ users \in [Services -> SUBSET Manual]
  /\ \A s \in Services : Hijacked(s) \/ svc[s] \in users[s]
  /\ wanted \in BOOLEAN
  /\ DOMAIN call = Callers
  /\ \A c \in Callers : IsCall(call[c]) /\ call[c].was \in BOOLEAN /\ call[c].failed \in BOOLEAN

(* At most one procedure is under way, and before the daemon serves it is   *)
(* the activation of the start-up code.                                     *)
Alone ==
  /\ \A c, d \in Callers : call[c].at # "idle" /\ call[d].at # "idle" => c = d
  /\ phase = "down" => \A c \in Callers : call[c].at = "idle"
  /\ phase = "boot" => \A c \in Callers \ {"main"} : call[c].at = "idle"
  /\ phase \in {"down", "boot", "up"}

(* A backup that Deactivate can safely write back.                          *)
IsBackup(snap) ==
  /\ DOMAIN snap \subseteq Services /\ DOMAIN snap # {}
  /\ \A s \in DOMAIN snap : snap[s] \in users[s]

(* Until the first activation has saved the backup nothing is hijacked, and *)
(* no other procedure can start.                                            *)
Backed ==
  \/ IsBackup(backup)
  \/ /\ backup = Absent
     /\ wanted /\ phase # "up"
     /\ \A s \in Services : ~Hijacked(s)
     /\ phase = "boot" =>
          /\ call["main"].op = "activate"
          /\ call["main"].at \in {"isActive", "capture", "backup"}
          /\ call["main"].at = "capture" => ~call["main"].was

(* What a procedure can rely on at each stage.                              *)
Staged(c) ==
  /\ call[c].at = "capture" /\ call[c].op = "activate" /\ ~call[c].was =>
       \A s \in listed : ~Hijacked(s)
  /\ call[c].at \in {"validate", "repick"} => call[c].op # "activate"
  /\ call[c].at = "backup" => IsBackup(call[c].snap)
  /\ call[c].at = "apply" => call[c].todo \subseteq Services
  /\ call[c].at = "restore" =>
       /\ call[c].snap = backup
       /\ call[c].todo \subseteq DOMAIN backup
       /\ ~call[c].failed => \A s \in DOMAIN backup \ call[c].todo : ~Hijacked(s)
  /\ call[c].at = "note" => forwarder = call[c].list

(* Between the swap of the forwarder and the note of it they differ.        *)
Noted == (\A c \in Callers : call[c].at # "note") => forwarder = upstream

(* The inductive invariant.                                                 *)
Inv == Kinds /\ Alone /\ Backed /\ (\A c \in Callers : Staged(c)) /\ Noted

(* What the user gives a service has no loopback in it.                     *)
LEMMA UserLists ==
  /\ <<Loop>> \notin Manual /\ Loop \in Range(<<Loop>>)
  /\ \A m \in Manual : Loop \notin Range(m)
<1>1. Loop \in Range(<<Loop>>)
  BY DEF Range
<1> QED BY <1>1, ConstantsFit

(* IsActive sees exactly the hijacked services.                             *)
LEMMA ActiveMeans ==
  ASSUME Kinds
  PROVE  /\ \A s \in Services : Loop \in Range(svc[s]) <=> Hijacked(s)
         /\ IsActive <=> \E s \in listed : Hijacked(s)
<1>1. ASSUME NEW s \in Services PROVE Loop \in Range(svc[s]) <=> Hijacked(s)
  <2>1. CASE svc[s] = <<Loop>>
    BY <2>1, UserLists DEF Hijacked
  <2>2. CASE svc[s] \in Manual
    BY <2>2, UserLists DEF Hijacked
  <2> QED BY <2>1, <2>2 DEF Kinds
<1> QED BY <1>1 DEF IsActive, ListServices, GetServiceDNS, Kinds

(* A procedure past its backup can rely on one.                             *)
LEMMA HasBackup ==
  ASSUME Inv, NEW c \in Callers,
         call[c].at \notin {"idle", "isActive", "capture", "backup"}
  PROVE  IsBackup(backup)
  BY DEF Inv, Backed, Alone

(* One caller's step concerns that caller alone.                            *)
LEMMA StepFrame ==
  ASSUME Inv, NEW c \in Callers, call[c].at # "idle",
         NEW r, call' = [call EXCEPT ![c] = r],
         IsCall(r), r.was \in BOOLEAN, r.failed \in BOOLEAN,
         UNCHANGED <<listed, users, phase>>,
         svc' \in [Services -> Manual \cup {<<Loop>>}],
         \A s \in Services : svc'[s] = <<Loop>> \/ svc'[s] \in users[s],
         wanted' \in BOOLEAN, Backed', Staged(c)',
         r.at # "note" => forwarder' = upstream'
  PROVE  Inv'
<1>1. call'[c] = r /\ DOMAIN call' = Callers /\ \A d \in Callers \ {c} : call'[d] = call[d]
  BY DEF Inv, Kinds
<1>2. \A d \in Callers \ {c} : call'[d].at = "idle"
  BY <1>1 DEF Inv, Alone
<1>3. Kinds'
  BY <1>1 DEF Inv, Kinds, Hijacked
<1>4. Alone'
  BY <1>1, <1>2 DEF Inv, Alone
<1>5. ASSUME NEW d \in Callers PROVE Staged(d)'
  <2>1. CASE d = c
    BY <2>1
  <2>2. CASE d # c
    BY <1>2, <2>2 DEF Staged
  <2> QED BY <2>1, <2>2
<1>6. Noted'
  BY <1>1 DEF Noted
<1> QED BY <1>3, <1>4, <1>5, <1>6 DEF Inv

(* What no step of a procedure changes.                                     *)
Quiet == UNCHANGED <<world, phase, settles>>

(* IsActive with no hijacked service promises the capture users' lists.     *)
LEMMA ReadActiveInv ==
  ASSUME Inv, NEW c \in Callers, ReadActive(c), Quiet
  PROVE  Inv'
<1> DEFINE r == [call[c] EXCEPT !.was = IsActive, !.at = "capture"]
<1>1. /\ call' = [call EXCEPT ![c] = r]
      /\ IsCall(r) /\ r.at = "capture" /\ r.was = IsActive /\ r.op = call[c].op
      /\ r.failed = call[c].failed
  BY DEF ReadActive, Inv, Kinds, IsCall, CallFields
<1>2. call'[c] = r /\ \A d \in Callers \ {c} : call'[d] = call[d]
  BY <1>1 DEF Inv, Kinds
<1>3. /\ UNCHANGED <<listed, users, phase, svc, wanted, backup, forwarder, upstream>>
      /\ call[c].at = "isActive"
  BY DEF ReadActive, Quiet, world, services, store, picked
<1> HIDE DEF r
<1>4. IsActive \in BOOLEAN
  BY DEF IsActive
<1>5. Backed'
  <2>1. CASE IsBackup(backup)
    BY <1>3, <2>1 DEF Backed, IsBackup
  <2>2. CASE ~ IsBackup(backup)
    BY <1>1, <1>2, <1>3, <2>2, ActiveMeans DEF Inv, Backed, Alone, Hijacked, Kinds
  <2> QED BY <2>1, <2>2
<1>6. Staged(c)'
  BY <1>1, <1>2, <1>3, ActiveMeans DEF Inv, Staged, Hijacked
<1>7. forwarder' = upstream'
  BY <1>3 DEF Inv, Noted, Alone
<1>8. \A s \in Services : svc'[s] = <<Loop>> \/ svc'[s] \in users[s]
  BY <1>3 DEF Inv, Kinds, Hijacked
<1> QED BY <1>1, <1>3, <1>4, <1>5, <1>6, <1>7, <1>8, StepFrame, Zenon DEF Inv, Kinds

(* Most steps only move a procedure on to a stage that relies on nothing.   *)
LEMMA Advance ==
  ASSUME Inv, NEW c \in Callers,
         call[c].at \notin {"idle", "isActive", "capture", "backup", "note"},
         NEW r, call' = [call EXCEPT ![c] = r],
         IsCall(r), r.was \in BOOLEAN, r.failed \in BOOLEAN,
         r.at \notin {"backup", "apply", "restore", "note"},
         r.at \in {"capture", "validate", "repick"} => r.op # "activate",
         UNCHANGED <<listed, users, phase, svc, backup, forwarder, upstream>>,
         wanted' \in BOOLEAN
  PROVE  Inv'
<1>1. call'[c] = r
  BY DEF Inv, Kinds
<1>2. Backed'
  BY HasBackup DEF Backed, IsBackup
<1>3. Staged(c)'
  BY <1>1 DEF Staged
<1>4. forwarder' = upstream'
  BY DEF Inv, Noted, Alone
<1>5. \A s \in Services : svc'[s] = <<Loop>> \/ svc'[s] \in users[s]
  BY DEF Inv, Kinds, Hijacked
<1> QED BY <1>2, <1>3, <1>4, <1>5, StepFrame, Zenon DEF Inv, Kinds

(* Idle is a call like any other.                                           *)
LEMMA IdleIsCall == IsCall(Idle) /\ Idle.at = "idle" /\ Idle.was = FALSE /\ Idle.failed = FALSE
  BY DEF Idle, IsCall, CallFields

(* The steps that advance a procedure or end it.                            *)
LEMMA PlainStepInv ==
  ASSUME Inv, NEW c \in Callers, Quiet,
         \/ Choose(c) \/ SaveUpstream(c) \/ AppliedAll(c) \/ RestoredAll(c) \/ Validate(c)
         \/ Repick(c) \/ CheckOff(c) \/ CheckOn(c) \/ Probe(c)
  PROVE  Inv'
<1> DEFINE To(at) == [call[c] EXCEPT !.at = at]
<1>1. UNCHANGED <<listed, users, phase>>
  BY DEF Quiet, world
<1>2. IsCall(call[c]) /\ call[c].was \in BOOLEAN /\ call[c].failed \in BOOLEAN /\ wanted \in BOOLEAN
  BY DEF Inv, Kinds
<1>3. ASSUME NEW at PROVE IsCall(To(at)) /\ To(at).at = at /\ To(at).was = call[c].was
                          /\ To(at).failed = call[c].failed /\ To(at).op = call[c].op
  BY <1>2 DEF IsCall, CallFields
<1>4. CASE Choose(c)
  <2>1. call[c].at = "choose" /\ UNCHANGED <<svc, backup, wanted, forwarder, upstream>>
    BY <1>4 DEF Choose, services, store, picked
  <2>2. \/ call' = [call EXCEPT ![c] = To("readBackup")]
        \/ call' = [call EXCEPT ![c] = Idle]
        \/ \E list : call' = [call EXCEPT ![c] = [call[c] EXCEPT !.list = list, !.at = "save"]]
    BY <1>4, Zenon DEF Choose, Goto, Return, Inv, Kinds
  <2>3. CASE call' = [call EXCEPT ![c] = To("readBackup")]
    <3> HIDE DEF To
    <3> QED BY <1>1, <1>2, <1>3, <2>1, <2>3, Advance, Zenon
  <2>4. CASE call' = [call EXCEPT ![c] = Idle]
    BY <1>1, <1>2, <2>1, <2>4, Advance, IdleIsCall, Zenon
  <2>5. ASSUME NEW list, call' = [call EXCEPT ![c] = [call[c] EXCEPT !.list = list, !.at = "save"]]
        PROVE  Inv'
    <3> DEFINE r == [call[c] EXCEPT !.list = list, !.at = "save"]
    <3>1. IsCall(r) /\ r.at = "save" /\ r.was = call[c].was /\ r.failed = call[c].failed
      BY <1>2, Zenon DEF IsCall, CallFields
    <3>2. call' = [call EXCEPT ![c] = r]
      BY <2>5
    <3> HIDE DEF r
    <3> QED BY <1>1, <1>2, <2>1, <3>1, <3>2, Advance, Zenon
  <2> QED BY <2>2, <2>3, <2>4, <2>5, Zenon
<1>5. CASE SaveUpstream(c)
  <2>1. call' = [call EXCEPT ![c] = To("forward")]
    BY <1>5 DEF SaveUpstream, Goto, Inv, Kinds
  <2>2. call[c].at = "save" /\ UNCHANGED <<svc, backup, wanted, forwarder, upstream>>
    BY <1>5 DEF SaveUpstream, services, picked
  <2> HIDE DEF To
  <2> QED BY <1>1, <1>2, <1>3, <2>1, <2>2, Advance, Zenon
<1>6. CASE AppliedAll(c) \/ RestoredAll(c)
  <2>1. call' = [call EXCEPT ![c] = Idle]
    BY <1>6 DEF AppliedAll, RestoredAll, Return
  <2>2. call[c].at \in {"apply", "restore"} /\ UNCHANGED <<svc, backup, forwarder, upstream>>
    BY <1>6 DEF AppliedAll, RestoredAll, services, picked
  <2>3. wanted' \in BOOLEAN
    BY <1>6, <1>2, Zenon DEF AppliedAll, RestoredAll
  <2> QED BY <1>1, <1>2, <2>1, <2>2, <2>3, Advance, IdleIsCall, Zenon
<1>7. CASE Validate(c)
  <2>1. call[c].at = "validate" /\ UNCHANGED <<svc, backup, wanted, forwarder, upstream>>
    BY <1>7 DEF Validate, services, store, picked
  <2>2. call' = [call EXCEPT ![c] = Idle] \/ call' = [call EXCEPT ![c] = To("repick")]
    BY <1>7, Zenon DEF Validate, Goto, Return, Inv, Kinds
  <2>3. call[c].op # "activate"
    BY <2>1 DEF Inv, Staged
  <2> HIDE DEF To
  <2>4. CASE call' = [call EXCEPT ![c] = Idle]
    BY <1>1, <1>2, <2>1, <2>4, Advance, IdleIsCall, Zenon
  <2>5. CASE call' = [call EXCEPT ![c] = To("repick")]
    BY <1>1, <1>2, <1>3, <2>1, <2>3, <2>5, Advance, Zenon
  <2> QED BY <2>2, <2>4, <2>5
<1>8. CASE Repick(c)
  <2> DEFINE r == [call[c] EXCEPT !.list = upstream, !.at = "capture"]
  <2>1. call[c].at = "repick" /\ UNCHANGED <<svc, backup, wanted, forwarder, upstream>>
    BY <1>8 DEF Repick, services, store, picked
  <2>2. call' = [call EXCEPT ![c] = r]
    BY <1>8, Zenon DEF Repick, Inv, Kinds
  <2>3. IsCall(r) /\ r.at = "capture" /\ r.was = call[c].was /\ r.failed = call[c].failed
        /\ r.op = call[c].op
    BY <1>2, Zenon DEF IsCall, CallFields
  <2>4. call[c].op # "activate"
    BY <2>1 DEF Inv, Staged
  <2> HIDE DEF r
  <2> QED BY <1>1, <1>2, <2>1, <2>2, <2>3, <2>4, Advance, Zenon
<1>9. CASE CheckOff(c) \/ CheckOn(c) \/ Probe(c)
  <2> DEFINE r(op, at) == [call[c] EXCEPT !.op = op, !.at = at]
  <2>1. call[c].at \in {"check", "probe"} /\ UNCHANGED <<svc, backup, wanted, forwarder, upstream>>
    BY <1>9 DEF CheckOff, CheckOn, Probe, services, store, picked
  <2>2. \/ call' = [call EXCEPT ![c] = Idle]
        \/ call' = [call EXCEPT ![c] = To("probe")]
        \/ call' = [call EXCEPT ![c] = r("activate", "isActive")]
        \/ call' = [call EXCEPT ![c] = r("repick", "repick")]
        \/ call' = [call EXCEPT ![c] = r("refresh", "validate")]
    BY <1>9, Zenon DEF CheckOff, CheckOn, Probe, Goto, Return, Inv, Kinds
  <2>3. ASSUME NEW op, NEW at
        PROVE  IsCall(r(op, at)) /\ r(op, at).at = at /\ r(op, at).op = op
               /\ r(op, at).was = call[c].was /\ r(op, at).failed = call[c].failed
    BY <1>2, Zenon DEF IsCall, CallFields
  <2> HIDE DEF To, r
  <2>4. CASE call' = [call EXCEPT ![c] = Idle] \/ call' = [call EXCEPT ![c] = To("probe")]
    BY <1>1, <1>2, <1>3, <2>1, <2>4, Advance, IdleIsCall, Zenon
  <2>5. CASE call' = [call EXCEPT ![c] = r("activate", "isActive")]
    BY <1>1, <1>2, <2>1, <2>3, <2>5, Advance, ZenonT(40)
  <2>6. CASE \/ call' = [call EXCEPT ![c] = r("repick", "repick")]
             \/ call' = [call EXCEPT ![c] = r("refresh", "validate")]
    BY <1>1, <1>2, <2>1, <2>3, <2>6, Advance
  <2> QED BY <2>2, <2>4, <2>5, <2>6
<1> QED BY <1>4, <1>5, <1>6, <1>7, <1>8, <1>9

(* An activation that found nothing hijacked captures the users' own lists. *)
LEMMA CaptureAllInv ==
  ASSUME Inv, NEW c \in Callers, CaptureAll(c), Quiet
  PROVE  Inv'
<1> DEFINE snap == SanitizeSnapshot([s \in ListServices |-> GetServiceDNS(s)])
           next == IF call[c].op = "activate" /\ ~call[c].was THEN "backup" ELSE "choose"
           r == [call[c] EXCEPT !.snap = snap, !.at = next]
<1>1. call' = [call EXCEPT ![c] = r]
  BY Zenon DEF CaptureAll, Inv, Kinds
<1>2. /\ UNCHANGED <<listed, users, phase, svc, wanted, backup, forwarder, upstream>>
      /\ call[c].at = "capture"
  BY DEF CaptureAll, Quiet, world, services, store, picked
<1>3. /\ DOMAIN snap = listed
      /\ \A s \in listed : svc[s] \in Manual => snap[s] = svc[s]
  BY UserLists DEF SanitizeSnapshot, ListServices, GetServiceDNS
<1>4. next = "backup" => IsBackup(snap)
  BY <1>2, <1>3 DEF Inv, Kinds, Staged, IsBackup
<1>5. next \in {"backup", "choose"}
  OBVIOUS
<1>6. CASE ~ IsBackup(backup)
  <2>1. c = "main" /\ next = "backup"
    BY <1>2, <1>6 DEF Inv, Backed, Alone
  <2> HIDE DEF snap, next
  <2>2. IsCall(r) /\ r.at = next /\ r.snap = snap /\ r.was = call[c].was /\ r.op = call[c].op
        /\ r.failed = call[c].failed
    <3>1. IsCall(call[c])
      BY DEF Inv, Kinds
    <3> QED BY <3>1, Zenon DEF IsCall, CallFields
  <2> HIDE DEF r
  <2>3. call'[c] = r
    BY <1>1 DEF Inv, Kinds
  <2>4. Backed'
    BY <1>2, <1>6, <2>1, <2>2, <2>3 DEF Inv, Backed, Hijacked
  <2>5. Staged(c)'
    BY <1>2, <1>4, <2>1, <2>2, <2>3 DEF Staged, IsBackup
  <2>6. forwarder' = upstream'
    BY <1>2 DEF Inv, Noted, Alone
  <2>7. \A s \in Services : svc'[s] = <<Loop>> \/ svc'[s] \in users[s]
    BY <1>2 DEF Inv, Kinds, Hijacked
  <2> QED BY <1>1, <1>2, <2>2, <2>4, <2>5, <2>6, <2>7, StepFrame, Zenon DEF Inv, Kinds
<1>7. CASE IsBackup(backup)
  <2> HIDE DEF snap, next
  <2>2. IsCall(r) /\ r.at = next /\ r.snap = snap /\ r.was = call[c].was /\ r.op = call[c].op
        /\ r.failed = call[c].failed
    <3>1. IsCall(call[c])
      BY DEF Inv, Kinds
    <3> QED BY <3>1, Zenon DEF IsCall, CallFields
  <2> HIDE DEF r
  <2>3. call'[c] = r
    BY <1>1 DEF Inv, Kinds
  <2>4. Backed'
    BY <1>2, <1>7 DEF Backed, IsBackup
  <2>5. Staged(c)'
    BY <1>2, <1>4, <1>5, <2>2, <2>3 DEF Staged, IsBackup
  <2>6. forwarder' = upstream'
    BY <1>2 DEF Inv, Noted, Alone
  <2>7. \A s \in Services : svc'[s] = <<Loop>> \/ svc'[s] \in users[s]
    BY <1>2 DEF Inv, Kinds, Hijacked
  <2> QED BY <1>1, <1>2, <2>2, <2>4, <2>5, <2>6, <2>7, StepFrame, Zenon DEF Inv, Kinds
<1> QED BY <1>6, <1>7

(* What was captured for the backup becomes the backup.                     *)
LEMMA SaveBackupInv ==
  ASSUME Inv, NEW c \in Callers, SaveBackup(c), Quiet
  PROVE  Inv'
<1> DEFINE r == [call[c] EXCEPT !.at = "choose"]
<1>1. call' = [call EXCEPT ![c] = r]
  BY DEF SaveBackup, Goto, Inv, Kinds
<1>2. /\ UNCHANGED <<listed, users, phase, svc, wanted, forwarder, upstream>>
      /\ call[c].at = "backup" /\ backup' = call[c].snap
  BY DEF SaveBackup, Quiet, world, services, picked
<1>3. IsCall(r) /\ r.at = "choose" /\ r.was = call[c].was /\ r.failed = call[c].failed
  BY DEF Inv, Kinds, IsCall, CallFields
<1> HIDE DEF r
<1>4. call'[c] = r
  BY <1>1 DEF Inv, Kinds
<1>5. Backed'
  BY <1>2 DEF Inv, Staged, Backed, IsBackup
<1>6. Staged(c)'
  BY <1>3, <1>4 DEF Staged
<1>7. forwarder' = upstream'
  BY <1>2 DEF Inv, Noted, Alone
<1>8. \A s \in Services : svc'[s] = <<Loop>> \/ svc'[s] \in users[s]
  BY <1>2 DEF Inv, Kinds, Hijacked
<1> QED BY <1>1, <1>2, <1>3, <1>5, <1>6, <1>7, <1>8, StepFrame, Zenon DEF Inv, Kinds

(* The forwarder is ahead of handlerDeps.upstream for one step, ...         *)
LEMMA SetForwarderInv ==
  ASSUME Inv, NEW c \in Callers, SetForwarder(c), Quiet
  PROVE  Inv'
<1> DEFINE r == [call[c] EXCEPT !.at = "note"]
<1>1. call' = [call EXCEPT ![c] = r]
  BY DEF SetForwarder, Goto, Inv, Kinds
<1>2. /\ UNCHANGED <<listed, users, phase, svc, wanted, backup, upstream>>
      /\ call[c].at = "forward" /\ forwarder' = call[c].list
  BY DEF SetForwarder, Quiet, world, services, store
<1>3. IsCall(r) /\ r.at = "note" /\ r.was = call[c].was /\ r.failed = call[c].failed
      /\ r.list = call[c].list
  BY DEF Inv, Kinds, IsCall, CallFields
<1> HIDE DEF r
<1>4. call'[c] = r
  BY <1>1 DEF Inv, Kinds
<1>5. Backed'
  BY <1>2, HasBackup DEF Backed, IsBackup
<1>6. Staged(c)'
  BY <1>2, <1>3, <1>4 DEF Staged
<1>7. \A s \in Services : svc'[s] = <<Loop>> \/ svc'[s] \in users[s]
  BY <1>2 DEF Inv, Kinds, Hijacked
<1> QED BY <1>1, <1>2, <1>3, <1>5, <1>6, <1>7, StepFrame, Zenon DEF Inv, Kinds

(* ... and NoteUpstream catches up.                                         *)
LEMMA NoteUpstreamInv ==
  ASSUME Inv, NEW c \in Callers, NoteUpstream(c), Quiet
  PROVE  Inv'
<1> DEFINE q == [call[c] EXCEPT !.todo = ListServices, !.at = "apply"]
           r == IF call[c].op = "activate" THEN q ELSE Idle
<1>1. call' = [call EXCEPT ![c] = r]
  BY Zenon DEF NoteUpstream, Return, Inv, Kinds
<1>2. /\ UNCHANGED <<listed, users, phase, svc, wanted, backup, forwarder>>
      /\ call[c].at = "note" /\ upstream' = call[c].list
  BY DEF NoteUpstream, Quiet, world, services, store
<1>3. IsCall(q) /\ q.at = "apply" /\ q.was = call[c].was /\ q.failed = call[c].failed
      /\ q.todo = listed
  <2>1. IsCall(call[c])
    BY DEF Inv, Kinds
  <2> QED BY <2>1, Zenon DEF ListServices, IsCall, CallFields
<1>4. r = q \/ r = Idle
  OBVIOUS
<1> HIDE DEF q, r
<1>5. /\ IsCall(r) /\ r.was \in BOOLEAN /\ r.failed \in BOOLEAN
      /\ r.at = "idle" \/ (r.at = "apply" /\ r.todo = listed)
  BY <1>3, <1>4, IdleIsCall, Zenon DEF Inv, Kinds
<1>6. call'[c] = r
  BY <1>1 DEF Inv, Kinds
<1>7. Backed'
  BY <1>2, HasBackup DEF Backed, IsBackup
<1>8. Staged(c)'
  BY <1>2, <1>5, <1>6 DEF Staged, Inv, Kinds
<1>9. forwarder' = upstream'
  BY <1>2 DEF Inv, Staged
<1>10. \A s \in Services : svc'[s] = <<Loop>> \/ svc'[s] \in users[s]
  BY <1>2 DEF Inv, Kinds, Hijacked
<1> QED BY <1>1, <1>2, <1>5, <1>7, <1>8, <1>9, <1>10, StepFrame, Zenon DEF Inv, Kinds

(* A restoration starts from the backup, which is there.                    *)
LEMMA ReadBackupInv ==
  ASSUME Inv, NEW c \in Callers, ReadBackup(c), Quiet
  PROVE  Inv'
<1> DEFINE r == [call[c] EXCEPT !.snap = backup, !.todo = DOMAIN backup, !.at = "restore",
                                !.was = TRUE]
<1>1. /\ UNCHANGED <<listed, users, phase, svc, wanted, backup, forwarder, upstream>>
      /\ call[c].at = "readBackup"
  BY DEF ReadBackup, Quiet, world, services, store, picked
<1>2. IsBackup(backup)
  BY <1>1, HasBackup
<1>3. backup # Absent
  <2>1. DOMAIN Absent = {}
    BY DEF Absent
  <2> QED BY <1>2, <2>1 DEF IsBackup
<1>4. call' = [call EXCEPT ![c] = r]
  BY <1>3, Zenon DEF ReadBackup, Inv, Kinds
<1>5. IsCall(r) /\ r.at = "restore" /\ r.was = TRUE /\ r.failed = call[c].failed
      /\ r.snap = backup /\ r.todo = DOMAIN backup
  <2>1. IsCall(call[c])
    BY DEF Inv, Kinds
  <2> QED BY <2>1, Zenon DEF IsCall, CallFields
<1> HIDE DEF r
<1>6. call'[c] = r
  BY <1>4 DEF Inv, Kinds
<1>7. Backed'
  BY <1>1, <1>2, Zenon DEF Backed, IsBackup
<1>8. Staged(c)'
  BY <1>1, <1>5, <1>6 DEF Staged
<1>9. forwarder' = upstream'
  BY <1>1 DEF Inv, Noted, Alone
<1>10. \A s \in Services : svc'[s] = <<Loop>> \/ svc'[s] \in users[s]
  BY <1>1 DEF Inv, Kinds, Hijacked
<1> QED BY <1>1, <1>4, <1>5, <1>7, <1>8, <1>9, <1>10, StepFrame, Zenon DEF Inv, Kinds

(* One networksetup write, of 127.0.0.1 or of what the backup holds.        *)
LEMMA SetServiceInv ==
  ASSUME Inv, NEW c \in Callers, Quiet, ApplyAll(c) \/ RestoreAll(c)
  PROVE  Inv'
<1>1. /\ UNCHANGED <<listed, users, phase, wanted, backup, forwarder, upstream>>
      /\ call[c].at \in {"apply", "restore"}
  BY DEF ApplyAll, RestoreAll, Quiet, world, store, picked
<1>2. IsBackup(backup)
  BY <1>1, HasBackup
<1> DEFINE Writes(s, list) ==
             /\ SetServiceDNS(c, s, list)
             /\ call[c].at = "apply" => list = <<Loop>>
             /\ call[c].at = "restore" => list = backup[s] /\ s \in DOMAIN backup
<1>3. \E s \in call[c].todo : \E list : Writes(s, list)
  <2>1. CASE ApplyAll(c)
    BY <2>1 DEF ApplyAll
  <2>2. CASE RestoreAll(c)
    BY <2>2 DEF RestoreAll, Inv, Staged
  <2> QED BY <2>1, <2>2
<1> SUFFICES ASSUME NEW s \in call[c].todo, NEW list, Writes(s, list) PROVE Inv'
  BY <1>3
<1>4. /\ s \in Services
      /\ list = <<Loop>> \/ list \in users[s]
      /\ call[c].at = "restore" => list # <<Loop>>
  <2>1. CASE call[c].at = "apply"
    <3>1. call[c].todo \subseteq Services
      BY <2>1 DEF Inv, Staged
    <3> QED BY <2>1, <3>1
  <2>2. CASE call[c].at = "restore"
    <3>1. s \in DOMAIN backup /\ list = backup[s]
      BY <2>2
    <3>2. s \in Services /\ list \in users[s]
      BY <1>2, <3>1 DEF IsBackup
    <3>3. list \in Manual
      BY <3>2 DEF Inv, Kinds
    <3> QED BY <3>2, <3>3, UserLists
  <2> QED BY <1>1, <2>1, <2>2
<1>5. forwarder' = upstream'
  BY <1>1 DEF Inv, Noted, Alone
<1>6. Backed'
  BY <1>1, <1>2, Zenon DEF Backed, IsBackup
<1>7. CASE /\ svc' = [svc EXCEPT ![s] = list]
           /\ call' = [call EXCEPT ![c].todo = @ \ {s}]
  <2> DEFINE r == [call[c] EXCEPT !.todo = @ \ {s}]
  <2>1. call' = [call EXCEPT ![c] = r]
    BY <1>7 DEF Inv, Kinds
  <2>2. /\ IsCall(r) /\ r.at = call[c].at /\ r.was = call[c].was /\ r.failed = call[c].failed
        /\ r.snap = call[c].snap /\ r.todo = call[c].todo \ {s}
    <3>1. IsCall(call[c])
      BY DEF Inv, Kinds
    <3> QED BY <3>1 DEF IsCall, CallFields
  <2> HIDE DEF r
  <2>3. call'[c] = r
    BY <2>1 DEF Inv, Kinds
  <2>4. /\ svc' \in [Services -> Manual \cup {<<Loop>>}]
        /\ svc'[s] = list /\ \A t \in Services \ {s} : svc'[t] = svc[t]
    BY <1>4, <1>7 DEF Inv, Kinds
  <2>5. Staged(c)'
    BY <1>1, <1>2, <1>4, <2>2, <2>3, <2>4 DEF Inv, Staged, Hijacked, IsBackup
  <2>6. \A t \in Services : svc'[t] = <<Loop>> \/ svc'[t] \in users[t]
    BY <1>4, <2>4 DEF Inv, Kinds, Hijacked
  <2>7. r.was \in BOOLEAN /\ r.failed \in BOOLEAN /\ wanted' \in BOOLEAN
    BY <1>1, <2>2, Zenon DEF Inv, Kinds
  <2> QED BY <1>1, <1>5, <1>6, <2>1, <2>2, <2>4, <2>5, <2>6, <2>7, StepFrame, Zenon
<1>8. CASE /\ call' = [call EXCEPT ![c].todo = @ \ {s}, ![c].failed = TRUE]
           /\ UNCHANGED svc
  <2> DEFINE r == [call[c] EXCEPT !.todo = @ \ {s}, !.failed = TRUE]
  <2>1. call' = [call EXCEPT ![c] = r]
    BY <1>8, Zenon DEF Inv, Kinds
  <2>2. /\ IsCall(r) /\ r.at = call[c].at /\ r.was = call[c].was /\ r.failed = TRUE
        /\ r.snap = call[c].snap /\ r.todo = call[c].todo \ {s}
    <3>1. IsCall(call[c])
      BY DEF Inv, Kinds
    <3> QED BY <3>1, Zenon DEF IsCall, CallFields
  <2> HIDE DEF r
  <2>3. call'[c] = r
    BY <2>1 DEF Inv, Kinds
  <2>4. Staged(c)'
    BY <1>1, <1>8, <2>2, <2>3, Zenon DEF Inv, Staged
  <2>5. \A t \in Services : svc'[t] = <<Loop>> \/ svc'[t] \in users[t]
    BY <1>8 DEF Inv, Kinds, Hijacked
  <2>6. r.was \in BOOLEAN /\ r.failed \in BOOLEAN /\ wanted' \in BOOLEAN
        /\ svc' \in [Services -> Manual \cup {<<Loop>>}]
    BY <1>1, <1>8, <2>2, Zenon DEF Inv, Kinds
  <2> QED BY <1>1, <1>5, <1>6, <2>1, <2>2, <2>4, <2>5, <2>6, StepFrame, Zenon
<1> QED BY <1>3, <1>7, <1>8 DEF SetServiceDNS

(* Every step of every procedure.                                           *)
LEMMA ProcedureInv ==
  ASSUME Inv, NEW c \in Callers, Step(c)
  PROVE  Inv'
<1>1. Quiet
  BY DEF Step, Quiet
<1> QED BY <1>1, ReadActiveInv, CaptureAllInv, SaveBackupInv, SetForwarderInv, NoteUpstreamInv,
           ReadBackupInv, SetServiceInv, PlainStepInv DEF Step

(* What no procedure and no property looks at changes nothing.              *)
LEMMA Unconcerned ==
  ASSUME Inv,
         UNCHANGED <<listed, users, phase, svc, wanted, backup, forwarder, upstream, call>>
  PROVE  Inv'
<1>1. Kinds' /\ Alone' /\ Noted'
  BY DEF Inv, Kinds, Alone, Noted, Hijacked
<1>2. Backed'
  BY DEF Inv, Backed, Hijacked, IsBackup
<1>3. ASSUME NEW c \in Callers PROVE Staged(c)'
  BY DEF Inv, Staged, Hijacked, IsBackup
<1> QED BY <1>1, <1>2, <1>3 DEF Inv

(* A procedure starts while all are idle, and the backup is there.          *)
LEMMA StartInv ==
  ASSUME Inv, ~Overlap, NEW c \in Callers, MayStart(c), NEW op, NEW at, Starts(c, op, at),
         at \in {"check", "probe", "isActive", "readBackup", "repick"},
         at = "repick" => op # "activate",
         UNCHANGED <<listed, users, phase, svc, wanted, backup, forwarder, upstream>>
  PROVE  Inv'
<1> DEFINE r == [call[c] EXCEPT !.op = op, !.at = at]
<1>1. call' = [call EXCEPT ![c] = r]
  BY Zenon DEF Starts, Inv, Kinds
<1>2. IsCall(r) /\ r.at = at /\ r.op = op /\ r.was = call[c].was /\ r.failed = call[c].failed
  <2>1. IsCall(call[c])
    BY DEF Inv, Kinds
  <2> QED BY <2>1, ZenonT(30) DEF IsCall, CallFields
<1> HIDE DEF r
<1>3. call'[c] = r /\ DOMAIN call' = Callers /\ \A d \in Callers \ {c} : call'[d] = call[d]
  BY <1>1 DEF Inv, Kinds
<1>4. phase = "up" /\ \A d \in Callers : call[d].at = "idle"
  BY DEF MayStart
<1>5. Kinds'
  BY <1>2, <1>3 DEF Inv, Kinds, Hijacked
<1>6. Alone'
  BY <1>3, <1>4 DEF Inv, Alone
<1>7. Backed'
  BY <1>4 DEF Inv, Backed, IsBackup
<1>8. ASSUME NEW d \in Callers PROVE Staged(d)'
  BY <1>2, <1>3, <1>4 DEF Staged
<1>9. Noted'
  BY <1>4 DEF Inv, Noted
<1> QED BY <1>5, <1>6, <1>7, <1>8, <1>9 DEF Inv

(* The ticker, the watcher, its settle timers and the IPC handlers.         *)
LEMMA StartsInv ==
  ASSUME Inv, ~Overlap, PollTick \/ WatchFires \/ SettleFires \/ Request
  PROVE  Inv'
<1>1. {"main", "poll", "watch", "settle", "ipc"} = Callers
  BY DEF Callers
<1>2. CASE PollTick
  <2>1. UNCHANGED <<listed, users, phase, svc, wanted, backup, forwarder, upstream>>
    BY <1>2 DEF PollTick, world, services, store, picked
  <2>2. MayStart("poll") /\ (Starts("poll", "none", "check") \/ Starts("poll", "none", "probe"))
    BY <1>2 DEF PollTick
  <2> QED BY <1>1, <2>1, <2>2, StartInv
<1>3. CASE WatchFires
  <2>1. UNCHANGED <<listed, users, phase, svc, wanted, backup, forwarder, upstream>>
    BY <1>3 DEF WatchFires, world, store, picked
  <2>2. MayStart("watch") /\ (Starts("watch", "none", "check") \/ UNCHANGED call)
    BY <1>3 DEF WatchFires
  <2> QED BY <1>1, <2>1, <2>2, StartInv, Unconcerned
<1>4. CASE SettleFires
  <2>1. UNCHANGED <<listed, users, phase, svc, wanted, backup, forwarder, upstream>>
    BY <1>4 DEF SettleFires, world, services, store, picked
  <2>2. MayStart("settle") /\ (Starts("settle", "none", "check") \/ UNCHANGED call)
    BY <1>4 DEF SettleFires
  <2> QED BY <1>1, <2>1, <2>2, StartInv, Unconcerned
<1>5. CASE Request
  <2>1. UNCHANGED <<listed, users, phase, svc, wanted, backup, forwarder, upstream>>
    BY <1>5 DEF Request, services, store, picked
  <2>2. /\ MayStart("ipc")
        /\ \/ Starts("ipc", "activate", "isActive") \/ Starts("ipc", "deactivate", "readBackup")
           \/ Starts("ipc", "repick", "repick")
    BY <1>5 DEF Request
  <2> QED BY <1>1, <2>1, <2>2, StartInv
<1> QED BY <1>2, <1>3, <1>4, <1>5

(* The user's own edit is one of the lists the backup may hold from now on. *)
LEMMA UserSetsInv ==
  ASSUME Inv, NEW s \in Services, UserSets(s)
  PROVE  Inv'
<1>1. PICK list \in Manual :
        svc' = [svc EXCEPT ![s] = list] /\ users' = [users EXCEPT ![s] = @ \cup {list}]
  BY Zenon DEF UserSets
<1>2. UNCHANGED <<listed, phase, wanted, backup, forwarder, upstream, call>>
  BY DEF UserSets, store, picked
<1>3. /\ svc' \in [Services -> Manual \cup {<<Loop>>}] /\ users' \in [Services -> SUBSET Manual]
      /\ svc'[s] = list /\ \A t \in Services \ {s} : svc'[t] = svc[t]
      /\ list \in users'[s] /\ \A t \in Services : users[t] \subseteq users'[t]
  BY <1>1 DEF Inv, Kinds
<1>4. \A t \in Services : ~Hijacked(t) => ~Hijacked(t)'
  BY <1>3, UserLists DEF Hijacked
<1>5. \A snap : IsBackup(snap) => IsBackup(snap)'
  BY <1>3 DEF IsBackup
<1>6. Kinds'
  BY <1>2, <1>3 DEF Inv, Kinds, Hijacked
<1>7. Alone' /\ Noted'
  BY <1>2 DEF Inv, Alone, Noted
<1>8. Backed'
  <2>1. CASE IsBackup(backup)
    BY <1>2, <1>3, <2>1 DEF Backed, IsBackup
  <2>2. CASE ~ IsBackup(backup)
    BY <1>2, <1>4, <2>2 DEF Inv, Backed
  <2> QED BY <2>1, <2>2
<1>9. ASSUME NEW c \in Callers PROVE Staged(c)'
  <2>1. call[c].at = "backup" => IsBackup(call[c].snap)'
    BY <1>2, <1>3 DEF Inv, Staged, IsBackup
  <2>2. listed \subseteq Services
    BY DEF Inv, Kinds
  <2>3. call[c].at = "restore" => DOMAIN backup \subseteq Services
    BY HasBackup DEF IsBackup
  <2> QED BY <1>2, <1>4, <2>1, <2>2, <2>3 DEF Inv, Staged
<1> QED BY <1>6, <1>7, <1>8, <1>9 DEF Inv

(* A service switched on or off is not one being captured.                  *)
LEMMA UserTogglesInv ==
  ASSUME Inv, NEW s \in Services, UserToggles(s)
  PROVE  Inv'
<1>1. /\ UNCHANGED <<users, phase, svc, wanted, backup, forwarder, upstream, call>>
      /\ listed' # {} /\ \A c \in Callers : call[c].at # "capture"
  BY DEF UserToggles, services, store, picked
<1>2. listed' \subseteq Services
  BY DEF UserToggles, SymDiff, Inv, Kinds
<1>3. Kinds' /\ Alone' /\ Noted'
  BY <1>1, <1>2 DEF Inv, Kinds, Alone, Noted, Hijacked
<1>4. Backed'
  BY <1>1, ZenonT(40) DEF Inv, Backed, Hijacked, IsBackup
<1>5. ASSUME NEW c \in Callers PROVE Staged(c)'
  BY <1>1, Zenon DEF Inv, Staged, Hijacked, IsBackup
<1> QED BY <1>3, <1>4, <1>5 DEF Inv

(* A crash forgets the procedures and nothing that is stored.               *)
LEMMA DiesInv ==
  ASSUME Inv, Dies
  PROVE  Inv'
<1>1. /\ UNCHANGED <<listed, users, svc, wanted, backup>> /\ phase' = "down"
      /\ call' = [c \in Callers |-> Idle] /\ forwarder' = upstream'
  BY DEF Dies, world, store
<1>2. DOMAIN call' = Callers /\ \A c \in Callers : call'[c] = Idle
  BY <1>1
<1>3. Kinds' /\ Alone' /\ Noted'
  BY <1>1, <1>2, IdleIsCall, Zenon DEF Inv, Kinds, Alone, Noted, Hijacked
<1>4. Backed'
  BY <1>1 DEF Inv, Backed, Hijacked, IsBackup
<1>5. ASSUME NEW c \in Callers PROVE Staged(c)'
  BY <1>2, IdleIsCall DEF Staged
<1> QED BY <1>3, <1>4, <1>5 DEF Inv

(* The start-up code activates if the preference says so.                   *)
LEMMA BootsInv ==
  ASSUME Inv, Boots
  PROVE  Inv'
<1>1. /\ UNCHANGED <<listed, users, svc, wanted, backup>> /\ phase' = "boot"
      /\ forwarder' = upstream' /\ \A c \in Callers : call[c].at = "idle"
  BY Zenon DEF Boots, world, services, store, Inv, Alone
<1>2. "main" \in Callers
  BY DEF Callers
<1>3. CASE wanted
  <2> DEFINE r == [call["main"] EXCEPT !.op = "activate", !.at = "isActive"]
  <2>1. call' = [call EXCEPT !["main"] = r]
    BY <1>2, <1>3, Zenon DEF Boots, Starts, Inv, Kinds
  <2>2. /\ IsCall(r) /\ r.at = "isActive" /\ r.op = "activate" /\ r.was = call["main"].was
        /\ r.failed = call["main"].failed
    <3>1. IsCall(call["main"])
      BY <1>2 DEF Inv, Kinds
    <3> QED BY <3>1, Zenon DEF IsCall, CallFields
  <2> HIDE DEF r
  <2>3. /\ call'["main"] = r /\ DOMAIN call' = Callers
        /\ \A d \in Callers \ {"main"} : call'[d] = call[d]
    BY <1>2, <2>1 DEF Inv, Kinds
  <2>4. Kinds'
    BY <1>1, <1>2, <2>2, <2>3 DEF Inv, Kinds, Hijacked
  <2>5. Alone' /\ Noted'
    BY <1>1, <2>2, <2>3 DEF Inv, Alone, Noted
  <2>6. Backed'
    BY <1>1, <2>2, <2>3 DEF Inv, Backed, Hijacked, IsBackup
  <2>7. ASSUME NEW c \in Callers PROVE Staged(c)'
    BY <1>1, <2>2, <2>3 DEF Staged
  <2> QED BY <2>4, <2>5, <2>6, <2>7 DEF Inv
<1>4. CASE ~wanted
  <2>1. UNCHANGED call
    BY <1>4 DEF Boots
  <2>2. Kinds' /\ Alone' /\ Noted'
    BY <1>1, <2>1 DEF Inv, Kinds, Alone, Noted, Hijacked
  <2>3. Backed'
    BY <1>1, <1>4 DEF Inv, Backed, IsBackup
  <2>4. ASSUME NEW c \in Callers PROVE Staged(c)'
    BY <1>1, <2>1 DEF Staged
  <2> QED BY <2>2, <2>3, <2>4 DEF Inv
<1> QED BY <1>3, <1>4, Zenon DEF Inv, Kinds

(* The goroutines start once that activation is over.                       *)
LEMMA ServesInv ==
  ASSUME Inv, Serves
  PROVE  Inv'
<1>1. /\ UNCHANGED <<listed, users, svc, wanted, backup, forwarder, upstream, call>>
      /\ phase = "boot" /\ phase' = "up" /\ call["main"].at = "idle"
  BY DEF Serves, world, services, store, picked
<1>2. Kinds' /\ Alone' /\ Noted'
  BY <1>1 DEF Inv, Kinds, Alone, Noted, Hijacked
<1>3. Backed'
  BY <1>1, Zenon DEF Inv, Backed, IsBackup
<1>4. ASSUME NEW c \in Callers PROVE Staged(c)'
  BY <1>1, Zenon DEF Inv, Staged, Hijacked, IsBackup
<1> QED BY <1>2, <1>3, <1>4 DEF Inv

(* A fresh machine satisfies the invariant, ...                             *)
LEMMA InitInv == Init => Inv
<1> SUFFICES ASSUME Init PROVE Inv
  OBVIOUS
<1>1. DOMAIN call = Callers /\ \A c \in Callers : call[c] = Idle
  BY DEF Init
<1>2. \A s \in Services : svc[s] \in Manual /\ svc[s] \in users[s] /\ ~Hijacked(s)
  BY UserLists DEF Init, Hijacked
<1>3. Kinds
  BY <1>1, <1>2, IdleIsCall, ConstantsFit, Zenon DEF Init, Kinds
<1>4. Alone /\ Noted
  BY <1>1, IdleIsCall DEF Init, Alone, Noted
<1>5. Backed
  BY <1>2 DEF Init, Backed
<1>6. ASSUME NEW c \in Callers PROVE Staged(c)
  BY <1>1, IdleIsCall DEF Staged
<1> QED BY <1>3, <1>4, <1>5, <1>6 DEF Inv

(* ... and every step preserves it.                                         *)
LEMMA NextInv ==
  ASSUME Inv, ~Overlap, [Next]_vars
  PROVE  Inv'
<1>1. CASE Procedures
  BY <1>1, ProcedureInv DEF Procedures
<1>2. CASE PollTick \/ WatchFires \/ SettleFires \/ Request
  BY <1>2, StartsInv
<1>3. CASE Boots
  BY <1>3, BootsInv
<1>4. CASE Serves
  BY <1>4, ServesInv
<1>5. CASE NetworkMoves \/ WatchMisses
  BY <1>5, Unconcerned DEF NetworkMoves, WatchMisses, world, store, picked
<1>6. CASE Dies
  BY <1>6, DiesInv
<1>7. CASE \E s \in Services : UserSets(s) \/ UserToggles(s)
  BY <1>7, UserSetsInv, UserTogglesInv
<1>8. CASE UNCHANGED vars
  BY <1>8, Unconcerned DEF vars, world, services, store, picked
<1> QED BY <1>1, <1>2, <1>3, <1>4, <1>5, <1>6, <1>7, <1>8 DEF Next, Environment

(* While the callers of the system-DNS code do not overlap: the backup      *)
(* holds, for every service, resolvers its user had chosen, and when no     *)
(* procedure is under way the forwarder is the list the daemon believes in. *)
(* For any services, networks and lists, with crashes, failing networksetup *)
(* calls, users' edits and moves between networks at any point.             *)
THEOREM MemoryTrue == ~Overlap /\ Spec => []MemoryIsTrue
<1> SUFFICES ASSUME ~Overlap PROVE Spec => []MemoryIsTrue
  OBVIOUS
<1>1. Inv => MemoryIsTrue
  <2> SUFFICES ASSUME Inv PROVE BackupIsUsers /\ ForwarderIsKnown
    BY DEF MemoryIsTrue
  <2>1. BackupIsUsers
    BY DEF Inv, Backed, IsBackup, BackupIsUsers
  <2>2. ForwarderIsKnown
    BY DEF Inv, Noted, ForwarderIsKnown
  <2> QED BY <2>1, <2>2
<1>2. Inv /\ [Next]_vars => Inv'
  BY NextInv
<1> QED BY <1>1, <1>2, InitInv, PTL DEF Spec

(* A Deactivate that reports success has taken the loopback out of every    *)
(* service of the backup.                                                   *)
THEOREM Deactivates == ~Overlap /\ Spec => DeactivateClears
<1> SUFFICES ASSUME ~Overlap PROVE Spec => DeactivateClears
  OBVIOUS
<1> DEFINE Clears ==
      \A c \in Callers :
        /\ call[c].at = "restore" /\ call[c].op = "deactivate" /\ ~call[c].failed
        /\ call'[c].at = "idle" /\ phase' # "down"
        => \A s \in DOMAIN backup : Loop \notin Range(svc[s])
<1>1. ASSUME Inv, [Next]_vars PROVE [Clears]_vars
  <2> SUFFICES ASSUME Next, NEW c \in Callers,
                      call[c].at = "restore", ~call[c].failed,
                      call'[c].at = "idle", phase' # "down"
               PROVE  \A s \in DOMAIN backup : Loop \notin Range(svc[s])
    BY <1>1
  <2>1. RestoredAll(c)
    <3>1. phase # "down"
      BY <1>1 DEF Inv, Alone
    <3>2. \A d \in Callers : call[d].at # "idle" => d = c
      BY <1>1 DEF Inv, Alone
    <3>3. call' # call
      OBVIOUS
    <3>4. ~ MayStart("poll") /\ ~ MayStart("watch") /\ ~ MayStart("settle") /\ ~ MayStart("ipc")
      BY DEF MayStart
    <3>5. ~ (PollTick \/ WatchFires \/ SettleFires \/ Request)
      BY <3>4 DEF PollTick, WatchFires, SettleFires, Request
    <3>6. ~ (Boots \/ Serves \/ NetworkMoves \/ WatchMisses \/ Dies)
      BY <3>1, <3>3 DEF Boots, Serves, NetworkMoves, WatchMisses, Dies
    <3>7. ASSUME NEW s \in Services PROVE ~ UserSets(s) /\ ~ UserToggles(s)
      BY <3>3, Zenon DEF UserSets, UserToggles
    <3>8. PICK d \in Callers : Step(d)
      BY <3>5, <3>6, <3>7 DEF Next, Environment, Procedures
    <3>9. call[d].at # "idle"
      BY <3>8, Zenon DEF Step, ReadActive, CaptureAll, SaveBackup, Choose, SaveUpstream, SetForwarder,
                  NoteUpstream, ApplyAll, AppliedAll, ReadBackup, RestoreAll, RestoredAll,
                  Validate, Repick, CheckOff, CheckOn, Probe
    <3>10. RestoreAll(c) \/ RestoredAll(c)
      BY <3>2, <3>8, <3>9, Zenon
      DEF Step, ReadActive, CaptureAll, SaveBackup, Choose, SaveUpstream, SetForwarder,
          NoteUpstream, ApplyAll, AppliedAll, ReadBackup, Validate, Repick, CheckOff, CheckOn, Probe
    <3>11. ASSUME RestoreAll(c) PROVE FALSE
      <4>1. PICK s : \/ call' = [call EXCEPT ![c].todo = @ \ {s}]
                     \/ call' = [call EXCEPT ![c].todo = @ \ {s}, ![c].failed = TRUE]
        BY <3>11 DEF RestoreAll, SetServiceDNS
      <4>2. call'[c].at = call[c].at
        BY <1>1, <4>1 DEF Inv, Kinds, IsCall, CallFields
      <4> QED BY <4>2
    <3> QED BY <3>10, <3>11
  <2>2. call[c].todo = {}
    BY <2>1 DEF RestoredAll
  <2>3. DOMAIN backup \subseteq Services
    BY <1>1, HasBackup DEF IsBackup
  <2>4. \A s \in DOMAIN backup : ~Hijacked(s)
    BY <1>1, <2>2 DEF Inv, Staged
  <2> QED BY <1>1, <2>3, <2>4, ActiveMeans DEF Inv
<1>2. Inv /\ [Next]_vars => Inv'
  BY NextInv
<1> QED BY <1>1, <1>2, InitInv, PTL DEF Spec, DeactivateClears
=============================================================================
