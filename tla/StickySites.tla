---------------------------- MODULE StickySites ----------------------------
(***************************************************************************)
(* Which exit a destination keeps: the sticky bindings of a host and of its *)
(* site (daemon/proxysticky.go) and the part of the tunnel that feeds them  *)
(* (noteUpstreamFailure, settleBinding, bindingMoves, the end of handle,    *)
(* associateUDP's record of a flow's first association).                    *)
(*                                                                         *)
(* Several connections to the host are under way at once; settleBinding     *)
(* reads, decides and writes in separate critical sections.  The ranking    *)
(* and the seats are netprobe's: any answer of theirs is allowed.  Stamps   *)
(* are ages, saturated where nothing compares them any more.                *)
(***************************************************************************)
EXTENDS Naturals

CONSTANTS
  Members,      \* the rule's binding
  Flows,        \* connections to the host in flight at a time
  BindKeys,     \* the host's key and its site's key, in stickyKeys' order
  MoveMisses,   \* stickyMoveMisses
  MoveAfter,    \* stickyMoveAfter
  MissReset,    \* stickyMissReset
  StickyTTL     \* stickyTTL

VARIABLES
  sticky,   \* key -> [name, age, misses, first, last]
  flow,     \* connection -> [pc, lead, used, failed, todo, key, missed]
  trail     \* ghost: key -> [was: the exit it last had, since: ticks since misses
            \*   moved it, missed: misses dropped it, early: they moved it too soon]

stickyVars == <<sticky, flow, trail>>

Nobody == "nobody"
Unbound == [name |-> Nobody, age |-> 0, misses |-> 0, first |-> 0, last |-> 0]
Resting == [pc |-> "idle", lead |-> Nobody, used |-> Nobody, failed |-> {}, todo |-> {},
            key |-> Nobody, missed |-> FALSE]

StickyInit ==
  /\ sticky = [k \in BindKeys |-> Unbound]
  /\ flow = [f \in Flows |-> Resting]
  /\ trail = [k \in BindKeys |-> [was |-> Nobody, since |-> MoveAfter, missed |-> FALSE,
                                  early |-> FALSE]]

(***************************************************************************)
(* stickyBindings                                                          *)
(***************************************************************************)
Get(k) == IF sticky[k].age > StickyTTL THEN Nobody ELSE sticky[k].name

(* Miss: the entry after one more miss of the member it names.              *)
Missed(e) ==
  LET stale == e.misses > 0 /\ e.last > MissReset
      run == IF stale THEN 0 ELSE e.misses
  IN [e EXCEPT !.misses = IF run < MoveMisses THEN run + 1 ELSE run,
               !.first = IF run = 0 THEN 0 ELSE e.first,
               !.last = 0]

(* A plausible slip: the misses need not be spread over MoveAfter.          *)
ShouldMoveOnCount(e) == e.misses >= MoveMisses

ShouldMove(e) == e.misses >= MoveMisses /\ e.first >= MoveAfter

Bound(m) == [Unbound EXCEPT !.name = m]

(* noteUpstreamFailure(m): a miss on each key that names m, which drops the *)
(* binding when it was the last straw.                                      *)
DropsNow(k, m) == Get(k) = m /\ ShouldMove(Missed(sticky[k]))

noteUpstreamFailure(m) ==
  /\ sticky' = [k \in BindKeys |->
                  IF Get(k) # m THEN sticky[k]
                  ELSE IF DropsNow(k, m) THEN Unbound ELSE Missed(sticky[k])]
  /\ trail' = [k \in BindKeys |->
       [trail[k] EXCEPT !.missed = @ \/ DropsNow(k, m),
                        !.early = @ \/ (DropsNow(k, m) /\ trail[k].since < MoveAfter)]]

(***************************************************************************)
(* A connection: dialBinding or associateUDP, then the splice               *)
(***************************************************************************)
(* orderedNames, then the dials: some member carries the connection after   *)
(* some others failed it.  (When all fail nobody is blamed.)                *)
Dial(f) ==
  /\ flow[f].pc = "idle"
  /\ \E lead \in Members, used \in Members, failed \in SUBSET Members :
       /\ used \notin failed
       /\ flow' = [flow EXCEPT ![f] = [Resting EXCEPT !.pc = "blame", !.lead = lead, !.used = used,
                                                      !.failed = failed, !.todo = failed]]
  /\ UNCHANGED <<sticky, trail>>

Blame(f) ==
  /\ flow[f].pc = "blame"
  /\ \/ \E m \in flow[f].todo : /\ noteUpstreamFailure(m)
                                /\ flow' = [flow EXCEPT ![f].todo = @ \ {m}]
     \/ /\ flow[f].todo = {}
        /\ flow' = [flow EXCEPT ![f].pc = "settle", ![f].todo = BindKeys]
        /\ UNCHANGED <<sticky, trail>>

(* bindingMoves: why key k leaves cur for the member that just carried a    *)
(* connection, given cur's seat.                                            *)
LeadsAway(f, cur, seat) == seat = "held" /\ flow[f].lead # cur

KeyDone(f, k) == flow' = [flow EXCEPT ![f].todo = @ \ {k}]
KeyWrite(f, k, missed) ==
  flow' = [flow EXCEPT ![f].pc = "set", ![f].todo = @ \ {k}, ![f].key = k, ![f].missed = missed]

(* One key of settleBinding up to its decision.                             *)
Settle(f) ==
  /\ flow[f].pc = "settle"
  /\ \E k \in flow[f].todo, seat \in {"held", "outage", "lost"} :
       LET cur == Get(k)
           used == flow[f].used
           failed == cur \in flow[f].failed
       IN \/ /\ cur \in {Nobody, used} \/ seat = "lost" \/ (~failed /\ LeadsAway(f, cur, seat))
             /\ KeyWrite(f, k, FALSE) /\ UNCHANGED <<sticky, trail>>
          \/ /\ cur \notin {Nobody, used} /\ seat # "lost" /\ failed
             /\ KeyDone(f, k) /\ UNCHANGED <<sticky, trail>>
          \/ /\ cur \notin {Nobody, used} /\ seat # "lost" /\ ~failed /\ ~LeadsAway(f, cur, seat)
             /\ sticky' = [sticky EXCEPT ![k] = Missed(@)]
             /\ IF ShouldMove(sticky'[k])
                  THEN /\ KeyWrite(f, k, TRUE)
                       /\ trail' = [trail EXCEPT ![k].early = @ \/ trail[k].since < MoveAfter]
                  ELSE KeyDone(f, k) /\ UNCHANGED trail

(* The write; the ghost dates it when it is a move that misses caused.      *)
Set(f) ==
  /\ flow[f].pc = "set"
  /\ LET k == flow[f].key
         moves == trail[k].was \notin {Nobody, flow[f].used} /\ (flow[f].missed \/ trail[k].missed)
     IN /\ sticky' = [sticky EXCEPT ![k] = Bound(flow[f].used)]
        /\ trail' = [trail EXCEPT ![k] =
             [@ EXCEPT !.was = flow[f].used, !.since = IF moves THEN 0 ELSE @, !.missed = FALSE]]
  /\ flow' = [flow EXCEPT ![f].pc = "settle", ![f].key = Nobody, ![f].missed = FALSE]

(* The splice ends: silence blames the member (when the uplink witness says *)
(* so), data or an early hang-up changes no binding.                        *)
EndSplice(f) ==
  /\ flow[f].pc = "settle" /\ flow[f].todo = {}
  /\ flow' = [flow EXCEPT ![f] = Resting]
  /\ \/ noteUpstreamFailure(flow[f].used)
     \/ UNCHANGED <<sticky, trail>>

(***************************************************************************)
(* Time.  A tick is far longer than the steps between a decision and its    *)
(* write.                                                                   *)
(***************************************************************************)
Older(n, max) == IF n < max THEN n + 1 ELSE n

AgedBinding(e) ==
  IF e.age >= StickyTTL THEN Unbound
  ELSE [e EXCEPT !.age = @ + 1,
                 !.first = IF e.misses = 0 THEN 0 ELSE Older(@, MoveAfter),
                 !.last = IF e.misses = 0 THEN 0 ELSE Older(@, MissReset + 1)]

PassTime ==
  /\ \A f \in Flows : flow[f].pc = "idle" \/ (flow[f].pc = "settle" /\ flow[f].todo = {})
  /\ sticky' = [k \in BindKeys |->
                  IF sticky[k] = Unbound THEN Unbound ELSE AgedBinding(sticky[k])]
  /\ trail' = [k \in BindKeys |-> [trail[k] EXCEPT !.since = Older(@, MoveAfter)]]
  /\ UNCHANGED flow

StickyNext ==
  \/ \E f \in Flows : Dial(f) \/ Blame(f) \/ Settle(f) \/ Set(f) \/ EndSplice(f)
  \/ PassTime

StickySpec == StickyInit /\ [][StickyNext]_stickyVars

(***************************************************************************)
(* Properties                                                              *)
(***************************************************************************)

(* Misses never move a destination off its exit twice within MoveAfter,     *)
(* whichever of the host's connections notice them and in whatever order    *)
(* (proxysticky.go:33-40).                                                  *)
MovesAreSpaced == \A k \in BindKeys : ~trail[k].early
=============================================================================
