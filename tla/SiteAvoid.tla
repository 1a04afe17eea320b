------------------------------ MODULE SiteAvoid ------------------------------
(***************************************************************************)
(* Per-site avoidance (daemon/siteavoid.go) and the exit addresses it is   *)
(* shared by (daemon/exitkeys.go), for one site; sites share nothing.      *)
(*                                                                         *)
(* A failure of a member counts against the member and against the address *)
(* it leaves through, as far as that is known, and the two keys have a     *)
(* record each.  SiteAvoidStrikes failures within SiteAvoidWindow make a   *)
(* key avoided for SiteAvoidFor.  The addresses are measured in the        *)
(* background, so a member may be struck behind one and carry behind       *)
(* another.  A point in time is kept as its age, in units of the clock.    *)
(***************************************************************************)
EXTENDS Naturals, FiniteSets, Functions, TLC

CONSTANTS
    Upstreams,          \* the members of the binding
    Exits, NoExit,      \* exit addresses; not measured
    SiteAvoidStrikes, SiteAvoidWindow, SiteAvoidFor, SweepInterval

VARIABLES
    recs,       \* key -> [strikes, age, left]: of the window, of the avoidance
    swept,      \* age of the last sweep
    exits,      \* member -> its measured exit
    last,       \* history: key -> age of its last failure since it carried
    pair        \* history: key -> age of its last failure close to another

avoidVars == <<recs, swept, exits, last, pair>>

Keys == Upstreams \cup Exits
Long == SiteAvoidWindow + SiteAvoidFor + 1          \* an age nothing tells from more

avoidKeys(m) == {m, exits[m]} \ {NoExit}

avoidedKey(k) == k \in DOMAIN recs /\ recs[k].left > 0
avoided(m) == \E k \in avoidKeys(m) : avoidedKey(k)

sweep == IF swept < SweepInterval THEN recs
         ELSE Restrict(recs, {k \in DOMAIN recs :
                                recs[k].age <= SiteAvoidWindow \/ recs[k].left > 0})

NoRecord == [strikes |-> 0, age |-> 0, left |-> 0]

\* A plausible slip: strikes are counted for as long as the record lives.
StruckEver(r) ==
    IF r.strikes + 1 >= SiteAvoidStrikes
    THEN [strikes |-> 0, age |-> 0, left |-> SiteAvoidFor]
    ELSE [r EXCEPT !.strikes = @ + 1]

\* One more failure on record r; a window that is over starts again, and an
\* avoidance in force is carried into the new one.
Struck(r) ==
    LET w == IF r.age > SiteAvoidWindow THEN [NoRecord EXCEPT !.left = r.left] ELSE r
    IN  IF w.strikes + 1 >= SiteAvoidStrikes
        THEN [NoRecord EXCEPT !.left = SiteAvoidFor]
        ELSE [w EXCEPT !.strikes = @ + 1]

\* noteUpstreamFailure's share of a failed connection.
strike(m) ==
    /\ LET kept == sweep
           ks == avoidKeys(m)
       IN  recs' = [k \in DOMAIN kept \cup ks |->
                      IF k \notin ks THEN kept[k]
                      ELSE Struck(IF k \in DOMAIN kept THEN kept[k] ELSE NoRecord)]
    /\ swept' = IF swept < SweepInterval THEN swept ELSE 0
    /\ pair' = [k \in Keys |-> IF k \in avoidKeys(m) /\ last[k] <= SiteAvoidWindow
                               THEN 0 ELSE pair[k]]
    /\ last' = [k \in Keys |-> IF k \in avoidKeys(m) THEN 0 ELSE last[k]]
    /\ UNCHANGED exits

\* noteSiteCarried: an answer or data came back through m.
clear(m) ==
    /\ recs' = Restrict(recs, DOMAIN recs \ avoidKeys(m))
    /\ last' = [k \in Keys |-> IF k \in avoidKeys(m) THEN Long ELSE last[k]]
    /\ pair' = [k \in Keys |-> IF k \in avoidKeys(m) THEN Long ELSE pair[k]]
    /\ UNCHANGED <<swept, exits>>

\* resetHealth after a network change.
reset ==
    /\ recs' = << >>
    /\ last' = [k \in Keys |-> Long] /\ pair' = [k \in Keys |-> Long]
    /\ UNCHANGED <<swept, exits>>

\* A pass over the members of the bindings: what cannot be measured keeps its
\* last exit, a member that is in no binding of several loses its own.
probeExitKeys ==
    /\ \E listed \in SUBSET Upstreams, got \in [Upstreams -> Exits \cup {NoExit}] :
         exits' = [m \in Upstreams |->
                     CASE m \notin listed -> NoExit
                       [] got[m] = NoExit -> exits[m]
                       [] OTHER -> got[m]]
    /\ UNCHANGED <<recs, swept, last, pair>>

\* Ages nothing distinguishes any more are kept at their cap.
AvoidTick ==
    /\ recs' = [k \in DOMAIN recs |->
                  [recs[k] EXCEPT !.age = IF @ > SiteAvoidWindow THEN @ ELSE @ + 1,
                                  !.left = IF @ = 0 THEN 0 ELSE @ - 1]]
    /\ swept' = IF swept < SweepInterval THEN swept + 1 ELSE swept
    /\ last' = [k \in Keys |-> IF last[k] > SiteAvoidWindow THEN Long ELSE last[k] + 1]
    /\ pair' = [k \in Keys |-> IF pair[k] >= SiteAvoidFor THEN Long ELSE pair[k] + 1]
    /\ UNCHANGED exits

AvoidInit ==
    /\ recs = << >>
    /\ swept = SweepInterval
    /\ exits = [m \in Upstreams |-> NoExit]
    /\ last = [k \in Keys |-> Long] /\ pair = [k \in Keys |-> Long]

AvoidNext ==
    \/ \E m \in Upstreams : strike(m) \/ clear(m)
    \/ reset \/ probeExitKeys \/ AvoidTick

AvoidSpec == AvoidInit /\ [][AvoidNext]_avoidVars

-----------------------------------------------------------------------------
\* A member or an exit is avoided only on the strength of two failures close
\* together, the later of them recent, with no sign in between or since that
\* it carries the site: whatever windows, sweeps, network changes and newly
\* measured exits came in between.
AvoidanceIsEarned ==
    \A k \in DOMAIN recs : avoidedKey(k) => pair[k] < SiteAvoidFor

=============================================================================
