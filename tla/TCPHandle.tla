----------------------------- MODULE TCPHandle -----------------------------
(***************************************************************************)
(* The whole life of one proxied TCP connection: proxyForwarder.handle of   *)
(* daemon/proxytun.go.  It admits the connection, takes a slot of the dial  *)
(* gate (daemon/dialgate.go) that other connections share, finds an         *)
(* upstream (DialBinding), gives the slot back, carries the connection      *)
(* (Splice), judges the path by what came back, and closes everything.      *)
(***************************************************************************)
EXTENDS DialBinding, Splice

CONSTANT GateSlots   \* proxyMaxConcurrentDials

ASSUME GateAssumption == GateSlots \in Nat \ {0}

VARIABLES
    hpc,      \* where handle is: "new", "gate", "dial", "splice", "unwind", "closed"
    slots,    \* slots of the dial gate in use
    others,   \* the ones held by other connections
    judged    \* what handle concluded

handleVars == <<hpc, slots, others, judged>>
vars == <<dialVars, spliceVars, handleVars>>

Init ==
    /\ DialInit /\ SpliceInit
    /\ hpc = "new" /\ judged = "nothing"
    /\ others \in 0..GateSlots /\ slots = others

Conclude(j) == judged' = j /\ hpc' = "closed"

\* No mapping for the address, or the destination is paused: dropped at once.
Admit ==
    /\ hpc = "new"
    /\ \/ \E j \in {"unmapped", "paused"} : Conclude(j)
       \/ hpc' = "gate" /\ UNCHANGED judged
    /\ UNCHANGED <<slots, others, dialVars, spliceVars>>

Acquire ==
    /\ hpc = "gate" /\ slots < GateSlots
    /\ slots' = slots + 1 /\ hpc' = "dial" /\ dpc' = "opening"
    /\ UNCHANGED <<others, judged, opening, round, next, attempt, sock,
                   cancelled, expired, failed, refused, said, used, blamed,
                   result, spliceVars>>

\* The wait for a slot, or the connect deadline, ran out.
GateGivesUp ==
    /\ hpc = "gate" /\ Conclude("ceiling")
    /\ UNCHANGED <<slots, others, dialVars, spliceVars>>

\* release: the slot goes back; the mutation keeps it while the splice runs.
ReleasedLate == IF result = "carried" THEN slots ELSE slots - 1
Released == slots - 1

\* dialBinding returned: the slot goes back first, whatever the outcome.  Its
\* locals are gone once the splice runs.
Dialled ==
    /\ hpc = "dial" /\ dpc = "done"
    /\ slots' = Released
    /\ \/ /\ result = "carried" /\ hpc' = "splice"
          /\ StartSplice(IF opening = "silent" THEN 0 ELSE 1, opening = "verify")
          /\ round' = 0 /\ next' = 0 /\ failed' = {} /\ refused' = {}
          /\ said' = [m \in Members |-> "nothing"] /\ expired' = FALSE
          /\ opening' = "unread" /\ blamed' = {}
          /\ UNCHANGED judged
       \/ /\ result # "carried"
          /\ Conclude(CASE result = "clientGone" -> "clientGone"
                        [] result = "refused"    -> "condemned"
                        [] result = "nothing"    -> "struck")
          /\ UNCHANGED <<round, next, failed, refused, said, expired, opening,
                         blamed, spliceVars>>
    /\ UNCHANGED <<others, dpc, attempt, sock, cancelled, used, result>>

\* One byte back clears the record; a client that hung up first and early
\* proves nothing; bytes out and none back strike the destination, and the
\* upstream too when another one carried data just now (otherAlive).
Judge ==
    /\ hpc = "splice" /\ spc = "judge"
    /\ spc' = "unwind" /\ hpc' = "unwind"
    /\ LET moved == counted["up"] + sent > 0
       IN  \/ /\ counted["down"] > 0
              /\ judged' = "success" /\ UNCHANGED blamed
           \/ /\ counted["down"] = 0 /\ moved /\ early
              /\ judged' = "abandoned" /\ UNCHANGED blamed
           \/ /\ counted["down"] = 0 /\ moved /\ ~early
              /\ judged' = "noData"
              /\ \/ UNCHANGED blamed
                 \/ blamed' = blamed \cup {used}
           \/ /\ counted["down"] = 0 /\ ~moved
              /\ judged' = "silent" /\ UNCHANGED blamed
    /\ UNCHANGED <<slots, others, dpc, opening, round, next, attempt, sock,
                   cancelled, expired, failed, refused, said, used, result,
                   copy, left, ahead, counted, poked, quiet, endVars, billVars,
                   since, staleVars, fault>>

\* The deferred closes, last: the upstream and the client.
Close ==
    /\ hpc = "unwind" /\ spc = "done"
    /\ hpc' = "closed" /\ sock' = sock \ {used}
    /\ UNCHANGED <<slots, others, judged, dpc, opening, round, next, attempt,
                   cancelled, expired, failed, refused, said, used, blamed,
                   result, spliceVars>>

\* Other connections take and return slots while this one waits or dials.
OthersDial ==
    /\ hpc \in {"gate", "dial"}
    /\ \/ slots < GateSlots /\ slots' = slots + 1 /\ others' = others + 1
       \/ others > 0 /\ slots' = slots - 1 /\ others' = others - 1
    /\ UNCHANGED <<hpc, judged, dialVars, spliceVars>>

HandleStep == Admit \/ Acquire \/ GateGivesUp \/ Dialled \/ Judge \/ Close

\* Steps the daemon's own goroutines take, and those timers that are due.
DaemonStep ==
    \/ HandleStep
    \/ (DialStep \/ AttemptNext) /\ UNCHANGED <<spliceVars, handleVars>>
    \/ /\ SpliceStep \/ SweepStep \/ \E d \in Dirs : CopyStep(d)
       /\ UNCHANGED <<dialVars, handleVars>>

TimePasses == Tick /\ UNCHANGED <<dialVars, handleVars>>

WritesReturn ==
    (\E d \in Dirs : WriteReturns(d)) /\ UNCHANGED <<dialVars, handleVars>>

Next ==
    \/ DaemonStep
    \/ TimePasses
    \/ WritesReturn
    \/ OthersDial
    \/ (Hedge \/ Expire) /\ UNCHANGED <<spliceVars, handleVars>>
    \/ /\ MarkStale \/ Flush \/ \E d \in Dirs : PeerStep(d)
       /\ UNCHANGED <<dialVars, handleVars>>

Spec == Init /\ [][Next]_vars

\* Goroutines run and timers that are due fire; a dial and a wait for a reply
\* end, both having deadlines.  Nothing is assumed of the peers, of writes to
\* them, of hedging, of the connect deadline, or of the passing of time.
FairSpec == Spec /\ WF_vars(DaemonStep)

----------------------------------------------------------------------------
TypeOK ==
    /\ hpc \in {"new", "gate", "dial", "splice", "unwind", "closed"}
    /\ dpc \in {"idle", "opening", "round", "race", "serial", "won", "after",
                "backoff", "done"}
    /\ result \in {"none", "clientGone", "refused", "nothing", "carried"}
    /\ round \in 0..proxyDialMaxRounds /\ next \in 0..N /\ used \in 0..N
    /\ attempt \in [Members -> {"none"} \cup Running \cup Results]
    /\ sock \subseteq Members /\ failed \subseteq Members
    /\ refused \subseteq Members /\ blamed \subseteq Members
    /\ spc \in {"idle", "copy", "final", "judge", "unwind", "done"}
    /\ copy \in [Dirs -> {"arm", "read", "note", "write", "stamp", "ended"}]
    /\ left \in [Dirs -> 0..MaxChunks]
    /\ counted \in [Dirs -> 0..MaxChunks + 1]
    /\ quiet \in [Dirs -> 0..SpliceTimeout]
    /\ since \in 0..stalePathStallTimeout + 1
    /\ slots \in 0..GateSlots /\ others \in 0..GateSlots

\* A slot of the dial gate is held exactly while the connection dials, so a
\* splice that runs for hours starves nobody and no slot is ever lost or
\* returned twice (proxytun.go:520, dialgate.go:18).
SlotOnlyWhileDialling ==
    slots = others + (IF hpc = "dial" THEN 1 ELSE 0)

\* Every open upstream socket belongs to the carrier or to an attempt that
\* has yet to close it, and the carrier's own socket stays open until handle
\* closes it (proxytun.go:886, 1027).
SocketsAccounted ==
    /\ \A m \in sock : m = used \/ attempt[m] \in {"waiting", "answered"}
    /\ dpc \in {"won", "done"} /\ used # 0 /\ hpc # "closed" => used \in sock

\* Both: neither a slot of the gate nor an upstream socket is ever leaked.
ResourcesAccounted == SlotOnlyWhileDialling /\ SocketsAccounted

\* A destination is condemned only when every member was turned away in one
\* and the same round (proxytun.go:778, 935).
RefusalIsUnanimous ==
    result = "refused" => \A m \in Members : said[m] = "refused"

\* No member is blamed for a connection unless another member carried it, or
\* it carried the connection itself and nothing of it reached the client
\* (proxytun.go:728, 593).  A reply that was read and could not be written to
\* a client already gone counts as nothing.
BlameIsFair ==
    \A m \in blamed :
        \/ used \notin {0, m}
        \/ m = used /\ judged = "noData" /\ counted["down"] = 0

\* Both: neither a destination nor an upstream pays for another's failure.
VerdictsAreFair == RefusalIsUnanimous /\ BlameIsFair

\* Traffic is billed exactly: never more than what was moved, and all of it
\* once the splice is over, whenever the flusher ran (forwarder.go:117).
BilledExactly ==
    LET moved == [d \in Dirs |-> counted[d] + (IF d = "up" THEN sent ELSE 0)]
    IN  /\ \A d \in Dirs : billed[d] <= moved[d]
        /\ spc \in {"judge", "unwind", "done"} => billed = moved

\* As long as no side resets, times out or is swept, everything either side
\* sent until it closed is delivered: a half-closed connection keeps streaming
\* (forwarder.go:25).
CleanDelivery ==
    spc \in {"final", "judge", "unwind", "done"} /\ ~fault =>
        ~ahead /\ \A i \in DOMAIN doneQ : ~doneQ[i].err

\* Both: what was sent arrives and is billed once.
BytesAreAccounted == BilledExactly /\ CleanDelivery

\* An idle teardown happens only when neither direction has had traffic for
\* SpliceTimeout (forwarder.go:11): not while the other direction, having
\* moved a chunk, has waited less than that for the next one.
OnlyIdleIsCut ==
    [][\A d \in Dirs :
         /\ IdleExpires(d)
         /\ copy[Other(d)] = "read" /\ counted[Other(d)] > 0
         => quiet[Other(d)] >= SpliceTimeout]_vars

\* A stale connection that has stalled for the timeout is closed there and
\* then, without waiting out any longer timer, unless it is answered or ends
\* first (stalepath.go:29).
StalledIsClosed ==
    tracked /\ stale /\ since > stalePathStallTimeout ~>
        shut \/ since = 0 \/ ~tracked

\* Every connection comes to an end and leaves no upstream socket open,
\* neither its own nor a lost race's, as long as time passes and every write
\* returns.  The second is the peers' doing, not the code's: idleCopy has a
\* read deadline only (proxytun.go:482, 886; forwarder.go:168).
EverythingCloses ==
    WF_vars(TimePasses) /\ WF_vars(WritesReturn) =>
        (hpc # "new" ~> hpc = "closed" /\ sock = {} /\ InFlight = {})

\* Both: a connection that stalls is cut, and every connection ends.
ConnectionsEnd == StalledIsClosed /\ EverythingCloses
=============================================================================
