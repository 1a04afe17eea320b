------------------------------- MODULE Splice -------------------------------
(***************************************************************************)
(* One proxied TCP connection being carried: SpliceObserved and idleCopy of *)
(* core/proxy/forwarder.go, over the trackedConn that the registry of live  *)
(* connections (daemon/stalepath.go) wraps around its upstream.  Two copy    *)
(* goroutines, the flusher that bills traffic, the collector that waits for  *)
(* both copies, the live apply that marks the connection stale and the       *)
(* sweeper that closes it when it stalls all run concurrently.              *)
(*                                                                         *)
(* Bytes come in chunks.  "up" copies client to upstream, "down" copies      *)
(* upstream to client.  Time is a saturating age per clock, aged by Tick.    *)
(***************************************************************************)
EXTENDS Integers, Sequences

CONSTANTS MaxChunks,              \* bound: chunks one side sends
          SpliceTimeout,          \* ticks a blocked read may wait
          stalePathStallTimeout,  \* ticks a stale write may go unanswered
          proxyAbandonWindow      \* ticks within which a hang-up is the client's

ASSUME SpliceAssumption ==
    /\ MaxChunks \in Nat
    /\ SpliceTimeout \in Nat \ {0}
    /\ stalePathStallTimeout \in Nat \ {0}
    /\ proxyAbandonWindow \in Nat \ {0}

Dirs == {"up", "down"}
Other(d) == IF d = "up" THEN "down" ELSE "up"

VARIABLES
    spc,      \* "idle", "copy", "final" (both copies in), "done"
    copy,     \* each copy goroutine: "arm", "read", "note", "write", "stamp", "ended"
    left,     \* bound: chunks each source may still send
    ahead,    \* the reply read ahead while dialling is still to be delivered
    counted,  \* chunks written through, per direction
    poked,    \* the direction's read deadline was forced into the past
    quiet,    \* ticks the direction's current read has been blocked
    doneQ,    \* the done channel: how each finished direction ended
    taken,    \* how many results the collector has read
    early,    \* AFirst, within proxyAbandonWindow: the client hung up first
    elapsed,  \* ticks since the splice began, until the first end
    flushed,  \* the flusher's lastA and lastB
    billed,   \* chunks recorded as traffic, the opening ones included
    sent,     \* opening chunks forwarded before the splice
    since,    \* 0, or 1 + the age of the oldest unanswered write
    tracked,  \* in the registry of live connections
    stale,    \* marked by a live apply
    staleN,   \* the registry's count of stale connections
    victim,   \* chosen by a sweep that has not closed it yet
    shut,     \* both sockets closed by the sweep
    fault     \* history: a side reset, a read timed out, or the sweep closed it

spliceVars == <<spc, copy, left, ahead, counted, poked, quiet, doneQ, taken,
                early, elapsed, flushed, billed, sent, since, tracked,
                stale, staleN, victim, shut, fault>>

\* Groups of variables that move together, for UNCHANGED.
copyVars  == <<spc, copy, left, ahead, counted, poked, quiet>>
endVars   == <<doneQ, taken, early, elapsed>>
billVars  == <<flushed, billed, sent>>
staleVars == <<tracked, stale, staleN, victim, shut>>

Zero == [d \in Dirs |-> 0]

SpliceInit ==
    /\ spc = "idle" /\ ahead = FALSE /\ copy = [d \in Dirs |-> "arm"]
    /\ left = Zero /\ counted = Zero /\ quiet = Zero
    /\ poked = [d \in Dirs |-> FALSE]
    /\ doneQ = <<>> /\ taken = 0 /\ early = FALSE
    /\ elapsed = 0 /\ flushed = Zero /\ billed = Zero /\ sent = 0
    /\ since = 0 /\ tracked = FALSE /\ stale = FALSE /\ staleN = 0
    /\ victim = FALSE /\ shut = FALSE /\ fault = FALSE

\* handle bills the n opening chunks, registers the connection and starts both
\* copies.
StartSplice(n, readAhead) ==
    /\ spc' = "copy" /\ tracked' = TRUE
    /\ sent' = n /\ billed' = [billed EXCEPT !["up"] = n]
    /\ ahead' = readAhead /\ left' = [d \in Dirs |-> MaxChunks]
    /\ UNCHANGED <<copy, counted, poked, quiet, endVars, flushed, since, stale,
                   staleN, victim, shut, fault>>

----------------------------------------------------------------------------
(* The copy loops.                                                         *)

Goto(d, where) == copy' = [copy EXCEPT ![d] = where]

\* idleCopy re-arms the read deadline before every read, a forced one included.
Arm(d) ==
    /\ spc = "copy" /\ copy[d] = "arm"
    /\ Goto(d, "read")
    /\ poked' = [poked EXCEPT ![d] = FALSE]
    /\ quiet' = [quiet EXCEPT ![d] = 0]
    /\ UNCHANGED <<spc, left, ahead, counted, endVars, billVars, since,
                   staleVars, fault>>

\* The read goes to the socket: prefixConn has nothing left to serve.
Blocked(d) == spc = "copy" /\ copy[d] = "read" /\ ~(d = "down" /\ ahead)

\* prefixConn serves the bytes read ahead, whatever became of the socket.
ReadAhead ==
    /\ spc = "copy" /\ copy["down"] = "read" /\ ahead
    /\ ahead' = FALSE /\ Goto("down", "note")
    /\ UNCHANGED <<spc, left, counted, poked, quiet, endVars, billVars, since,
                   staleVars, fault>>

\* A chunk from the source; a reply still has to clear the stall clock.
Read(d) ==
    /\ Blocked(d) /\ ~shut /\ ~poked[d] /\ left[d] > 0
    /\ left' = [left EXCEPT ![d] = @ - 1] /\ UNCHANGED ahead
    /\ Goto(d, IF d = "down" THEN "note" ELSE "write")
    /\ UNCHANGED <<spc, counted, poked, quiet, endVars, billVars, since,
                   staleVars, fault>>

\* trackedConn.Read clears the stall clock after the bytes were read.
NoteReply ==
    /\ copy["down"] = "note"
    /\ since' = 0 /\ Goto("down", "write")
    /\ UNCHANGED <<spc, left, ahead, counted, poked, quiet, endVars, billVars,
                   staleVars, fault>>

\* The write went through.  The upstream one still has to stamp the stall
\* clock; either way the chunk is counted once the write returned.
Write(d) ==
    /\ copy[d] = "write" /\ ~shut
    /\ IF d = "up"
       THEN Goto(d, "stamp") /\ UNCHANGED counted
       ELSE /\ Goto(d, "arm")
            /\ counted' = [counted EXCEPT ![d] = @ + 1]
    /\ UNCHANGED <<spc, left, ahead, poked, quiet, endVars, billVars, since,
                   staleVars, fault>>

StampWrite ==
    /\ copy["up"] = "stamp"
    /\ since' = IF since = 0 THEN 1 ELSE since
    /\ counted' = [counted EXCEPT !["up"] = @ + 1]
    /\ Goto("up", "arm")
    /\ UNCHANGED <<spc, left, ahead, poked, quiet, endVars, billVars, staleVars, fault>>

\* The copy returns: it half-closes its destination and reports how it ended.
Finish(d, err) ==
    /\ Goto(d, "ended")
    /\ doneQ' = Append(doneQ, [dir |-> d, err |-> err])
    /\ quiet' = [quiet EXCEPT ![d] = 0] /\ left' = [left EXCEPT ![d] = 0]
    /\ UNCHANGED <<spc, ahead, counted, poked, taken, early, elapsed, billVars,
                   since, staleVars>>

\* The source closed cleanly.
SourceEnds(d) ==
    /\ Blocked(d) /\ ~shut /\ ~poked[d]
    /\ Finish(d, FALSE) /\ UNCHANGED fault

\* The source reset the connection.
SourceResets(d) ==
    /\ Blocked(d) /\ ~shut
    /\ Finish(d, TRUE) /\ fault' = TRUE

\* The sweep closed the socket under the read.
ShutReadEnds(d) ==
    /\ Blocked(d) /\ shut
    /\ Finish(d, TRUE) /\ UNCHANGED fault

\* The destination is gone.
WriteFails(d) ==
    /\ copy[d] = "write"
    /\ Finish(d, TRUE) /\ fault' = TRUE

\* As IdleExpires, with a read deadline that is never set.
IdleExpiresNever(d) == FALSE

\* Nothing to read for SpliceTimeout.
IdleExpires(d) ==
    /\ Blocked(d) /\ ~shut
    /\ quiet[d] >= SpliceTimeout
    /\ Finish(d, TRUE) /\ fault' = TRUE

\* A forced deadline ends a blocked read at once.
PokedReadEnds(d) ==
    /\ Blocked(d) /\ poked[d]
    /\ Finish(d, TRUE) /\ UNCHANGED fault

----------------------------------------------------------------------------
(* The collector and the flusher.                                          *)

\* As Collect, but any end of a direction forces the other one's read.
CollectPokeAlways ==
    /\ spc = "copy" /\ taken < Len(doneQ)
    /\ taken' = taken + 1
    /\ IF taken = 0
       THEN /\ early' = (doneQ[1].dir = "up" /\ elapsed < proxyAbandonWindow)
            /\ elapsed' = 0
       ELSE UNCHANGED <<early, elapsed>>
    /\ poked' = [d \in Dirs |-> TRUE]
    /\ spc' = IF taken = 1 THEN "final" ELSE "copy"
    /\ UNCHANGED <<copy, left, ahead, counted, quiet, doneQ, billVars, since,
                   staleVars, fault>>

\* The collector reads one result.  The first hard error forces both read
\* deadlines; the second result ends the copying.
Collect ==
    /\ spc = "copy" /\ taken < Len(doneQ)
    /\ taken' = taken + 1
    /\ IF taken = 0
       THEN /\ early' = (doneQ[1].dir = "up" /\ elapsed < proxyAbandonWindow)
            /\ elapsed' = 0
       ELSE UNCHANGED <<early, elapsed>>
    /\ poked' = IF doneQ[taken + 1].err THEN [d \in Dirs |-> TRUE] ELSE poked
    /\ spc' = IF taken = 1 THEN "final" ELSE "copy"
    /\ UNCHANGED <<copy, left, ahead, counted, quiet, doneQ, billVars, since,
                   staleVars, fault>>

\* recordTraffic is given what was counted since the last flush.
Bill ==
    /\ billed' = [d \in Dirs |-> billed[d] + counted[d] - flushed[d]]
    /\ flushed' = counted

\* The flusher's tick.
Flush ==
    /\ spc = "copy" /\ flushed # counted
    /\ Bill
    /\ UNCHANGED <<copyVars, endVars, sent, since, staleVars, fault>>

\* As FinalFlush, billing the totals instead of what the ticks left over.
FinalFlushTotals ==
    /\ spc = "final" /\ spc' = "judge"
    /\ billed' = [d \in Dirs |-> billed[d] + counted[d]] /\ flushed' = counted
    /\ UNCHANGED <<copy, left, ahead, counted, poked, quiet, endVars, sent, since,
                   staleVars, fault>>

\* Both copies are in: the flusher is stopped and the rest is billed.
FinalFlush ==
    /\ spc = "final" /\ spc' = "judge"
    /\ Bill
    /\ UNCHANGED <<copy, left, ahead, counted, poked, quiet, endVars, sent, since,
                   staleVars, fault>>

----------------------------------------------------------------------------
(* The registry of live connections.                                       *)

\* A live apply changed the path of this connection's upstream.
MarkStale ==
    /\ tracked /\ ~stale
    /\ stale' = TRUE /\ staleN' = staleN + 1
    /\ UNCHANGED <<copyVars, endVars, billVars, since, tracked, victim, shut, fault>>

\* As SweepPicks, idling with one stale connection left.
SweepPicksLate ==
    /\ staleN > 1 /\ tracked /\ stale /\ ~victim
    /\ since > stalePathStallTimeout
    /\ victim' = TRUE
    /\ UNCHANGED <<copyVars, endVars, billVars, since, tracked, stale, staleN,
                   shut, fault>>

\* The sweep picks the connection under the lock ...
SweepPicks ==
    /\ staleN # 0 /\ tracked /\ stale /\ ~victim
    /\ since > stalePathStallTimeout
    /\ victim' = TRUE
    /\ UNCHANGED <<copyVars, endVars, billVars, since, tracked, stale, staleN,
                   shut, fault>>

\* ... and closes both sockets after it.
SweepCloses ==
    /\ victim /\ ~shut
    /\ shut' = TRUE /\ fault' = TRUE
    /\ UNCHANGED <<copyVars, endVars, billVars, since, tracked, stale, staleN,
                   victim>>

\* untrack, the deferred call: out of the registry, then out of the count.
Untrack ==
    /\ spc = "unwind" /\ tracked
    /\ tracked' = FALSE
    /\ UNCHANGED <<copyVars, endVars, billVars, since, stale, staleN, victim,
                   shut, fault>>

UntrackCount ==
    /\ spc = "unwind" /\ ~tracked /\ spc' = "done"
    /\ staleN' = IF stale THEN staleN - 1 ELSE staleN
    /\ UNCHANGED <<copy, left, ahead, counted, poked, quiet, endVars, billVars, since,
                   tracked, stale, victim, shut, fault>>

----------------------------------------------------------------------------
(* Time and the next-state relation.                                       *)

Older(n, bound) == IF n < bound THEN n + 1 ELSE n

\* A tick is seconds to minutes; setting a deadline or a stall stamp is an
\* instant, so no time passes in the middle of one.  A write may block.
Instant == {"arm", "note", "stamp"}

Tick ==
    /\ spc = "copy" /\ \A d \in Dirs : copy[d] \notin Instant
    /\ quiet' = [d \in Dirs |-> IF copy[d] = "read"
                                THEN Older(quiet[d], SpliceTimeout) ELSE quiet[d]]
    /\ elapsed' = IF taken = 0 THEN Older(elapsed, proxyAbandonWindow) ELSE 0
    /\ since' = IF since = 0 THEN 0 ELSE Older(since, stalePathStallTimeout + 1)
    /\ UNCHANGED <<spc, copy, left, ahead, counted, poked, doneQ, taken, early,
                   billVars, staleVars, fault>>

\* What the goroutines do on their own.
CopyStep(d) == Arm(d) \/ ShutReadEnds(d) \/ IdleExpires(d) \/ PokedReadEnds(d)

\* A write returns when the peer takes the bytes or the connection breaks;
\* idleCopy sets no write deadline.
WriteReturns(d) == Write(d) \/ WriteFails(d)

SpliceStep ==
    ReadAhead \/ NoteReply \/ StampWrite \/ Collect \/ FinalFlush \/ Untrack \/ UntrackCount

SweepStep == SweepPicks \/ SweepCloses

\* What the two peers may do.
PeerStep(d) == Read(d) \/ SourceEnds(d) \/ SourceResets(d)
=============================================================================
