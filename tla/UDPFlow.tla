------------------------------ MODULE UDPFlow ------------------------------
(***************************************************************************)
(* One UDP flow through the proxy tunnel: handleUDP with its goroutines     *)
(* (two pumps, the watchdog, one control watcher per association) over the  *)
(* SOCKS5 associations of core/proxy/udp.go.  The watchdog may swap a       *)
(* silent association for a new one while both pumps are running.           *)
(*                                                                         *)
(* A datagram is one unit; the clocks are two flags, "the no-reply grace    *)
(* has run out" and "both directions have been silent for the idle          *)
(* timeout", that time may set and the code clears.                         *)
(***************************************************************************)
EXTENDS Naturals, FiniteSets

CONSTANTS MaxReassoc,   \* proxyUDPMaxReassoc
          MaxSent,      \* bound: datagrams from the client
          MaxRecv       \* bound: datagrams from the relay

Sessions == 1..(MaxReassoc + 1)

VARIABLES
  udpMain,   \* handleUDP itself: "new", "wait" (wg.Wait), "dropped", "done"
  udpConn,   \* the client's end is open
  sock,      \* session -> "none" | "open" | "closed": our two sockets
  assoc,     \* session -> the proxy still holds the association
  cur,       \* the atomic pointer
  once,      \* the sync.Once of shutdown: "no", "running", "done"
  up,        \* client -> relay pump: [pc, s]
  down,      \* relay -> client pump: [pc, s]
  watch,     \* session -> watchCtrl: "none", "reading", "gone"
  mon,       \* watchdog: [pc, old]
  sent, recv, flushed, billed,
  grace,     \* inside the no-reply grace of the current association
  quiet,     \* silent in both directions for proxyUDPIdleTimeout
  verdict,   \* what the flow told udpHealth: "none", "strike", "success"
  cutBy      \* ghost: the association whose error made a pump or a watcher end the flow

udpVars == <<udpMain, udpConn, sock, assoc, cur, once, up, down, watch, mon,
             sent, recv, flushed, billed, grace, quiet, verdict, cutBy>>

UDPInit ==
  /\ udpMain = "new" /\ udpConn = TRUE
  /\ sock = [s \in Sessions |-> "none"] /\ assoc = [s \in Sessions |-> FALSE]
  /\ cur = 1 /\ once = "no"
  /\ up = [pc |-> "off", s |-> 1] /\ down = [pc |-> "off", s |-> 1]
  /\ watch = [s \in Sessions |-> "none"] /\ mon = [pc |-> "off", old |-> 1]
  /\ sent = 0 /\ recv = 0 /\ flushed = 0 /\ billed = 0
  /\ grace = TRUE /\ quiet = FALSE /\ verdict = "none" /\ cutBy = 0

(***************************************************************************)
(* Associations                                                            *)
(***************************************************************************)

(* DialUDPAssociate: control connection, negotiation, ASSOCIATE, relay      *)
(* socket.  An error closes the control connection, so no half-open session *)
(* is ever returned.                                                        *)
DialUDPAssociate(s) ==
  /\ sock' = [sock EXCEPT ![s] = "open"]
  /\ assoc' = [assoc EXCEPT ![s] = TRUE]

(* UDPSession.Close: the relay socket and the control connection.           *)
Closed(s) == [sock EXCEPT ![s] = "closed"]

(* What WriteTo and Read may answer on a session: an error whenever the     *)
(* sockets are closed or the proxy has dropped the association.             *)
Fails(s) == sock[s] = "closed" \/ ~assoc[s]
Works(s) == sock[s] = "open"

(***************************************************************************)
(* handleUDP: resolve, gate, associate, publish the session, start the      *)
(* goroutines.  No mapping, no slot or no usable proxy drops the flow.      *)
(***************************************************************************)
StartFlow ==
  /\ udpMain = "new"
  /\ \/ /\ udpMain' = "dropped" /\ udpConn' = FALSE
        /\ UNCHANGED <<sock, assoc, up, down, watch, mon>>
     \/ /\ udpMain' = "wait" /\ DialUDPAssociate(1)
        /\ up' = [up EXCEPT !.pc = "read"] /\ down' = [down EXCEPT !.pc = "load"]
        /\ watch' = [watch EXCEPT ![1] = "reading"]
        /\ mon' = [mon EXCEPT !.pc = "tick"]
        /\ UNCHANGED udpConn
  /\ UNCHANGED <<cur, once, sent, recv, flushed, billed, grace, quiet, verdict, cutBy>>

(* flush: the delta since the last report goes to the traffic aggregator.   *)
flush == /\ billed' = billed + (sent + recv - flushed)
         /\ flushed' = sent + recv

(***************************************************************************)
(* shutdown, run once: closed and the client's end first, then whatever     *)
(* session cur points at.  A second caller waits for the first.             *)
(***************************************************************************)
ShutdownBegin(wanted) ==
  /\ wanted /\ once = "no"
  /\ once' = "running" /\ udpConn' = FALSE
  /\ UNCHANGED <<udpMain, sock, assoc, cur, up, down, watch, mon, sent, recv,
                 flushed, billed, grace, quiet, verdict, cutBy>>

ShutdownEnd ==
  /\ once = "running"
  /\ once' = "done" /\ sock' = Closed(cur)
  /\ UNCHANGED <<udpMain, udpConn, assoc, cur, up, down, watch, mon, sent, recv,
                 flushed, billed, grace, quiet, verdict, cutBy>>

closed == once # "no"

(* Someone is at a call of shutdown.                                        *)
WantsShutdown ==
  \/ up.pc = "exit" \/ down.pc = "exit" \/ mon.pc = "exit"
  \/ \E s \in Sessions : watch[s] = "exit"

(***************************************************************************)
(* client -> relay.  The session is loaded after the read, so the write may *)
(* find it retired; then the datagram goes out once more on the new one.    *)
(***************************************************************************)
UpRead ==
  /\ up.pc = "read"
  /\ \/ /\ udpConn /\ sent < MaxSent
        /\ up' = [pc |-> "write", s |-> cur] /\ quiet' = FALSE
     \/ ~udpConn /\ up' = [up EXCEPT !.pc = "exit"] /\ UNCHANGED quiet
  /\ UNCHANGED <<udpMain, udpConn, sock, assoc, cur, once, down, watch, mon, sent,
                 recv, flushed, billed, grace, verdict, cutBy>>

UpWrite ==
  /\ up.pc = "write"
  /\ \/ /\ Works(up.s)
        /\ sent' = sent + 1 /\ up' = [up EXCEPT !.pc = "read"] /\ UNCHANGED cutBy
     \/ /\ Fails(up.s) /\ (closed \/ cur = up.s)
        /\ up' = [up EXCEPT !.pc = "exit"]
        /\ cutBy' = IF closed THEN cutBy ELSE up.s
        /\ UNCHANGED sent
     \/ /\ Fails(up.s) /\ ~closed /\ cur # up.s
        /\ up' = [pc |-> "again", s |-> cur] /\ UNCHANGED <<sent, cutBy>>
  /\ UNCHANGED <<udpMain, udpConn, sock, assoc, cur, once, down, watch, mon, recv,
                 flushed, billed, grace, quiet, verdict>>

UpWriteAgain ==
  /\ up.pc = "again"
  /\ \/ /\ Works(up.s)
        /\ sent' = sent + 1 /\ up' = [up EXCEPT !.pc = "read"] /\ UNCHANGED cutBy
     \/ /\ Fails(up.s) /\ up' = [up EXCEPT !.pc = "exit"]
        /\ cutBy' = IF closed THEN cutBy ELSE up.s
        /\ UNCHANGED sent
  /\ UNCHANGED <<udpMain, udpConn, sock, assoc, cur, once, down, watch, mon, recv,
                 flushed, billed, grace, quiet, verdict>>

(***************************************************************************)
(* relay -> client.  The session is loaded before the blocking read; an     *)
(* error on a session that is no longer current means it was swapped out.   *)
(***************************************************************************)
DownLoad ==
  /\ down.pc = "load" /\ down' = [pc |-> "read", s |-> cur]
  /\ UNCHANGED <<udpMain, udpConn, sock, assoc, cur, once, up, watch, mon, sent, recv,
                 flushed, billed, grace, quiet, verdict, cutBy>>

DownRead ==
  /\ down.pc = "read"
  /\ \/ /\ Works(down.s) /\ assoc[down.s] /\ sent > 0 /\ recv < MaxRecv
        /\ quiet' = FALSE
        /\ IF udpConn THEN recv' = recv + 1 /\ down' = [down EXCEPT !.pc = "load"]
                      ELSE down' = [down EXCEPT !.pc = "exit"] /\ UNCHANGED recv
        /\ UNCHANGED cutBy
     \/ /\ Fails(down.s) /\ (closed \/ cur = down.s)
        /\ down' = [down EXCEPT !.pc = "exit"]
        /\ cutBy' = IF closed THEN cutBy ELSE down.s
        /\ UNCHANGED <<recv, quiet>>
     \/ /\ Fails(down.s) /\ ~closed /\ cur # down.s
        /\ down' = [down EXCEPT !.pc = "load"] /\ UNCHANGED <<recv, quiet, cutBy>>
  /\ UNCHANGED <<udpMain, udpConn, sock, assoc, cur, once, up, watch, mon, sent,
                 flushed, billed, grace, verdict>>

(* watchCtrl: the control connection of s ended, from either side.          *)
watchCtrl(s) ==
  /\ watch[s] = "reading" /\ Fails(s)
  /\ watch' = [watch EXCEPT ![s] = IF closed \/ cur # s THEN "gone" ELSE "exit"]
  /\ cutBy' = IF closed \/ cur # s THEN cutBy ELSE s
  /\ UNCHANGED <<udpMain, udpConn, sock, assoc, cur, once, up, down, mon, sent, recv,
                 flushed, billed, grace, quiet, verdict>>

(***************************************************************************)
(* The watchdog: nothing ever came back and the grace is over -> a new      *)
(* association (at most MaxReassoc), else give up; idle -> give up.         *)
(***************************************************************************)
Silent == sent > 0 /\ recv = 0 /\ ~grace
Swaps == Cardinality({s \in Sessions : sock[s] # "none"}) - 1

(* The tick of a watchdog that never gives up an idle flow.                 *)
MonTickNeverIdle ==
  /\ mon.pc = "tick"
  /\ \/ udpMain = "done" /\ mon' = [mon EXCEPT !.pc = "gone"] /\ UNCHANGED <<flushed, billed>>
     \/ Silent /\ Swaps < MaxReassoc /\ mon' = [pc |-> "associate", old |-> cur] /\ flush
     \/ Silent /\ Swaps = MaxReassoc /\ mon' = [mon EXCEPT !.pc = "exit"]
        /\ UNCHANGED <<flushed, billed>>
     \/ ~Silent /\ flush /\ billed' # billed /\ UNCHANGED mon
  /\ UNCHANGED <<udpMain, udpConn, sock, assoc, cur, once, up, down, watch, sent, recv,
                 grace, quiet, verdict, cutBy>>

MonTick ==
  /\ mon.pc = "tick"
  /\ \/ udpMain = "done" /\ mon' = [mon EXCEPT !.pc = "gone"] /\ UNCHANGED <<flushed, billed>>
     \/ Silent /\ Swaps < MaxReassoc /\ mon' = [pc |-> "associate", old |-> cur] /\ flush
     \/ Silent /\ Swaps = MaxReassoc /\ mon' = [mon EXCEPT !.pc = "exit"]
        /\ UNCHANGED <<flushed, billed>>
     \/ ~Silent /\ quiet /\ mon' = [mon EXCEPT !.pc = "exit"] /\ UNCHANGED <<flushed, billed>>
     \/ ~Silent /\ flush /\ billed' # billed /\ UNCHANGED mon
  /\ UNCHANGED <<udpMain, udpConn, sock, assoc, cur, once, up, down, watch, sent, recv,
                 grace, quiet, verdict, cutBy>>

(* reassociate letting the old association go before it has a new one.      *)
MonAssociateAfterClose ==
  /\ mon.pc = "associate"
  /\ \/ sock[mon.old] = "open" /\ sock' = Closed(mon.old) /\ UNCHANGED <<assoc, mon>>
     \/ sock[mon.old] = "closed" /\ DialUDPAssociate(Swaps + 2)
        /\ mon' = [mon EXCEPT !.pc = "publish"]
  /\ UNCHANGED <<udpMain, udpConn, cur, once, up, down, watch, sent, recv, flushed,
                 billed, grace, quiet, verdict, cutBy>>

(* associateUDP from reassociate: it may take the whole connect deadline.   *)
MonAssociate ==
  /\ mon.pc = "associate"
  /\ \/ mon' = [mon EXCEPT !.pc = "exit"] /\ UNCHANGED <<sock, assoc>>
     \/ DialUDPAssociate(Swaps + 2) /\ mon' = [mon EXCEPT !.pc = "publish"]
  /\ UNCHANGED <<udpMain, udpConn, cur, once, up, down, watch, sent, recv, flushed,
                 billed, grace, quiet, verdict, cutBy>>

MonPublish ==
  /\ mon.pc = "publish"
  /\ cur' = Swaps + 1 /\ mon' = [mon EXCEPT !.pc = "retire"]
  /\ UNCHANGED <<udpMain, udpConn, sock, assoc, once, up, down, watch, sent, recv,
                 flushed, billed, grace, quiet, verdict, cutBy>>

MonRetire ==
  /\ mon.pc = "retire"
  /\ sock' = Closed(mon.old) /\ watch' = [watch EXCEPT ![cur] = "reading"]
  /\ grace' = TRUE /\ mon' = [mon EXCEPT !.pc = "tick"]
  /\ UNCHANGED <<udpMain, udpConn, assoc, cur, once, up, down, sent, recv, flushed,
                 billed, quiet, verdict, cutBy>>

(* handleUDP after wg.Wait (each pump runs shutdown, then wg.Done):         *)
(* close(stop), the last flush, the verdict.                                *)
Finish ==
  /\ udpMain = "wait" /\ up.pc = "exit" /\ down.pc = "exit" /\ once = "done"
  /\ udpMain' = "done" /\ flush
  /\ verdict' = IF sent > 0 /\ recv = 0 THEN "strike" ELSE "success"
  /\ UNCHANGED <<udpConn, sock, assoc, cur, once, up, down, watch, mon, sent, recv,
                 grace, quiet, cutBy>>

(***************************************************************************)
(* Environment: the proxy drops an association, time passes, the tunnel     *)
(* closes the client's end.                                                 *)
(***************************************************************************)
ProxyDrops(s) ==
  /\ assoc[s] /\ sock[s] = "open" /\ assoc' = [assoc EXCEPT ![s] = FALSE]
  /\ UNCHANGED <<udpMain, udpConn, sock, cur, once, up, down, watch, mon, sent, recv,
                 flushed, billed, grace, quiet, verdict, cutBy>>

TimePasses ==
  /\ udpMain = "wait"
  /\ \/ grace /\ grace' = FALSE /\ UNCHANGED quiet
     \/ ~quiet /\ quiet' = TRUE /\ UNCHANGED grace
  /\ UNCHANGED <<udpMain, udpConn, sock, assoc, cur, once, up, down, watch, mon, sent,
                 recv, flushed, billed, verdict, cutBy>>

ClientEnds ==
  /\ udpMain = "wait" /\ udpConn /\ udpConn' = FALSE
  /\ UNCHANGED <<udpMain, sock, assoc, cur, once, up, down, watch, mon, sent, recv,
                 flushed, billed, grace, quiet, verdict, cutBy>>

UDPSteps ==
  \/ StartFlow \/ ShutdownBegin(WantsShutdown) \/ ShutdownEnd
  \/ UpRead \/ UpWrite \/ UpWriteAgain \/ DownLoad \/ DownRead
  \/ \E s \in Sessions : watchCtrl(s)
  \/ MonTick \/ MonAssociate \/ MonPublish \/ MonRetire
  \/ Finish

UDPNext ==
  \/ UDPSteps
  \/ (\E s \in Sessions : ProxyDrops(s)) \/ TimePasses \/ ClientEnds

(* The Go scheduler runs every goroutine that can run; timers fire.         *)
UDPFairness ==
  /\ WF_udpVars(StartFlow) /\ WF_udpVars(Finish)
  /\ WF_udpVars(ShutdownBegin(WantsShutdown)) /\ WF_udpVars(ShutdownEnd)
  /\ WF_udpVars(UpRead \/ UpWrite \/ UpWriteAgain) /\ WF_udpVars(DownLoad \/ DownRead)
  /\ \A s \in Sessions : WF_udpVars(watchCtrl(s))
  /\ WF_udpVars(MonTick \/ MonAssociate \/ MonPublish \/ MonRetire)
  /\ WF_udpVars(TimePasses)

(***************************************************************************)
(* Properties                                                              *)
(***************************************************************************)

(* A swap never ends the flow: when a pump or a control watcher ends it     *)
(* because of a session, the proxy had really dropped that association.     *)
(* It is never one the watchdog retired (proxytun.go:1201: "that's what     *)
(* lets a pump tell 'we were swapped, keep going' apart from 'this flow is  *)
(* over'").                                                                 *)
SwapKeepsFlow == cutBy # 0 => ~assoc[cutBy]

(* Every datagram is billed exactly once, whatever the watchdog flushed     *)
(* before, and the destination gets one verdict that matches the counters.  *)
FlowIsAccounted ==
  udpMain = "done" =>
    /\ billed = sent + recv
    /\ verdict = (IF sent > 0 /\ recv = 0 THEN "strike" ELSE "success")

(* Both: a swap neither ends the flow nor loses or repeats its accounts.    *)
FlowIsKept == SwapKeepsFlow /\ FlowIsAccounted

(* After the teardown has run and while no swap is in progress, no          *)
(* association is open (proxytun.go:1223: "Single idempotent teardown.      *)
(* Closing both ends unblocks every pump's blocking Read so they error out  *)
(* and exit").                                                              *)
NoSessionLeft ==
  once = "done" /\ mon.pc \notin {"associate", "publish", "retire"} =>
    \A s \in Sessions : sock[s] # "open"

(* A flow ends: handleUDP returns once its client is silent, its relay      *)
(* fails or the watchdog gives up, unless the watchdog published a session  *)
(* after the teardown (the NoSessionLeft finding), which keeps a pump.      *)
FlowEnds ==
  (udpMain = "wait") ~>
    \/ udpMain = "done"
    \/ once = "done" /\ \E s \in Sessions : sock[s] = "open"
=============================================================================
