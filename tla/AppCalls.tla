------------------------------ MODULE AppCalls ------------------------------
(***************************************************************************)
(* The app's calls to the daemon: the pool of connections and the one-shot  *)
(* reconnect (app/app.go), one synchronous call on a connection             *)
(* (core/ipc/client.go), and the server that accepts, dispatches and, when  *)
(* the daemon stops, closes (core/ipc/server.go).  The daemon may stop or   *)
(* die and come back at any moment, which leaves the pool full of           *)
(* connections to a daemon that is gone.                                    *)
(*                                                                          *)
(* A connection is the life of the daemon it was made to, so it is alive    *)
(* iff that is the present one.  Methods, parameters and results are left   *)
(* out; a call's handler answers or returns an error.  `steady`, `runs`     *)
(* and `verdict` are ghosts about each call.                                *)
(***************************************************************************)
EXTENDS Integers, Sequences, SequencesExt, FiniteSets

CONSTANTS
  Callers,    \* frontend calls that may be in flight together
  RpcPoolCap, \* rpcPoolCap
  MaxLives,   \* bound: lives of the daemon
  MaxCalls    \* bound: calls made in one behaviour

VARIABLES
  life,      \* which life of the daemon this is
  daemon,    \* "down", "binding" (socket made, not yet ours to open), "up"
  pool,      \* App.pool: idle connections, oldest first
  call,      \* each caller: "idle", "has", "sent", "broken", "again",
             \* "resent", "lost"
  conn,      \* the connection a caller holds, 0 for none
  result,    \* what its last call returned: "none", "ok", "handler", "transport"
  made,      \* calls made
  steady,    \* ghost: the daemon has been up since the call began
  runs,      \* ghost: times the handler ran for the call
  verdict    \* ghost: what the handler's last run for the call returned

callVars ==
  <<life, daemon, pool, call, conn, result, made, steady, runs, verdict>>

CallsInit ==
  /\ life = 1 /\ daemon = "down" /\ pool = <<>> /\ made = 0
  /\ call = [c \in Callers |-> "idle"]
  /\ conn = [c \in Callers |-> 0]
  /\ result = [c \in Callers |-> "none"]
  /\ steady = [c \in Callers |-> FALSE]
  /\ runs = [c \in Callers |-> 0]
  /\ verdict = [c \in Callers |-> "none"]

Alive(k) == k = life /\ daemon = "up"

(***************************************************************************)
(* The daemon.                                                             *)
(***************************************************************************)
\* Serve up to the listen: a stale socket is removed and a new one made.
Listen ==
  /\ daemon = "down"
  /\ daemon' = "binding"
  /\ UNCHANGED <<life, pool, call, conn, result, made, steady, runs, verdict>>

\* Serve: mode and group set, the accept loop entered.
Accepting ==
  /\ daemon = "binding"
  /\ daemon' = "up"
  /\ UNCHANGED <<life, pool, call, conn, result, made, steady, runs, verdict>>

\* The daemon ends: every connection of this life is broken.
DaemonEnds ==
  /\ daemon # "down" /\ life < MaxLives
  /\ daemon' = "down"
  /\ life' = life + 1
  /\ steady' = [c \in Callers |-> FALSE]
  /\ UNCHANGED <<pool, call, conn, result, made, runs, verdict>>

(***************************************************************************)
(* App.call.                                                               *)
(***************************************************************************)
Returns(c, what) ==
  /\ call' = [call EXCEPT ![c] = "idle"]
  /\ conn' = [conn EXCEPT ![c] = 0]
  /\ result' = [result EXCEPT ![c] = what]

\* rpc: a pooled connection, or a fresh one; no daemon is an error.
rpc(c) ==
  /\ call[c] = "idle" /\ made < MaxCalls
  /\ made' = made + 1
  /\ steady' = [steady EXCEPT ![c] = daemon = "up"]
  /\ runs' = [runs EXCEPT ![c] = 0]
  /\ verdict' = [verdict EXCEPT ![c] = "none"]
  /\ \/ /\ pool # <<>>
        /\ pool' = Tail(pool)
        /\ conn' = [conn EXCEPT ![c] = Head(pool)]
        /\ call' = [call EXCEPT ![c] = "has"]
        /\ UNCHANGED result
     \/ /\ pool = <<>> /\ daemon = "up"
        /\ conn' = [conn EXCEPT ![c] = life]
        /\ call' = [call EXCEPT ![c] = "has"]
        /\ UNCHANGED <<pool, result>>
     \/ /\ pool = <<>> /\ daemon # "up"
        /\ Returns(c, "transport")
        /\ UNCHANGED pool
  /\ UNCHANGED <<life, daemon>>

\* Client.Call's write: a broken connection fails it, or, when the peer's
\* end is not seen to be gone yet, the read that follows.
Send(c) ==
  /\ call[c] \in {"has", "again"}
  /\ \/ call' = [call EXCEPT ![c] = IF @ = "has" THEN "sent" ELSE "resent"]
     \/ ~Alive(conn[c]) /\ call' = [call EXCEPT ![c] = IF @ = "has" THEN "broken" ELSE "lost"]
  /\ UNCHANGED <<life, daemon, pool, conn, result, made, steady, runs, verdict>>

\* handleConn and dispatch: the request is run once, in a goroutine.
dispatch(c) ==
  /\ call[c] \in {"sent", "resent"} /\ Alive(conn[c])
  /\ verdict[c] = "none"
  /\ \E v \in {"ok", "handler"} : verdict' = [verdict EXCEPT ![c] = v]
  /\ runs' = [runs EXCEPT ![c] = @ + 1]
  /\ UNCHANGED <<life, daemon, pool, call, conn, result, made, steady>>

\* putRPC: into the pool, or closed when that is full.
putRPC(k) == IF Len(pool) < RpcPoolCap THEN Append(pool, k) ELSE pool

\* Client.Call's read finds the answer.  A success gives the connection
\* back; any error of the first attempt is answered by a second one.
ReadAnswer(c) ==
  /\ call[c] \in {"sent", "resent"} /\ Alive(conn[c]) /\ verdict[c] # "none"
  /\ \/ /\ verdict[c] = "ok"
        /\ pool' = putRPC(conn[c])
        /\ Returns(c, "ok")
     \/ /\ verdict[c] = "handler" /\ call[c] = "sent"
        /\ call' = [call EXCEPT ![c] = "broken"]
        /\ UNCHANGED <<pool, conn, result>>
     \/ /\ verdict[c] = "handler" /\ call[c] = "resent"
        /\ Returns(c, "handler")
        /\ UNCHANGED pool
  /\ UNCHANGED <<life, daemon, made, steady, runs, verdict>>

\* Client.Call's read fails: the daemon went away, answered or not.
ReadFails(c) ==
  /\ call[c] \in {"sent", "resent"} /\ ~Alive(conn[c])
  /\ call' = [call EXCEPT ![c] = IF @ = "sent" THEN "broken" ELSE "lost"]
  /\ UNCHANGED <<life, daemon, pool, conn, result, made, steady, runs, verdict>>

\* A reconnect through rpc, which asks the pool first.
ReconnectFromPool(c) ==
  /\ call[c] = "broken"
  /\ verdict' = [verdict EXCEPT ![c] = "none"]
  /\ IF pool # <<>> \/ daemon = "up"
     THEN /\ pool' = IF pool # <<>> THEN Tail(pool) ELSE pool
          /\ conn' = [conn EXCEPT ![c] = IF pool # <<>> THEN Head(pool) ELSE life]
          /\ call' = [call EXCEPT ![c] = "again"]
          /\ UNCHANGED result
     ELSE Returns(c, "transport") /\ UNCHANGED pool
  /\ UNCHANGED <<life, daemon, made, steady, runs>>

\* call's one-shot reconnect: the connection is closed and a new one
\* dialled, past the pool; failing that, the first error is returned.
Reconnect(c) ==
  /\ call[c] = "broken"
  /\ IF daemon = "up"
     THEN /\ conn' = [conn EXCEPT ![c] = life]
          /\ call' = [call EXCEPT ![c] = "again"]
          /\ verdict' = [verdict EXCEPT ![c] = "none"]
          /\ UNCHANGED result
     ELSE /\ Returns(c, IF verdict[c] = "handler" THEN "handler" ELSE "transport")
          /\ UNCHANGED verdict
  /\ UNCHANGED <<life, daemon, pool, made, steady, runs>>

GiveUp(c) ==
  /\ call[c] = "lost"
  /\ Returns(c, "transport")
  /\ UNCHANGED <<life, daemon, pool, made, steady, runs, verdict>>

\* drainPool, before a probe of WaitForDaemon and after an uninstall.
drainPool ==
  /\ pool # <<>>
  /\ pool' = <<>>
  /\ UNCHANGED <<life, daemon, call, conn, result, made, steady, runs, verdict>>

CallsNext ==
  \/ Listen \/ Accepting \/ DaemonEnds \/ drainPool
  \/ \E c \in Callers :
       rpc(c) \/ Send(c) \/ dispatch(c) \/ ReadAnswer(c) \/ ReadFails(c)
       \/ Reconnect(c) \/ GiveUp(c)

CallsSpec == CallsInit /\ [][CallsNext]_callVars

(***************************************************************************)
(* Properties.                                                             *)
(***************************************************************************)
\* CallsAreHonest: a call that returns success is one whose handler's last
\* run succeeded; however many dead connections earlier lives of the daemon
\* have left in the pool, a call during all of which the daemon is up never
\* fails for want of a connection; and no call runs its handler more than
\* twice.  (That an error of the handler's own is retried too is what the
\* code does, though the comment speaks of transport errors.)
CallsAreHonest ==
  [][ \A c \in Callers : call[c] # "idle" /\ call'[c] = "idle" =>
        /\ result'[c] = "ok" => verdict[c] = "ok"
        /\ result'[c] = "handler" => runs[c] > 0
        /\ result'[c] = "transport" => ~steady[c]
        /\ runs[c] <= 2
    ]_callVars
==============================================================================
