--------------------------- MODULE XraySupervisor ---------------------------
(***************************************************************************)
(* The xray supervisor (daemon/xray.go, xray_live.go, xrayapi.go): one     *)
(* child process, brought to the configuration the store asks for through *)
(* the child's API where that is possible and by a restart where it is    *)
(* not.  Everything that changes the store (IPC handlers, subscription    *)
(* refreshes, the health poll's parking) writes it without the            *)
(* supervisor's mutex and then calls Reconcile, which holds the mutex     *)
(* from its first read to its last write.  The child dies on its own,     *)
(* is noticed by a goroutine of its own that needs the same mutex, reads  *)
(* its configuration file some time after it was started, and outlives a  *)
(* daemon that crashes.                                                    *)
(*                                                                         *)
(* A configuration is abstracted to what the API can replace: outbounds    *)
(* and inbounds by tag, and the routing section as a whole.  The parts     *)
(* that are the same in every generated configuration (log, api, policy,   *)
(* the block and direct outbounds) are left out, and with them the         *)
(* restart a change of one of them would need.                             *)
(***************************************************************************)
EXTENDS Integers, FiniteSets

CONSTANTS Entries,      \* names an xray entry can have
          Nodes,        \* subscription nodes the shared dialer pool can have
          Callers,      \* goroutines that write the store and reconcile
          NoOne,        \* nobody holds the mutex
          InitialEntries,  \* the entries in the store at the first boot
          MaxEdits,     \* bound: store edits
          MaxFaults,    \* bound: failures, child exits and daemon crashes
          MaxStarts     \* bound: children started

ASSUME SupervisorAssumption ==
  /\ Callers # {} /\ NoOne \notin Callers
  /\ MaxEdits \in Nat /\ MaxFaults \in Nat /\ MaxStarts \in Nat

VARIABLES entries,   \* xrayStore: entry -> row, Absent when there is none
          rules,     \* xrayStore: version of the user's routing rules
          pool,      \* nodes the dialer of the master entries resolves to
          parked,    \* nodes the health poll has parked
          rows,      \* proxyStore: the hidden proxy row of an entry: its port
          pc,        \* what each caller is doing
          job,       \* the Reconcile that holds the mutex
          up,        \* is the daemon running
          cmd,       \* s.cmd: the child, 0 for nil
          running,   \* s.running
          loaded,    \* s.loadedSlots
          file,      \* config.json
          procs,     \* child -> what the process is
          watch,     \* child -> its watcher goroutine
          lastOK,    \* did the Reconcile that finished last succeed
          edits,     \* edits made so far
          faults     \* faults so far

store == <<entries, rules, pool, parked>>
vars == <<entries, rules, pool, parked, rows, pc, job, up, cmd, running, loaded,
          file, procs, watch, lastOK, edits, faults>>

Pids == 1..MaxStarts

Absent == <<>>
NoRow == -1
NoConfig == <<>>
NoSlot == [masters |-> {}, members |-> {}]

Ports == 0..(Cardinality(Entries) - 1)
Rows == [on : BOOLEAN, ver : 0..1, dials : BOOLEAN, port : Ports]

Present(es) == {e \in Entries : es[e] # Absent}
EnabledIn(es) == {e \in Present(es) : es[e].on}

\* nextFreePort: the lowest port no stored entry has.
nextFreePort(es) ==
  CHOOSE p \in Ports :
    /\ \A e \in Present(es) : es[e].port # p
    /\ \A q \in 0..(p - 1) : \E e \in Present(es) : es[e].port = q

-----------------------------------------------------------------------------
(* Generate: the configuration of the store's entries.                     *)

\* withoutParked: the resolved members less the parked ones, unless that
\* would leave none.
withoutParked(members, out) ==
  IF members \ out = {} THEN members ELSE members \ out

\* resolveDialerSlots: every enabled master dials the one pool, so they share
\* a slot; with no reachable member they dial directly and there is none.
resolveDialerSlots(es, members, out) ==
  LET masters == {e \in EnabledIn(es) : es[e].dials}
  IN  IF masters = {} \/ members = {}
      THEN NoSlot
      ELSE [masters |-> masters, members |-> withoutParked(members, out)]

Direct == <<>>

OutTags(es, slot) ==
  {<<"out", e>> : e \in EnabledIn(es)} \cup {<<"dialer", e>> : e \in slot.masters}
    \cup {<<"member", n>> : n \in slot.members}
    \cup {<<"chain", e, n>> : e \in slot.masters, n \in slot.members}

Outbound(es, slot, t) ==
  CASE t[1] = "out" -> [ver |-> es[t[2]].ver,
                        via |-> IF t[2] \in slot.masters
                                THEN <<"dialer", t[2]>> ELSE Direct]
    [] t[1] = "chain" -> [ver |-> es[t[2]].ver, via |-> <<"member", t[3]>>]
    [] OTHER -> [ver |-> 0, via |-> Direct]

Outbounds(es, slot) == [t \in OutTags(es, slot) |-> Outbound(es, slot, t)]

InTags(es, slot) ==
  {<<"in", e>> : e \in EnabledIn(es)}
    \cup (IF slot = NoSlot THEN {} ELSE {<<"slot">>, <<"probe">>})

Inbound(es, slot, t) ==
  CASE t[1] = "in" -> {es[t[2]].port}
    [] t[1] = "slot" -> {}
    [] OTHER -> slot.masters \X slot.members

Inbounds(es, slot) == [t \in InTags(es, slot) |-> Inbound(es, slot, t)]

Routing(es, slot, r) ==
  [rules |-> r,
   targets |-> {<<"out", e>> : e \in EnabledIn(es)}
               \cup {<<"member", n>> : n \in slot.members}
               \cup {<<"chain", e, n>> : e \in slot.masters, n \in slot.members}]

Generate(es, slot, r) ==
  [outs |-> Outbounds(es, slot), ins |-> Inbounds(es, slot),
   routing |-> Routing(es, slot, r)]

-----------------------------------------------------------------------------
(* The live plan: the API calls that turn one configuration into another.  *)

Gone(old, want) == DOMAIN old \ DOMAIN want
Changed(old, want) == {t \in DOMAIN old \cap DOMAIN want : old[t] # want[t]}
Added(old, want) == (DOMAIN want \ DOMAIN old) \cup Changed(old, want)

\* applyLiveLocked: the k-th call of a live apply.  Outbounds come first, then
\* inbounds, then routing, and the removals last.
applyLiveCall(k, old, want) ==
  CASE k = 1 -> [op |-> "rmo", tags |-> Changed(old.outs, want.outs)]
    [] k = 2 -> [op |-> "ado", tags |-> Added(old.outs, want.outs)]
    [] k = 3 -> [op |-> "rmi", tags |-> Changed(old.ins, want.ins)]
    [] k = 4 -> [op |-> "adi", tags |-> Added(old.ins, want.ins)]
    [] k = 5 -> [op |-> "adrules", tags |-> IF old.routing = want.routing
                                            THEN {} ELSE {<<"routing">>}]
    [] k = 6 -> [op |-> "rmi", tags |-> Gone(old.ins, want.ins)]
    [] k = 7 -> [op |-> "rmo", tags |-> Gone(old.outs, want.outs)]

\* A call with nothing to do is not made: the places of the calls that are.
Plan(old, want) == {k \in 1..7 : applyLiveCall(k, old, want).tags # {}}

First(todo) == CHOOSE k \in todo : \A j \in todo : k <= j

-----------------------------------------------------------------------------
(* The child (external): it reads the configuration file once, after it    *)
(* was started, and then follows the API.                                  *)

Unused == [st |-> "unused", cfg |-> NoConfig]
Alive(p) == procs[p].st \in {"starting", "serving"}
Serving(p) == procs[p].st = "serving"

\* Adding a tag that exists and removing an inbound that does not are
\* refused; removing an outbound that does not exist is not.
APIAccepts(c, call) ==
  CASE call.op = "ado" -> call.tags \cap DOMAIN c.outs = {}
    [] call.op = "adi" -> call.tags \cap DOMAIN c.ins = {}
    [] call.op = "rmi" -> call.tags \subseteq DOMAIN c.ins
    [] OTHER -> TRUE

Without(f, tags) == [t \in DOMAIN f \ tags |-> f[t]]
With(f, tags, want) ==
  [t \in DOMAIN f \cup tags |-> IF t \in tags THEN want[t] ELSE f[t]]

APIEffect(c, call, want) ==
  CASE call.op = "rmo" -> [c EXCEPT !.outs = Without(@, call.tags)]
    [] call.op = "ado" -> [c EXCEPT !.outs = With(@, call.tags, want.outs)]
    [] call.op = "rmi" -> [c EXCEPT !.ins = Without(@, call.tags)]
    [] call.op = "adi" -> [c EXCEPT !.ins = With(@, call.tags, want.ins)]
    [] call.op = "adrules" -> [c EXCEPT !.routing = want.routing]

-----------------------------------------------------------------------------
(* The callers' half: what they write before they reconcile.               *)

Free == [by |-> NoOne, at |-> "free", es |-> <<>>, rules |-> 0, slot |-> NoSlot,
         cfg |-> NoConfig, todo |-> {}, pid |-> 0]

\* The goroutine main reconciles on at boot; callers are interchangeable.
main == CHOOSE c \in Callers : TRUE

\* Boot at first start: newXraySupervisor found nothing to sweep, and main's
\* own Reconcile is waiting to run.
Init ==
  /\ entries = InitialEntries
  /\ rules = 0
  /\ pool = Nodes
  /\ parked = {}
  /\ rows = [e \in Entries |-> NoRow]
  /\ pc = [c \in Callers |-> IF c = main THEN "want" ELSE "idle"]
  /\ job = Free
  /\ up = "up"
  /\ cmd = 0
  /\ running = NoConfig
  /\ loaded = NoSlot
  /\ file = NoConfig
  /\ procs = [p \in Pids |-> Unused]
  /\ watch = [p \in Pids |-> "none"]
  /\ lastOK = FALSE
  /\ edits = 0
  /\ faults = 0

\* A caller is about to write: the daemon serves it and it has nothing in hand.
MayEdit(c) ==
  /\ up = "up"
  /\ pc[c] = "idle"
  /\ edits < MaxEdits
  /\ edits' = edits + 1
  /\ pc' = [pc EXCEPT ![c] = "want"]
  /\ UNCHANGED <<rows, job, up, cmd, running, loaded, file, procs, watch, lastOK,
                 faults>>

\* xray.add: a new row on the lowest free port.
XrayAdd(c, e) ==
  /\ MayEdit(c)
  /\ entries[e] = Absent
  /\ \E on, dials \in BOOLEAN :
       entries' = [entries EXCEPT ![e] = [on |-> on, ver |-> 0, dials |-> dials,
                                          port |-> nextFreePort(entries)]]
  /\ UNCHANGED <<rules, pool, parked>>

\* xray.update: one thing about the row changes, or its name does; the port
\* stays.
XrayUpdate(c, e) ==
  /\ MayEdit(c)
  /\ entries[e] # Absent
  /\ \/ entries' = [entries EXCEPT ![e].on = ~@]
     \/ entries' = [entries EXCEPT ![e].ver = 1 - @]
     \/ entries' = [entries EXCEPT ![e].dials = ~@]
     \/ \E f \in Entries : /\ entries[f] = Absent
                           /\ entries' = [entries EXCEPT ![e] = Absent, ![f] = entries[e]]
  /\ UNCHANGED <<rules, pool, parked>>

\* xray.delete.
XrayDelete(c, e) ==
  /\ MayEdit(c)
  /\ entries[e] # Absent
  /\ entries' = [entries EXCEPT ![e] = Absent]
  /\ UNCHANGED <<rules, pool, parked>>

\* xray.routing.set.
RoutingSet(c) ==
  /\ MayEdit(c)
  /\ rules' = 1 - rules
  /\ UNCHANGED <<entries, pool, parked>>

\* A subscription refresh changes the nodes the dialer resolves to.
SubRefresh(c) ==
  /\ MayEdit(c)
  /\ pool' \in SUBSET Nodes \ {pool}
  /\ UNCHANGED <<entries, rules, parked>>

\* The health poll parks a node or returns one (NodePool has the decision).
PollParks(c) ==
  /\ MayEdit(c)
  /\ \E n \in Nodes : parked' = (parked \ {n}) \cup ({n} \ parked)
  /\ UNCHANGED <<entries, rules, pool>>

-----------------------------------------------------------------------------
(* Reconcile, under the mutex.                                             *)

Finish(ok) ==
  /\ job' = Free
  /\ pc' = [pc EXCEPT ![job.by] = "idle"]
  /\ lastOK' = ok

Fault == faults < MaxFaults /\ faults' = faults + 1

\* syncProxies: a hidden row per entry, on the entry's port.
HiddenRow(es, e) == IF es[e] = Absent THEN NoRow ELSE es[e].port
AlignedRows(es) == [e \in Entries |-> HiddenRow(es, e)]

\* Mutant: the cancelled context does not stop a Reconcile.
BeginRegardless(c) ==
  /\ up # "down"
  /\ job = Free
  /\ pc[c] = "want"
  /\ pc' = [pc EXCEPT ![c] = "in"]
  /\ rows' = AlignedRows(entries)
  /\ job' = [Free EXCEPT !.by = c, !.es = entries,
                         !.at = IF EnabledIn(entries) = {} THEN "stop" ELSE "rules"]
  /\ UNCHANGED <<store, up, cmd, running, loaded, file, procs, watch, lastOK, edits,
                 faults>>

\* Takes the mutex, lists the entries and aligns the hidden rows.  With no
\* entry enabled the child is only stopped.
Begin(c) ==
  /\ up = "up"
  /\ job = Free
  /\ pc[c] = "want"
  /\ pc' = [pc EXCEPT ![c] = "in"]
  /\ rows' = AlignedRows(entries)
  /\ job' = [Free EXCEPT !.by = c, !.es = entries,
                         !.at = IF EnabledIn(entries) = {} THEN "stop" ELSE "rules"]
  /\ UNCHANGED <<store, up, cmd, running, loaded, file, procs, watch, lastOK, edits,
                 faults>>

\* The list fails (always, once the daemon's context is cancelled), or one of
\* the row writes does and the rows after it are not aligned.
BeginFails(c) ==
  /\ up # "down"
  /\ job = Free
  /\ pc[c] = "want"
  /\ \/ up # "up" /\ UNCHANGED <<rows, faults>>
     \/ /\ Fault
        /\ \E done \in SUBSET Entries :
             rows' = [e \in Entries |-> IF e \in done THEN HiddenRow(entries, e)
                                        ELSE rows[e]]
  /\ pc' = [pc EXCEPT ![c] = "idle"]
  /\ lastOK' = FALSE
  /\ UNCHANGED <<store, job, up, cmd, running, loaded, file, procs, watch, edits>>

GetRoutingRules ==
  /\ job.at = "rules"
  /\ job' = [job EXCEPT !.rules = rules, !.at = "slots"]
  /\ UNCHANGED <<store, rows, pc, up, cmd, running, loaded, file, procs, watch,
                 lastOK, edits, faults>>

\* Mutant: a configuration with the same outbounds passes for unchanged.
WriteConfigOutsOnly ==
  /\ job.at = "slots"
  /\ LET slot == resolveDialerSlots(job.es, pool, parked)
         cfg == Generate(job.es, slot, job.rules)
         live == cmd # 0 /\ running # NoConfig
         same == live /\ running.outs = cfg.outs
     IN  /\ file' = cfg
         /\ \/ same /\ loaded' = slot /\ Finish(TRUE)
            \/ /\ ~same
               /\ job' = [job EXCEPT !.slot = slot, !.cfg = cfg,
                            !.at = IF live THEN "api" ELSE "stop",
                            !.todo = IF live THEN Plan(running, cfg) ELSE {}]
               /\ UNCHANGED <<loaded, pc, lastOK>>
  /\ UNCHANGED <<store, rows, up, cmd, running, procs, watch, edits, faults>>

\* Resolves the slots, generates and writes the configuration, and chooses
\* between nothing, the API and a restart.
WriteConfig ==
  /\ job.at = "slots"
  /\ LET slot == resolveDialerSlots(job.es, pool, parked)
         cfg == Generate(job.es, slot, job.rules)
         live == cmd # 0 /\ running # NoConfig
     IN  /\ file' = cfg
         /\ \/ /\ live /\ running = cfg
               /\ loaded' = slot
               /\ Finish(TRUE)
            \/ /\ ~(live /\ running = cfg)
               /\ job' = [job EXCEPT !.slot = slot, !.cfg = cfg,
                            !.at = IF live THEN "api" ELSE "stop",
                            !.todo = IF live THEN Plan(running, cfg) ELSE {}]
               /\ UNCHANGED <<loaded, pc, lastOK>>
  /\ UNCHANGED <<store, rows, up, cmd, running, procs, watch, edits, faults>>

\* Reading the rules, resolving the pool, generating or writing the file fails.
ReconcileFails ==
  /\ job.at \in {"rules", "slots"}
  /\ Fault
  /\ Finish(FALSE)
  /\ UNCHANGED <<store, rows, up, cmd, running, loaded, file, procs, watch, edits>>

\* The call the live apply makes next.
NextCall == applyLiveCall(First(job.todo), running, job.cfg)

\* One call to the child's API succeeds; the last one completes the change.
CallAPI ==
  /\ job.at = "api"
  /\ up = "up"
  /\ Serving(cmd)
  /\ APIAccepts(procs[cmd].cfg, NextCall)
  /\ procs' = [procs EXCEPT ![cmd].cfg = APIEffect(@, NextCall, job.cfg)]
  /\ LET rest == job.todo \ {First(job.todo)}
     IN  \/ /\ rest # {}
            /\ job' = [job EXCEPT !.todo = rest]
            /\ UNCHANGED <<running, loaded, pc, lastOK>>
         \/ /\ rest = {}
            /\ running' = job.cfg
            /\ loaded' = job.slot
            /\ Finish(TRUE)
  /\ UNCHANGED <<store, rows, up, cmd, file, watch, edits, faults>>

\* A call fails: the child is not serving, refuses it, or the call itself is
\* cut short.  The caller falls back to a restart.
CallFails ==
  /\ job.at = "api"
  /\ \/ ~Serving(cmd) /\ UNCHANGED faults
     \/ Serving(cmd) /\ ~APIAccepts(procs[cmd].cfg, NextCall) /\ UNCHANGED faults
     \/ up # "up" /\ UNCHANGED faults
     \/ Fault
  /\ job' = [job EXCEPT !.at = "stop", !.todo = {}]
  /\ UNCHANGED <<store, rows, pc, up, cmd, running, loaded, file, procs, watch,
                 lastOK, edits>>

\* stopLocked: clears s.cmd, then signals the child and waits for it.
stopLocked ==
  /\ job.at = "stop"
  /\ cmd' = 0
  /\ job' = [job EXCEPT !.pid = cmd, !.at = IF cmd = 0 THEN "stopped" ELSE "await"]
  /\ UNCHANGED <<store, rows, pc, up, running, loaded, file, procs, watch, lastOK,
                 edits, faults>>

\* The child's watcher has closed the channel stopLocked waits on.
Stopped ==
  /\ job.at = "await"
  /\ watch[job.pid] # "wait"
  /\ job' = [job EXCEPT !.at = "stopped"]
  /\ UNCHANGED <<store, rows, pc, up, cmd, running, loaded, file, procs, watch,
                 lastOK, edits, faults>>

\* Nothing is enabled: Reconcile returns with the child stopped.
NothingToRun ==
  /\ job.at = "stopped" /\ job.by # NoOne /\ job.cfg = NoConfig
  /\ loaded' = NoSlot
  /\ Finish(TRUE)
  /\ UNCHANGED <<store, rows, up, cmd, running, file, procs, watch, edits, faults>>

\* restartLocked starts a child on the file and the watcher that waits for it.
Start ==
  /\ job.at = "stopped" /\ job.cfg # NoConfig
  /\ \E p \in Pids :
       /\ procs[p] = Unused /\ watch[p] = "none"
       /\ \A q \in 1..(p - 1) : procs[q] # Unused \/ watch[q] # "none"
       /\ procs' = [procs EXCEPT ![p].st = "starting"]
       /\ watch' = [watch EXCEPT ![p] = "wait"]
       /\ cmd' = p
  /\ running' = job.cfg
  /\ loaded' = job.slot
  /\ Finish(TRUE)
  /\ UNCHANGED <<store, rows, up, file, edits, faults>>

\* exec fails: s.running still names the configuration before the stop.
StartFails ==
  /\ job.at = "stopped" /\ job.cfg # NoConfig
  /\ Fault
  /\ Finish(FALSE)
  /\ UNCHANGED <<store, rows, up, cmd, running, loaded, file, procs, watch, edits>>

\* repushGeoRouting: the running routing section is pushed again under the
\* mutex after a geo data update; a failure changes nothing.
repushGeoRouting ==
  /\ up = "up" /\ job = Free
  /\ cmd # 0 /\ running # NoConfig
  /\ Serving(cmd)
  /\ procs' = [procs EXCEPT ![cmd].cfg.routing = running.routing]
  /\ UNCHANGED <<store, rows, pc, job, up, cmd, running, loaded, file, watch, lastOK,
                 edits, faults>>

-----------------------------------------------------------------------------
(* The child and its watcher.                                              *)

\* The child reads the file it finds, which need not be the one it was
\* started on, and serves.
ReadsConfig(p) ==
  /\ procs[p].st = "starting"
  /\ procs' = [procs EXCEPT ![p] = [st |-> "serving", cfg |-> file]]
  /\ UNCHANGED <<store, rows, pc, job, up, cmd, running, loaded, file, watch, lastOK,
                 edits, faults>>

\* The child dies on its own, or of the signal stopLocked sent.
Exits(p) ==
  /\ Alive(p)
  /\ \/ job.at = "await" /\ job.pid = p /\ UNCHANGED faults
     \/ Fault
  /\ procs' = [procs EXCEPT ![p] = IF watch[p] = "none" THEN Unused
                                   ELSE [st |-> "exited", cfg |-> NoConfig]]
  /\ UNCHANGED <<store, rows, pc, job, up, cmd, running, loaded, file, watch, lastOK,
                 edits>>

\* Mutant: the watcher takes the mutex before it closes done.
WaitReturnsLocked(p) ==
  /\ job = Free
  /\ procs[p].st = "exited" /\ watch[p] = "wait"
  /\ watch' = [watch EXCEPT ![p] = "closed"]
  /\ UNCHANGED <<store, rows, pc, job, up, cmd, running, loaded, file, procs, lastOK,
                 edits, faults>>

\* Wait returns in the watcher, which closes done before it takes the mutex.
WaitReturns(p) ==
  /\ procs[p].st = "exited" /\ watch[p] = "wait"
  /\ watch' = [watch EXCEPT ![p] = "closed"]
  /\ UNCHANGED <<store, rows, pc, job, up, cmd, running, loaded, file, procs, lastOK,
                 edits, faults>>

\* Mutant: the watcher clears s.cmd whichever child it is.
NoticesAny(p) ==
  /\ watch[p] = "closed" /\ job = Free
  /\ cmd' = 0
  /\ watch' = [watch EXCEPT ![p] = "none"]
  /\ procs' = [procs EXCEPT ![p] = Unused]
  /\ UNCHANGED <<store, rows, pc, job, up, running, loaded, file, lastOK, edits, faults>>

\* With the mutex, the watcher clears s.cmd only if it still is its child.
Notices(p) ==
  /\ watch[p] = "closed" /\ job = Free
  /\ cmd' = IF cmd = p THEN 0 ELSE cmd
  /\ watch' = [watch EXCEPT ![p] = "none"]
  /\ procs' = [procs EXCEPT ![p] = Unused]
  /\ UNCHANGED <<store, rows, pc, job, up, running, loaded, file, lastOK, edits, faults>>

-----------------------------------------------------------------------------
(* The daemon's own end and beginning.                                     *)

\* What a process that is gone leaves: the store, the rows, the file, and
\* whichever children are alive.
DaemonGone ==
  /\ up' = "down"
  /\ pc' = [c \in Callers |-> "idle"]
  /\ job' = Free
  /\ cmd' = 0
  /\ running' = NoConfig
  /\ loaded' = NoSlot
  /\ parked' = {}
  /\ lastOK' = FALSE
  /\ watch' = [p \in Pids |-> "none"]
  /\ procs' = [p \in Pids |-> IF Alive(p) THEN procs[p] ELSE Unused]
  /\ UNCHANGED <<entries, rules, pool, rows, file, edits>>

Crash == up # "down" /\ Fault /\ DaemonGone

\* SIGTERM: main cancels its context and, once its goroutines are done,
\* returns into the deferred Stop.
Shutdown ==
  /\ up = "up" /\ Fault
  /\ up' = "quitting"
  /\ UNCHANGED <<store, rows, pc, job, cmd, running, loaded, file, procs, watch,
                 lastOK, edits>>

Stop ==
  /\ up = "quitting" /\ job = Free
  /\ job' = [Free EXCEPT !.at = "stop"]
  /\ UNCHANGED <<store, rows, pc, up, cmd, running, loaded, file, procs, watch,
                 lastOK, edits, faults>>

\* Stop returns, giving the mutex back, and then the process is gone.
StopReturns ==
  /\ job.at = "stopped" /\ job.by = NoOne
  /\ up' = "stopped"
  /\ job' = Free
  /\ UNCHANGED <<store, rows, pc, cmd, running, loaded, file, procs, watch, lastOK,
                 edits, faults>>

Quit == up = "stopped" /\ DaemonGone /\ UNCHANGED faults

\* sweepOrphanXray kills what an earlier daemon left; then main reconciles.
Boot ==
  /\ up = "down"
  /\ up' = "up"
  /\ procs' = [p \in Pids |-> Unused]
  /\ pc' = [pc EXCEPT ![main] = "want"]
  /\ UNCHANGED <<store, rows, job, cmd, running, loaded, file, watch, lastOK, edits,
                 faults>>

-----------------------------------------------------------------------------
Edit == \E c \in Callers :
          \/ \E e \in Entries : XrayAdd(c, e) \/ XrayUpdate(c, e) \/ XrayDelete(c, e)
          \/ RoutingSet(c) \/ SubRefresh(c) \/ PollParks(c)

\* What the goroutine that holds the mutex does next, failures included.
Reconcile == \/ GetRoutingRules \/ WriteConfig \/ ReconcileFails
             \/ CallAPI \/ CallFails
             \/ stopLocked \/ Stopped \/ NothingToRun \/ Start \/ StartFails
             \/ StopReturns

Child(p) == ReadsConfig(p) \/ Exits(p) \/ WaitReturns(p) \/ Notices(p)

Next == \/ Edit
        \/ \E c \in Callers : Begin(c) \/ BeginFails(c)
        \/ Reconcile
        \/ repushGeoRouting
        \/ \E p \in Pids : Child(p)
        \/ Crash \/ Shutdown \/ Stop \/ Quit \/ Boot

Spec == Init /\ [][Next]_vars

\* Some goroutine that can run does, or a signalled child dies (SIGKILL
\* follows SIGTERM): no one in particular.
Obeys(p) == job.at = "await" /\ job.pid = p /\ Exits(p)
Progress ==
  \/ Reconcile
  \/ \E c \in Callers : Begin(c) \/ BeginFails(c)
  \/ \E p \in Pids : Obeys(p) \/ WaitReturns(p) \/ Notices(p) \/ ReadsConfig(p)
  \/ Stop \/ Quit

FairSpec == Spec /\ WF_vars(Progress)

-----------------------------------------------------------------------------
TypeOK ==
  /\ entries \in [Entries -> Rows \cup {Absent}]
  /\ rules \in 0..1
  /\ pool \subseteq Nodes /\ parked \subseteq Nodes
  /\ rows \in [Entries -> Ports \cup {NoRow}]
  /\ pc \in [Callers -> {"idle", "want", "in"}]
  /\ job.by \in Callers \cup {NoOne}
  /\ job.at \in {"free", "rules", "slots", "api", "stop", "await", "stopped"}
  /\ up \in {"up", "quitting", "stopped", "down"}
  /\ cmd \in Pids \cup {0}
  /\ \A p \in Pids : /\ procs[p].st \in {"unused", "starting", "serving", "exited"}
                     /\ watch[p] \in {"none", "wait", "closed"}
  /\ lastOK \in BOOLEAN
  /\ edits \in 0..MaxEdits /\ faults \in 0..MaxFaults

\* Two children would fight for the same inbound ports: whatever is started,
\* stopped, swept after a crash or noticed late, at most one is alive while
\* the daemon runs (restartLocked, sweepOrphanXray, the watcher's check that
\* s.cmd still is its child).
OneChild ==
  up # "down" => Cardinality({p \in Pids : Alive(p)}) <= 1

\* When the mutex is free the child that serves has exactly the
\* configuration s.running says it has: the one thing the next live plan is
\* computed from, across partial applies that failed, a child that read its
\* file late, and geo pushes.
RunningIsTrue ==
  (job = Free /\ cmd # 0 /\ Serving(cmd)) =>
    procs[cmd].cfg = running /\ loaded.members = {t[2] : t \in
       {u \in DOMAIN running.outs : u[1] = "member"}}

\* Once every caller is done and the Reconcile that finished last succeeded,
\* the hidden rows, the child's configuration and whether there is a child at
\* all are what the store asks for, however the callers' edits interleaved
\* with each other's Reconcile.
Converged ==
  (up = "up" /\ lastOK /\ \A c \in Callers : pc[c] = "idle") =>
    /\ rows = AlignedRows(entries)
    /\ \A p \in Pids : Serving(p) =>
         procs[p].cfg = Generate(entries, resolveDialerSlots(entries, pool, parked), rules)
    /\ EnabledIn(entries) = {} => \A p \in Pids : ~Alive(p)

\* The outbounds a live apply is replacing right now.
Replacing ==
  IF job.at = "api" /\ NextCall.op = "ado" THEN NextCall.tags ELSE {}

\* "Order keeps every reference resolvable": at every point of a live apply
\* an outbound that the child's routing or another outbound's dialerProxy
\* names exists, except one the apply is just replacing under the same tag.
RefsResolve ==
  (cmd # 0 /\ Serving(cmd) /\ (job.at = "api" \/ job = Free)) =>
    LET c == procs[cmd].cfg
        named == c.routing.targets \cup {c.outs[t].via : t \in DOMAIN c.outs}
    IN  named \ {Direct} \subseteq DOMAIN c.outs \cup Replacing

\* All three: there is one child at most, it is configured as the supervisor
\* believes, and it can resolve every outbound its configuration names.
ChildIsKnown == OneChild /\ RunningIsTrue /\ RefsResolve

\* A clean shutdown leaves no child behind, even with Reconciles in flight
\* when the signal arrives (main cancels the context before the deferred Stop).
LeavesNoChild ==
  [][Quit => \A p \in Pids : ~Alive(p)]_vars

\* A live apply touches no object the change does not: an outbound or inbound
\* that is the same in the old and the new configuration is not removed,
\* replaced or added while it is applied.
UnchangedUntouched ==
  [][CallAPI =>
       LET old == procs[cmd].cfg
           new == procs'[cmd].cfg
       IN  /\ \A t \in DOMAIN running.outs \cap DOMAIN job.cfg.outs :
                running.outs[t] = job.cfg.outs[t]
                  => t \in DOMAIN new.outs /\ new.outs[t] = old.outs[t]
           /\ \A t \in DOMAIN running.ins \cap DOMAIN job.cfg.ins :
                running.ins[t] = job.cfg.ins[t]
                  => t \in DOMAIN new.ins /\ new.ins[t] = old.ins[t]]_vars

\* Both: a live apply disturbs nothing it need not, and a shutdown nothing less
\* than everything.
StepsAreClean == LeavesNoChild /\ UnchangedUntouched

\* Every Reconcile returns: stopLocked waits for the watcher while it holds
\* the mutex the watcher needs, and neither waits for the other; the callers
\* that were waiting for the mutex all get it.
ReconcileReturns ==
  (\E c \in Callers : pc[c] # "idle") ~> (\A c \in Callers : pc[c] = "idle")

=============================================================================
