------------------------ MODULE XraySupervisor_proof ------------------------
(***************************************************************************)
(* What XraySupervisor promises for every number of entries, nodes,        *)
(* callers, edits, faults and children: one child at most, configured as   *)
(* the supervisor believes, with every reference resolvable; convergence   *)
(* to the store; and clean steps.  The heart of the proof is Partial: what *)
(* a live apply has made of the child's configuration after each call,     *)
(* whether the child started from the old configuration or had already     *)
(* read the new file.                                                      *)
(***************************************************************************)
EXTENDS XraySupervisor, FiniteSetTheorems, TLAPS

\* f is a function.
IsFcn(f) == f = [t \in DOMAIN f |-> f[t]]

\* c is a configuration: three sections, of which two are functions of tags.
IsConfig(c) ==
  c = [outs |-> [t \in DOMAIN c.outs |-> c.outs[t]],
       ins |-> [t \in DOMAIN c.ins |-> c.ins[t]], routing |-> c.routing]

\* The outbounds a configuration names, and the pool members it has.
Named(c) == c.routing.targets \cup {c.outs[t].via : t \in DOMAIN c.outs}
Members(c) == {t[2] : t \in {u \in DOMAIN c.outs : u[1] = "member"}}

\* What Generate gives: every outbound it names it also has, and its members
\* are those of the slot it was made from.
Sound(c, slot) ==
  /\ IsConfig(c)
  /\ Named(c) \ {Direct} \subseteq DOMAIN c.outs
  /\ slot.members = Members(c)

\* The fields of the Reconcile in progress.
JobFields == [by |-> job.by, at |-> job.at, es |-> job.es, rules |-> job.rules,
              slot |-> job.slot, cfg |-> job.cfg, todo |-> job.todo, pid |-> job.pid]

\* The types the steps below rely on.
Shape ==
  /\ job = JobFields
  /\ job.at \in {"free", "rules", "slots", "api", "stop", "await", "stopped"}
  /\ procs = [p \in Pids |-> [st |-> procs[p].st, cfg |-> procs[p].cfg]]
  /\ \A p \in Pids : procs[p].st \in {"unused", "starting", "serving", "exited"}
  /\ watch \in [Pids -> {"none", "wait", "closed"}]
  /\ pc \in [Callers -> {"idle", "want", "in"}]
  /\ up \in {"up", "quitting", "stopped", "down"}
  /\ cmd \in Pids \cup {0}

\* Who holds the mutex: a caller inside Reconcile, or Stop once the daemon is
\* quitting; nobody once it has stopped.
Holder ==
  /\ job.at = "free" => job = Free
  /\ job.at # "free" =>
       \/ job.by \in Callers
       \/ /\ job.by = NoOne /\ up = "quitting" /\ job.cfg = NoConfig
          /\ job.at \in {"stop", "await", "stopped"}
  /\ \A c \in Callers : pc[c] = "in" <=> job.by = c
  /\ up \in {"stopped", "down"} => job = Free /\ cmd = 0

\* A child that is alive is the one s.cmd names or the one stopLocked waits for,
\* and its watcher has not closed the channel.
Children ==
  /\ job.at \in {"await", "stopped"} => cmd = 0
  /\ job.at = "await" => job.pid \in Pids
  /\ up # "down" =>
       \A p \in Pids : Alive(p) =>
         /\ p = cmd \/ (job.at = "await" /\ job.pid = p)
         /\ watch[p] = "wait"
  /\ \A p \in Pids : watch[p] = "closed" => procs[p].st = "exited"
  /\ up = "down" => \A p \in Pids : watch[p] = "none"

\* The k-th call of a live apply, or an earlier one, is still to be made.
Left(todo, k) == \E j \in todo : j <= k

\* A section of the configuration in the course of a live apply: with what
\* changed removed, with what is wanted added, with what is gone removed.
Bare(base, old, want) == Without(base, Changed(old, want))
Full(base, old, want) == With(Bare(base, old, want), Added(old, want), want)
Trim(base, old, want) == Without(Full(base, old, want), Gone(old, want))

\* The section when its three calls are the i-th, the j-th and the k-th.
Section(base, old, want, todo, i, j, k) ==
  IF Left(todo, i) THEN base
  ELSE IF Left(todo, j) THEN Bare(base, old, want)
  ELSE IF Left(todo, k) THEN Full(base, old, want)
  ELSE Trim(base, old, want)

\* c is what the calls made so far turn base into.  base is the old
\* configuration, or the wanted one when the child read its file late.
Partial(c, base, old, want, todo) ==
  /\ IsConfig(c)
  /\ c.outs = Section(base.outs, old.outs, want.outs, todo, 1, 2, 7)
  /\ c.ins = Section(base.ins, old.ins, want.ins, todo, 3, 4, 6)
  /\ c.routing = IF Left(todo, 5) THEN base.routing ELSE want.routing

\* While no live apply is under way the child has, or will read, the
\* configuration s.running names; the file holds the one being applied.
Configs ==
  /\ cmd # 0 => Sound(running, loaded)
  /\ job.at \in {"free", "rules", "slots"} => job.cfg = NoConfig
  /\ job.cfg # NoConfig => Sound(job.cfg, job.slot) /\ file = job.cfg
  /\ (job.at \in {"free", "rules", "slots"} /\ cmd # 0) =>
       /\ procs[cmd].st = "starting" => file = running
       /\ procs[cmd].st = "serving" => procs[cmd].cfg = running

\* A live apply has made the calls of its plan up to some point, in order, and
\* the child is where those calls lead; a child still starting has taken none.
Applying ==
  job.at = "api" =>
    /\ cmd # 0 /\ job.cfg # NoConfig
    /\ job.todo # {} /\ job.todo \subseteq Plan(running, job.cfg)
    /\ \A k \in Plan(running, job.cfg) : Left(job.todo, k) => k \in job.todo
    /\ procs[cmd].st = "starting" => job.todo = Plan(running, job.cfg)
    /\ procs[cmd].st = "serving" =>
         \E base \in {running, job.cfg} :
           Partial(procs[cmd].cfg, base, running, job.cfg, job.todo)

\* The configuration the store asks for.
Wanted == Generate(entries, resolveDialerSlots(entries, pool, parked), rules)

\* With no caller waiting for the mutex, the Reconcile in progress works on the
\* store as it is, and a successful one that has finished has reached it.
Settling ==
  /\ job.at \in {"rules", "slots"} \/ job.cfg # NoConfig => EnabledIn(job.es) # {}
  /\ (up = "up" /\ \A c \in Callers : pc[c] # "want") =>
       /\ job.at # "free" => job.es = entries /\ rows = AlignedRows(entries)
       /\ job.at = "slots" => job.rules = rules
       /\ job.cfg # NoConfig => job.cfg = Wanted
       /\ (job.at \in {"stop", "await", "stopped"} /\ job.cfg = NoConfig) => EnabledIn(entries) = {}
       /\ (job.at = "free" /\ lastOK) =>
            /\ rows = AlignedRows(entries)
            /\ EnabledIn(entries) = {} => cmd = 0
            /\ cmd # 0 => running = Wanted

\* The inductive invariant.
Inv == Shape /\ Holder /\ Children /\ Configs /\ Applying /\ Settling

\* Removing nothing changes nothing.
LEMMA WithoutNone ==
  ASSUME NEW f, f = [t \in DOMAIN f |-> f[t]]
  PROVE  Without(f, {}) = f
BY DEF Without

\* Adding nothing changes nothing.
LEMMA WithNone ==
  ASSUME NEW f, NEW w, f = [t \in DOMAIN f |-> f[t]]
  PROVE  With(f, {}, w) = f
BY DEF With

\* A plan that is not empty has a first call.
LEMMA FirstIs ==
  ASSUME NEW T \in SUBSET (1..7), T # {}
  PROVE  First(T) \in T /\ \A j \in T : First(T) <= j
<1>1. \E k \in T : \A j \in T : k <= j
  <2>1. CASE 1 \in T
    BY <2>1
  <2>2. CASE 1 \notin T /\ 2 \in T
    BY <2>2
  <2>3. CASE 1 \notin T /\ 2 \notin T /\ 3 \in T
    BY <2>3
  <2>4. CASE 1 \notin T /\ 2 \notin T /\ 3 \notin T /\ 4 \in T
    BY <2>4
  <2>5. CASE 1 \notin T /\ 2 \notin T /\ 3 \notin T /\ 4 \notin T /\ 5 \in T
    BY <2>5
  <2>6. CASE T \subseteq {6, 7} /\ 6 \in T
    BY <2>6
  <2>7. CASE T \subseteq {7}
    <3>1. PICK x \in T : TRUE
      BY Zenon
    <3> QED
      BY <2>7, <3>1
  <2> QED
    BY <2>1, <2>2, <2>3, <2>4, <2>5, <2>6, <2>7
<1> QED
  BY <1>1, Zenon DEF First

\* Generate gives a configuration, never the absence of one.
LEMMA GeneratedIsConfig ==
  ASSUME NEW es, NEW slot, NEW r
  PROVE  /\ IsConfig(Generate(es, slot, r))
         /\ Generate(es, slot, r) # NoConfig
<1>1. PICK g : g = Generate(es, slot, r)
  OBVIOUS
<1>2. /\ g.outs = Outbounds(es, slot) /\ g.ins = Inbounds(es, slot)
      /\ g = [outs |-> g.outs, ins |-> g.ins, routing |-> g.routing]
  BY <1>1 DEF Generate
<1>3. g.outs = [t \in DOMAIN g.outs |-> g.outs[t]]
  BY <1>2 DEF Outbounds
<1>4. g.ins = [t \in DOMAIN g.ins |-> g.ins[t]]
  BY <1>2 DEF Inbounds
<1>5. "outs" \in DOMAIN g
  BY <1>2
<1>6. g # NoConfig
  BY <1>5 DEF NoConfig
<1>7. IsConfig(g)
  BY <1>2, <1>3, <1>4, Zenon DEF IsConfig
<1> QED
  BY <1>1, <1>6, <1>7

\* The plan between two configurations that differ makes at least one call.
LEMMA PlanNotEmpty ==
  ASSUME NEW a, NEW b, IsConfig(a), IsConfig(b), a # b
  PROVE  Plan(a, b) # {}
<1> SUFFICES ASSUME Plan(a, b) = {}  PROVE FALSE
  OBVIOUS
<1>1. \A k \in 1..7 : applyLiveCall(k, a, b).tags = {}
  BY DEF Plan
<1>2. /\ Changed(a.outs, b.outs) = {} /\ Added(a.outs, b.outs) = {}
      /\ Gone(a.outs, b.outs) = {}
  BY <1>1 DEF applyLiveCall
<1>3. /\ Changed(a.ins, b.ins) = {} /\ Added(a.ins, b.ins) = {}
      /\ Gone(a.ins, b.ins) = {}
  BY <1>1 DEF applyLiveCall
<1>4. a.routing = b.routing
  <2> SUFFICES ASSUME a.routing # b.routing  PROVE FALSE
    OBVIOUS
  <2>1. <<"routing">> \in applyLiveCall(5, a, b).tags
    BY DEF applyLiveCall
  <2> QED
    BY <1>1, <2>1
<1>5. a.outs = b.outs
  BY <1>2 DEF Changed, Added, Gone, IsConfig
<1>6. a.ins = b.ins
  BY <1>3 DEF Changed, Added, Gone, IsConfig
<1> QED
  BY <1>4, <1>5, <1>6 DEF IsConfig

\* Every outbound a generated configuration names in its routing or as a
\* dialerProxy it also has.
LEMMA GeneratedIsSound ==
  ASSUME NEW es, NEW slot, NEW r
  PROVE  Sound(Generate(es, slot, r), slot)
<1>1. PICK g : g = Generate(es, slot, r)
  OBVIOUS
<1>2. /\ g.outs = Outbounds(es, slot)
      /\ g.routing.targets = {<<"out", e>> : e \in EnabledIn(es)}
               \cup {<<"member", n>> : n \in slot.members}
               \cup {<<"chain", e, n>> : e \in slot.masters, n \in slot.members}
  BY <1>1 DEF Generate, Routing
<1>3. DOMAIN g.outs = OutTags(es, slot)
  BY <1>2 DEF Outbounds
<1>4. \A t \in OutTags(es, slot) : g.outs[t] = Outbound(es, slot, t)
  BY <1>2 DEF Outbounds
<1>5. g.routing.targets \subseteq OutTags(es, slot)
  BY <1>2 DEF OutTags
<1>6. ASSUME NEW t \in OutTags(es, slot), Outbound(es, slot, t).via # Direct
      PROVE  Outbound(es, slot, t).via \in OutTags(es, slot)
  <2>1. CASE \E e \in EnabledIn(es) : t = <<"out", e>>
    <3>1. PICK e \in EnabledIn(es) : t = <<"out", e>>
      BY <2>1
    <3>2. t[1] = "out" /\ t[2] = e
      BY <3>1
    <3>3. Outbound(es, slot, t).via = IF e \in slot.masters THEN <<"dialer", e>> ELSE Direct
      BY <3>2 DEF Outbound
    <3>4. e \in slot.masters /\ Outbound(es, slot, t).via = <<"dialer", e>>
      BY <1>6, <3>3
    <3> QED
      BY <3>4 DEF OutTags
  <2>2. CASE \E e \in slot.masters, n \in slot.members : t = <<"chain", e, n>>
    <3>1. PICK e \in slot.masters, n \in slot.members : t = <<"chain", e, n>>
      BY <2>2
    <3>2. t[1] = "chain" /\ t[3] = n
      BY <3>1
    <3>3. Outbound(es, slot, t).via = <<"member", n>>
      BY <3>2 DEF Outbound
    <3> QED
      BY <3>3 DEF OutTags
  <2>3. CASE (\E e \in slot.masters : t = <<"dialer", e>>) \/ (\E n \in slot.members : t = <<"member", n>>)
    <3>1. t[1] # "out" /\ t[1] # "chain"
      BY <2>3
    <3>2. Outbound(es, slot, t).via = Direct
      BY <3>1 DEF Outbound
    <3> QED
      BY <1>6, <3>2
  <2> QED
    BY <2>1, <2>2, <2>3 DEF OutTags
<1>7. Named(g) \ {Direct} \subseteq DOMAIN g.outs
  BY <1>3, <1>4, <1>5, <1>6 DEF Named
<1>8. \A t \in OutTags(es, slot) : t[1] = "member" <=> \E n \in slot.members : t = <<"member", n>>
  BY DEF OutTags
<1>9. slot.members = Members(g)
  <2>1. ASSUME NEW n \in slot.members PROVE n \in Members(g)
    <3>1. <<"member", n>> \in OutTags(es, slot) /\ <<"member", n>>[1] = "member" /\ <<"member", n>>[2] = n
      BY DEF OutTags
    <3> QED
      BY <1>3, <3>1 DEF Members
  <2>2. ASSUME NEW x \in Members(g) PROVE x \in slot.members
    <3>1. PICK t \in DOMAIN g.outs : t[1] = "member" /\ x = t[2]
      BY DEF Members
    <3>2. PICK n \in slot.members : t = <<"member", n>>
      BY <1>3, <1>8, <3>1
    <3> QED
      BY <3>1, <3>2
  <2> QED
    BY <2>1, <2>2
<1>10. IsConfig(g)
  BY <1>1, GeneratedIsConfig
<1> QED
  BY <1>1, <1>7, <1>9, <1>10 DEF Sound

\* A call with nothing to do leaves its section as it is.
LEMMA SectionSame ==
  ASSUME NEW base, NEW old, NEW want, base = [t \in DOMAIN base |-> base[t]]
  PROVE  /\ Changed(old, want) = {} => Bare(base, old, want) = base
         /\ Added(old, want) = {} => Full(base, old, want) = Bare(base, old, want)
         /\ Gone(old, want) = {} => Trim(base, old, want) = Full(base, old, want)
<1>1. Bare(base, old, want) = [t \in DOMAIN Bare(base, old, want) |-> Bare(base, old, want)[t]]
  BY DEF Bare, Without
<1>2. Full(base, old, want) = [t \in DOMAIN Full(base, old, want) |-> Full(base, old, want)[t]]
  BY DEF Full, With
<1> QED
  BY <1>1, <1>2, WithoutNone, WithNone, Zenon DEF Bare, Full, Trim

\* Before the first call of the plan a section is the one it started from.
LEMMA SectionStart ==
  ASSUME NEW base, NEW old, NEW want, base = [t \in DOMAIN base |-> base[t]],
         NEW T, NEW i, NEW j, NEW k,
         i \in T \/ Changed(old, want) = {},
         j \in T \/ Added(old, want) = {},
         k \in T \/ Gone(old, want) = {},
         i \in Int, j \in Int, k \in Int
  PROVE  Section(base, old, want, T, i, j, k) = base
<1>0. /\ Changed(old, want) = {} => Bare(base, old, want) = base
      /\ Added(old, want) = {} => Full(base, old, want) = Bare(base, old, want)
      /\ Gone(old, want) = {} => Trim(base, old, want) = Full(base, old, want)
  BY SectionSame DEF IsFcn
<1>1. (i \in T => Left(T, i)) /\ (j \in T => Left(T, j)) /\ (k \in T => Left(T, k))
  BY DEF Left
<1> QED
  BY <1>1, <1>0 DEF Section

\* f is the next call of a plan whose i-th, j-th and k-th calls are about the
\* section; a call that is not in the plan has nothing to do.
Turn(old, want, T, f, i, j, k) ==
  /\ T \subseteq 1..7 /\ f \in T /\ \A m \in T : f <= m
  /\ i \in 1..7 /\ j \in 1..7 /\ k \in 1..7 /\ i < j /\ j < k
  /\ Left(T, i) => i \in T \/ Changed(old, want) = {}
  /\ Left(T, j) => j \in T \/ Added(old, want) = {}
  /\ Left(T, k) => k \in T \/ Gone(old, want) = {}

\* What one call of the plan does to a section, its own or another.
LEMMA SectionStep ==
  ASSUME NEW base, NEW old, NEW want, NEW T, NEW f, NEW i, NEW j, NEW k,
         IsFcn(base), Turn(old, want, T, f, i, j, k),
         NEW x, x = Section(base, old, want, T, i, j, k),
         NEW y, y = Section(base, old, want, T \ {f}, i, j, k)
  PROVE  /\ (f # i /\ f # j /\ f # k) => y = x
         /\ f = i => y = Without(x, Changed(old, want))
         /\ f = j => y = With(x, Added(old, want), want)
         /\ f = k => y = Without(x, Gone(old, want))
<1> USE DEF Turn
<1> DEFINE U == T \ {f}
<1>0. /\ Changed(old, want) = {} => Bare(base, old, want) = base
      /\ Added(old, want) = {} => Full(base, old, want) = Bare(base, old, want)
      /\ Gone(old, want) = {} => Trim(base, old, want) = Full(base, old, want)
  BY SectionSame DEF IsFcn
<1>1. /\ f <= i <=> Left(T, i)
      /\ Left(U, i) => f < i
      /\ (i \in T /\ i # f) => Left(U, i)
      /\ f <= j <=> Left(T, j)
      /\ Left(U, j) => f < j
      /\ (j \in T /\ j # f) => Left(U, j)
      /\ f <= k <=> Left(T, k)
      /\ Left(U, k) => f < k
      /\ (k \in T /\ k # f) => Left(U, k)
  BY DEF Left
<1>2. (Left(U, i) => Left(U, j)) /\ (Left(U, j) => Left(U, k))
  BY DEF Left
<1> HIDE DEF U
<1>3. CASE f = i
  <2>1. x = base
    BY <1>1, <1>3 DEF Section
  <2>2. ~Left(U, i) /\ Left(T, j) /\ Left(T, k) /\ i # j /\ i # k
    BY <1>1, <1>3
  <2>3. (~Left(U, j) => Added(old, want) = {}) /\ (~Left(U, k) => Gone(old, want) = {})
    BY <1>1, <1>3, <2>2
  <2>4. y = Bare(base, old, want)
    BY <1>2, <2>2, <2>3, <1>0 DEF Section, U
  <2> QED
    BY <1>3, <2>1, <2>2, <2>4 DEF Bare
<1>4. CASE f = j
  <2>1. ~Left(T, i) /\ Left(T, j) /\ Left(T, k) /\ i # j /\ j # k
    BY <1>1, <1>4
  <2>2. x = Bare(base, old, want)
    BY <2>1 DEF Section
  <2>3. ~Left(U, i) /\ ~Left(U, j) /\ (~Left(U, k) => Gone(old, want) = {})
    BY <1>1, <1>4, <2>1
  <2>4. y = Full(base, old, want)
    BY <2>3, <1>0 DEF Section, U
  <2> QED
    BY <1>4, <2>1, <2>2, <2>4 DEF Full
<1>5. CASE f = k
  <2>1. ~Left(T, i) /\ ~Left(T, j) /\ Left(T, k) /\ i # k /\ j # k
    BY <1>1, <1>5
  <2>2. x = Full(base, old, want)
    BY <2>1 DEF Section
  <2>3. ~Left(U, i) /\ ~Left(U, j) /\ ~Left(U, k)
    BY <1>1, <1>5, <2>1
  <2>4. y = Trim(base, old, want)
    BY <2>3 DEF Section, U
  <2> QED
    BY <1>5, <2>1, <2>2, <2>4 DEF Trim
<1>6. CASE f \notin {i, j, k}
  <2>1. /\ Left(T, i) /\ ~Left(U, i) => Changed(old, want) = {}
        /\ Left(T, j) /\ ~Left(U, j) => Added(old, want) = {}
        /\ Left(T, k) /\ ~Left(U, k) => Gone(old, want) = {}
    BY <1>1, <1>6
  <2>2. /\ Left(U, i) => Left(T, i)
        /\ Left(U, j) => Left(T, j)
        /\ Left(U, k) => Left(T, k)
        /\ Left(T, i) => Left(T, j)
        /\ Left(T, j) => Left(T, k)
    BY <1>1
  <2>3. y = x
    BY <1>2, <2>1, <2>2, <1>0 DEF Section, U
  <2> QED
    BY <1>6, <2>3
<1> QED
  BY <1>3, <1>4, <1>5, <1>6

\* After its last call a section is the wanted one.
LEMMA SectionEnd ==
  ASSUME NEW base, NEW old, NEW want, base \in {old, want},
         want = [t \in DOMAIN want |-> want[t]]
  PROVE  Trim(base, old, want) = want
<1>1. Trim(base, old, want) =
        [t \in ((DOMAIN base \ Changed(old, want)) \cup Added(old, want)) \ Gone(old, want) |->
           IF t \in Added(old, want) THEN want[t] ELSE base[t]]
  BY DEF Trim, Full, Bare, With, Without
<1>2. ((DOMAIN base \ Changed(old, want)) \cup Added(old, want)) \ Gone(old, want) = DOMAIN want
  BY DEF Changed, Added, Gone
<1>3. \A t \in DOMAIN want : t \notin Added(old, want) => base[t] = want[t]
  BY DEF Changed, Added
<1> QED
  BY <1>1, <1>2, <1>3

\* The calls of a live apply, one by one.
LEMMA CallsAre ==
  ASSUME NEW old, NEW want
  PROVE  /\ applyLiveCall(1, old, want) = [op |-> "rmo", tags |-> Changed(old.outs, want.outs)]
         /\ applyLiveCall(2, old, want) = [op |-> "ado", tags |-> Added(old.outs, want.outs)]
         /\ applyLiveCall(3, old, want) = [op |-> "rmi", tags |-> Changed(old.ins, want.ins)]
         /\ applyLiveCall(4, old, want) = [op |-> "adi", tags |-> Added(old.ins, want.ins)]
         /\ applyLiveCall(5, old, want).op = "adrules"
         /\ applyLiveCall(6, old, want) = [op |-> "rmi", tags |-> Gone(old.ins, want.ins)]
         /\ applyLiveCall(7, old, want) = [op |-> "rmo", tags |-> Gone(old.outs, want.outs)]
BY DEF applyLiveCall

\* A call that is not in the plan has nothing to do.
LEMMA PlanHas ==
  ASSUME NEW old, NEW want, NEW P, P = Plan(old, want)
  PROVE  /\ P \subseteq 1..7
         /\ 1 \in P \/ Changed(old.outs, want.outs) = {}
         /\ 2 \in P \/ Added(old.outs, want.outs) = {}
         /\ 3 \in P \/ Changed(old.ins, want.ins) = {}
         /\ 4 \in P \/ Added(old.ins, want.ins) = {}
         /\ 5 \in P \/ old.routing = want.routing
         /\ 6 \in P \/ Gone(old.ins, want.ins) = {}
         /\ 7 \in P \/ Gone(old.outs, want.outs) = {}
<1>1. ASSUME old.routing # want.routing
      PROVE  <<"routing">> \in applyLiveCall(5, old, want).tags
  BY <1>1 DEF applyLiveCall
<1>2. 5 \in P \/ old.routing = want.routing
  BY <1>1 DEF Plan
<1> QED
  BY <1>2, CallsAre DEF Plan

\* A child that has taken no call is at the beginning of the plan.
LEMMA PartialStart ==
  ASSUME NEW old, NEW want, IsConfig(old), IsConfig(want), NEW base \in {old, want}
  PROVE  Partial(base, base, old, want, Plan(old, want))
<1>1. PICK P : P = Plan(old, want)
  OBVIOUS
<1>2. IsConfig(base)
  OBVIOUS
<1>3. /\ base.outs = [t \in DOMAIN base.outs |-> base.outs[t]]
      /\ base.ins = [t \in DOMAIN base.ins |-> base.ins[t]]
  BY <1>2 DEF IsConfig
<1>4. base.outs = Section(base.outs, old.outs, want.outs, P, 1, 2, 7)
  <2>1. PICK b, o, w : b = base.outs /\ o = old.outs /\ w = want.outs
    OBVIOUS
  <2>2. /\ 1 \in P \/ Changed(o, w) = {}
        /\ 2 \in P \/ Added(o, w) = {}
        /\ 7 \in P \/ Gone(o, w) = {}
    BY <1>1, <2>1, PlanHas, Zenon
  <2>3. b = [t \in DOMAIN b |-> b[t]]
    BY <1>3, <2>1
  <2>4. Section(b, o, w, P, 1, 2, 7) = b
    BY <2>2, <2>3, SectionStart
  <2> QED
    BY <2>1, <2>4
<1>5. base.ins = Section(base.ins, old.ins, want.ins, P, 3, 4, 6)
  <2>1. PICK b, o, w : b = base.ins /\ o = old.ins /\ w = want.ins
    OBVIOUS
  <2>2. /\ 3 \in P \/ Changed(o, w) = {}
        /\ 4 \in P \/ Added(o, w) = {}
        /\ 6 \in P \/ Gone(o, w) = {}
    BY <1>1, <2>1, PlanHas, Zenon
  <2>3. b = [t \in DOMAIN b |-> b[t]]
    BY <1>3, <2>1
  <2>4. Section(b, o, w, P, 3, 4, 6) = b
    BY <2>2, <2>3, SectionStart
  <2> QED
    BY <2>1, <2>4
<1>6. ~Left(P, 5) => base.routing = want.routing
  <2>1. 5 \in P => Left(P, 5)
    BY DEF Left
  <2> QED
    BY <1>1, <2>1, PlanHas
<1> QED
  BY <1>1, <1>2, <1>4, <1>5, <1>6 DEF Partial

\* The next call of the plan takes the child one place further along it.
LEMMA PartialStep ==
  ASSUME NEW old, NEW want, IsConfig(old), IsConfig(want), NEW base \in {old, want},
         NEW T, T \subseteq Plan(old, want), T # {},
         \A k \in Plan(old, want) : Left(T, k) => k \in T,
         NEW c, Partial(c, base, old, want, T)
  PROVE  Partial(APIEffect(c, applyLiveCall(First(T), old, want), want),
                 base, old, want, T \ {First(T)})
<1>1. PICK P : P = Plan(old, want)
  OBVIOUS
<1>2. PICK f : f = First(T)
  OBVIOUS
<1>3. T \in SUBSET (1..7) /\ f \in T /\ \A m \in T : f <= m
  BY <1>1, <1>2, PlanHas, FirstIs
<1>4. IsConfig(base)
  OBVIOUS
<1>5. /\ base.outs = [t \in DOMAIN base.outs |-> base.outs[t]]
      /\ base.ins = [t \in DOMAIN base.ins |-> base.ins[t]]
  BY <1>4 DEF IsConfig
<1>6. /\ Left(T, 1) => 1 \in T \/ Changed(old.outs, want.outs) = {}
      /\ Left(T, 2) => 2 \in T \/ Added(old.outs, want.outs) = {}
      /\ Left(T, 3) => 3 \in T \/ Changed(old.ins, want.ins) = {}
      /\ Left(T, 4) => 4 \in T \/ Added(old.ins, want.ins) = {}
      /\ Left(T, 5) => 5 \in T \/ old.routing = want.routing
      /\ Left(T, 6) => 6 \in T \/ Gone(old.ins, want.ins) = {}
      /\ Left(T, 7) => 7 \in T \/ Gone(old.outs, want.outs) = {}
  BY <1>1, PlanHas
<1>7. /\ IsConfig(c)
      /\ c.outs = Section(base.outs, old.outs, want.outs, T, 1, 2, 7)
      /\ c.ins = Section(base.ins, old.ins, want.ins, T, 3, 4, 6)
      /\ c.routing = IF Left(T, 5) THEN base.routing ELSE want.routing
  BY DEF Partial
<1>8. PICK o : o = Section(base.outs, old.outs, want.outs, T \ {f}, 1, 2, 7)
  OBVIOUS
<1>9. PICK n : n = Section(base.ins, old.ins, want.ins, T \ {f}, 3, 4, 6)
  OBVIOUS
<1>10. /\ (f # 1 /\ f # 2 /\ f # 7) => o = c.outs
       /\ f = 1 => o = Without(c.outs, Changed(old.outs, want.outs))
       /\ f = 2 => o = With(c.outs, Added(old.outs, want.outs), want.outs)
       /\ f = 7 => o = Without(c.outs, Gone(old.outs, want.outs))
  <2>1. Turn(old.outs, want.outs, T, f, 1, 2, 7)
    <3>1. 1 \in 1..7 /\ 2 \in 1..7 /\ 7 \in 1..7 /\ 1 < 2 /\ 2 < 7
      OBVIOUS
    <3>2. T \subseteq 1..7 /\ f \in T /\ \A m \in T : f <= m
      BY <1>3, Zenon
    <3> QED
      BY <1>6, <3>1, <3>2, Zenon DEF Turn
  <2>2. IsFcn(base.outs)
    BY <1>5 DEF IsFcn
  <2>3. c.outs = Section(base.outs, old.outs, want.outs, T, 1, 2, 7)
    BY <1>7
  <2> QED
    BY <1>8, <2>1, <2>2, <2>3, SectionStep
<1>11. /\ (f # 3 /\ f # 4 /\ f # 6) => n = c.ins
       /\ f = 3 => n = Without(c.ins, Changed(old.ins, want.ins))
       /\ f = 4 => n = With(c.ins, Added(old.ins, want.ins), want.ins)
       /\ f = 6 => n = Without(c.ins, Gone(old.ins, want.ins))
  <2>1. Turn(old.ins, want.ins, T, f, 3, 4, 6)
    <3>1. 3 \in 1..7 /\ 4 \in 1..7 /\ 6 \in 1..7 /\ 3 < 4 /\ 4 < 6
      OBVIOUS
    <3>2. T \subseteq 1..7 /\ f \in T /\ \A m \in T : f <= m
      BY <1>3, Zenon
    <3> QED
      BY <1>6, <3>1, <3>2, Zenon DEF Turn
  <2>2. IsFcn(base.ins)
    BY <1>5 DEF IsFcn
  <2>3. c.ins = Section(base.ins, old.ins, want.ins, T, 3, 4, 6)
    BY <1>7
  <2> QED
    BY <1>9, <2>1, <2>2, <2>3, SectionStep
<1>12. PICK r : r = IF Left(T \ {f}, 5) THEN base.routing ELSE want.routing
  OBVIOUS
<1>13. /\ f # 5 => r = c.routing
       /\ f = 5 => r = want.routing
  <2>1. /\ Left(T \ {f}, 5) => Left(T, 5)
        /\ 5 \in T /\ f # 5 => Left(T \ {f}, 5)
        /\ f = 5 => ~Left(T \ {f}, 5)
    BY <1>3 DEF Left
  <2>2. old.routing = want.routing => base.routing = want.routing
    OBVIOUS
  <2> QED
    BY <1>6, <1>7, <1>12, <2>1, <2>2
<1>14. PICK call : call = applyLiveCall(f, old, want)
  OBVIOUS
<1>15. /\ call.op = "rmo" => f \in {1, 7}
       /\ f \in {1, 7} => call.op = "rmo"
       /\ f = 2 => call.op = "ado"
       /\ f \in {3, 6} => call.op = "rmi"
       /\ f = 4 => call.op = "adi"
       /\ f = 5 => call.op = "adrules"
       /\ f = 1 => call.tags = Changed(old.outs, want.outs)
       /\ f = 2 => call.tags = Added(old.outs, want.outs)
       /\ f = 3 => call.tags = Changed(old.ins, want.ins)
       /\ f = 4 => call.tags = Added(old.ins, want.ins)
       /\ f = 6 => call.tags = Gone(old.ins, want.ins)
       /\ f = 7 => call.tags = Gone(old.outs, want.outs)
  <2>1. f \in 1..7
    BY <1>3
  <2>2. CASE f \in {1, 2, 3}
    BY <1>14, <2>2, CallsAre
  <2>3. CASE f \in {4, 5}
    BY <1>14, <2>3, CallsAre
  <2>4. CASE f \in {6, 7}
    BY <1>14, <2>4, CallsAre
  <2>5. f \in {1, 2, 3} \/ f \in {4, 5} \/ f \in {6, 7}
    BY <2>1
  <2> QED
    BY <2>2, <2>3, <2>4, <2>5, Zenon
<1>16. c = [outs |-> c.outs, ins |-> c.ins, routing |-> c.routing]
  BY <1>7 DEF IsConfig
<1>17. APIEffect(c, call, want) = [outs |-> o, ins |-> n, routing |-> r]
  <2>1. CASE f \in {1, 7}
    BY <1>10, <1>11, <1>13, <1>15, <1>16, <2>1 DEF APIEffect
  <2>2. CASE f = 2
    BY <1>10, <1>11, <1>13, <1>15, <1>16, <2>2 DEF APIEffect
  <2>3. CASE f \in {3, 6}
    BY <1>10, <1>11, <1>13, <1>15, <1>16, <2>3 DEF APIEffect
  <2>4. CASE f = 4
    BY <1>10, <1>11, <1>13, <1>15, <1>16, <2>4 DEF APIEffect
  <2>5. CASE f = 5
    BY <1>10, <1>11, <1>13, <1>15, <1>16, <2>5 DEF APIEffect
  <2> QED
    BY <1>3, <2>1, <2>2, <2>3, <2>4, <2>5
<1>18. o = [t \in DOMAIN o |-> o[t]] /\ n = [t \in DOMAIN n |-> n[t]]
  <2>1. /\ c.outs = [t \in DOMAIN c.outs |-> c.outs[t]]
        /\ c.ins = [t \in DOMAIN c.ins |-> c.ins[t]]
    BY <1>7 DEF IsConfig
  <2>2. \A g, S, w : /\ Without(g, S) = [t \in DOMAIN Without(g, S) |-> Without(g, S)[t]]
                     /\ With(g, S, w) = [t \in DOMAIN With(g, S, w) |-> With(g, S, w)[t]]
    BY DEF With, Without
  <2> QED
    BY <1>3, <1>10, <1>11, <2>1, <2>2
<1>19. PICK d : d = [outs |-> o, ins |-> n, routing |-> r]
  BY Zenon
<1>20. d.outs = o /\ d.ins = n /\ d.routing = r
  BY <1>19
<1>21. IsConfig(d)
  BY <1>18, <1>19, <1>20, Zenon DEF IsConfig
<1>22. Partial(d, base, old, want, T \ {f})
  BY <1>8, <1>9, <1>12, <1>20, <1>21 DEF Partial
<1> QED
  BY <1>2, <1>14, <1>17, <1>19, <1>22

\* Once every call was made the child has the wanted configuration, whichever
\* of the two it started from.
LEMMA PartialEnd ==
  ASSUME NEW old, NEW want, IsConfig(old), IsConfig(want), NEW base \in {old, want},
         NEW c, Partial(c, base, old, want, {})
  PROVE  c = want
<1>1. \A k : ~Left({}, k)
  BY DEF Left
<1>2. /\ IsConfig(c)
      /\ c.outs = Trim(base.outs, old.outs, want.outs)
      /\ c.ins = Trim(base.ins, old.ins, want.ins)
      /\ c.routing = want.routing
  BY <1>1 DEF Partial, Section
<1>3. /\ want.outs = [t \in DOMAIN want.outs |-> want.outs[t]]
      /\ want.ins = [t \in DOMAIN want.ins |-> want.ins[t]]
  BY DEF IsConfig
<1>4. base.outs \in {old.outs, want.outs} /\ base.ins \in {old.ins, want.ins}
  OBVIOUS
<1>5. c.outs = want.outs /\ c.ins = want.ins
  BY <1>2, <1>3, <1>4, SectionEnd
<1> QED
  BY <1>2, <1>5 DEF IsConfig

\* s has, as it is in want, every object that is the same in old and in want.
Keeps(s, old, want) ==
  \A t \in DOMAIN old \cap DOMAIN want :
    old[t] = want[t] => t \in DOMAIN s /\ s[t] = want[t]

\* An object that is the same in both configurations is there all along.
LEMMA SectionKeepsOne ==
  ASSUME NEW base, NEW old, NEW want, base \in {old, want}, NEW T, NEW i, NEW j, NEW k,
         NEW t \in DOMAIN old \cap DOMAIN want, old[t] = want[t],
         NEW s, s = Section(base, old, want, T, i, j, k)
  PROVE  t \in DOMAIN s /\ s[t] = want[t]
<1>1. t \in DOMAIN base /\ base[t] = want[t]
  OBVIOUS
<1>2. t \notin Changed(old, want) /\ t \notin Added(old, want) /\ t \notin Gone(old, want)
  BY DEF Changed, Added, Gone
<1>3. t \in DOMAIN Bare(base, old, want) /\ Bare(base, old, want)[t] = want[t]
  BY <1>1, <1>2 DEF Bare, Without
<1>4. t \in DOMAIN Full(base, old, want) /\ Full(base, old, want)[t] = want[t]
  BY <1>2, <1>3 DEF Full, With
<1>5. t \in DOMAIN Trim(base, old, want) /\ Trim(base, old, want)[t] = want[t]
  BY <1>2, <1>4 DEF Trim, Without
<1> QED
  BY <1>1, <1>3, <1>4, <1>5 DEF Section

\* The same, said of the whole section.
LEMMA SectionKeeps ==
  ASSUME NEW base, NEW old, NEW want, base \in {old, want}, NEW T, NEW i, NEW j, NEW k
  PROVE  Keeps(Section(base, old, want, T, i, j, k), old, want)
<1>1. PICK s : s = Section(base, old, want, T, i, j, k)
  OBVIOUS
<1>2. ASSUME NEW t \in DOMAIN old \cap DOMAIN want, old[t] = want[t]
      PROVE  t \in DOMAIN s /\ s[t] = want[t]
  BY <1>1, <1>2, SectionKeepsOne
<1> QED
  BY <1>1, <1>2 DEF Keeps

\* At every point of the plan, in both sections.
LEMMA PartialKeeps ==
  ASSUME NEW old, NEW want, NEW base \in {old, want}, NEW c, NEW T,
         Partial(c, base, old, want, T)
  PROVE  Keeps(c.outs, old.outs, want.outs) /\ Keeps(c.ins, old.ins, want.ins)
<1>1. PICK b, o, w : b = base.outs /\ o = old.outs /\ w = want.outs
  OBVIOUS
<1>2. b \in {o, w} /\ c.outs = Section(b, o, w, T, 1, 2, 7)
  BY <1>1 DEF Partial
<1>3. Keeps(Section(b, o, w, T, 1, 2, 7), o, w)
  BY <1>2, SectionKeeps
<1>4. PICK d, p, x : d = base.ins /\ p = old.ins /\ x = want.ins
  OBVIOUS
<1>5. d \in {p, x} /\ c.ins = Section(d, p, x, T, 3, 4, 6)
  BY <1>4 DEF Partial
<1>6. Keeps(Section(d, p, x, T, 3, 4, 6), p, x)
  BY <1>5, SectionKeeps
<1> QED
  BY <1>1, <1>2, <1>3, <1>4, <1>5, <1>6

\* At every point of the plan an outbound that is named exists, except those
\* about to be added again under their tag.
LEMMA PartialRefs ==
  ASSUME NEW old, NEW want, NEW base \in {old, want},
         Named(old) \ {Direct} \subseteq DOMAIN old.outs,
         Named(want) \ {Direct} \subseteq DOMAIN want.outs,
         NEW T, T \subseteq 1..7, T # {},
         NEW c, Partial(c, base, old, want, T)
  PROVE  /\ First(T) = 2 => Named(c) \ {Direct} \subseteq DOMAIN c.outs \cup Added(old.outs, want.outs)
         /\ First(T) # 2 => Named(c) \ {Direct} \subseteq DOMAIN c.outs
<1>1. First(T) \in T /\ First(T) \in 1..7 /\ \A j \in T : First(T) <= j
  BY FirstIs, Zenon
<1>2. c.outs = Section(base.outs, old.outs, want.outs, T, 1, 2, 7)
  BY DEF Partial
<1>3. c.routing = base.routing \/ c.routing = want.routing
  BY DEF Partial
<1>4. Left(T, 7)
  <2>1. First(T) <= 7
    BY <1>1
  <2> QED
    BY <1>1, <2>1 DEF Left
<1>5. PICK bo, oo, wo : bo = base.outs /\ oo = old.outs /\ wo = want.outs
  OBVIOUS
<1>6. /\ \A t \in DOMAIN bo : bo[t].via \in DOMAIN bo \cup {Direct}
      /\ \A t \in DOMAIN wo : wo[t].via \in DOMAIN wo \cup {Direct}
      /\ base.routing.targets \subseteq DOMAIN bo \cup {Direct}
      /\ want.routing.targets \subseteq DOMAIN wo \cup {Direct}
  BY <1>5 DEF Named
<1>7. CASE Left(T, 1)
  <2>1. First(T) # 2
    BY <1>1, <1>7 DEF Left
  <2>2. c.outs = bo /\ c.routing = base.routing
    <3>1. Left(T, 5)
      BY <1>7 DEF Left
    <3> QED
      BY <1>2, <1>5, <1>7, <3>1 DEF Section, Partial
  <2> QED
    BY <1>6, <2>1, <2>2 DEF Named
<1>8. CASE ~Left(T, 1) /\ Left(T, 2)
  <2>1. First(T) = 2
    <3>1. PICK j \in T : j <= 2
      BY <1>8 DEF Left
    <3>2. ~(First(T) <= 1)
      BY <1>1, <1>8 DEF Left
    <3>3. j \in 1..7 /\ First(T) <= j
      BY <1>1
    <3> QED
      BY <1>1, <3>1, <3>2, <3>3
  <2>2. c.outs = Bare(bo, oo, wo)
    BY <1>2, <1>5, <1>8 DEF Section
  <2>3. c.routing = base.routing
    <3>1. Left(T, 5)
      BY <1>8 DEF Left
    <3> QED
      BY <3>1 DEF Partial
  <2>4. DOMAIN c.outs = DOMAIN bo \ Changed(oo, wo) /\ \A t \in DOMAIN c.outs : c.outs[t] = bo[t]
    BY <2>2 DEF Bare, Without
  <2>5. Changed(oo, wo) \subseteq Added(oo, wo)
    BY DEF Added
  <2> QED
    BY <1>5, <1>6, <2>1, <2>3, <2>4, <2>5 DEF Named
<1>9. CASE ~Left(T, 2)
  <2>1. First(T) # 2
    BY <1>1, <1>9 DEF Left
  <2>2. ~Left(T, 1)
    BY <1>9 DEF Left
  <2>3. c.outs = Full(bo, oo, wo)
    BY <1>2, <1>4, <1>5, <1>9, <2>2 DEF Section
  <2>4. /\ DOMAIN c.outs = (DOMAIN bo \ Changed(oo, wo)) \cup Added(oo, wo)
        /\ \A t \in DOMAIN c.outs : c.outs[t] = IF t \in Added(oo, wo) THEN wo[t] ELSE bo[t]
    BY <2>3 DEF Full, Bare, With, Without
  <2>5. bo \in {oo, wo}
    BY <1>5
  <2>6. /\ DOMAIN bo \subseteq DOMAIN c.outs /\ DOMAIN wo \subseteq DOMAIN c.outs
        /\ Added(oo, wo) \subseteq DOMAIN wo
    BY <2>4, <2>5 DEF Changed, Added
  <2>7. \A t \in DOMAIN c.outs : c.outs[t].via \in DOMAIN c.outs \cup {Direct}
    BY <1>6, <2>4, <2>6
  <2>8. c.routing.targets \subseteq DOMAIN c.outs \cup {Direct}
    BY <1>3, <1>6, <2>6
  <2> QED
    BY <2>1, <2>7, <2>8 DEF Named
<1> QED
  BY <1>7, <1>8, <1>9


\* The conjuncts of the invariant depend on these variables only.
LEMMA SameConfigs ==
  ASSUME Configs, UNCHANGED <<job, cmd, running, loaded, file, procs>>
  PROVE  Configs'
BY DEF Configs

\* As above.
LEMMA SameApplying ==
  ASSUME Applying, UNCHANGED <<job, cmd, running, procs>>
  PROVE  Applying'
BY DEF Applying

\* As above.
LEMMA SameChildren ==
  ASSUME Children, UNCHANGED <<up, job, cmd, procs, watch>>
  PROVE  Children'
BY DEF Children, Alive

\* As above.
LEMMA SameSettling ==
  ASSUME Settling, UNCHANGED <<entries, rules, pool, parked, rows, pc, job, up, lastOK,
                               cmd, running>>
  PROVE  Settling'
BY DEF Settling, Wanted

\* As above.
LEMMA SameShape ==
  ASSUME Shape, UNCHANGED <<job, procs, watch, pc, up, cmd>>
  PROVE  Shape'
BY DEF Shape, JobFields

\* The invariant holds at the first boot.
LEMMA InitInv == Init => Inv
<1> SUFFICES ASSUME Init PROVE Inv
  OBVIOUS
<1>1. main \in Callers
  BY SupervisorAssumption DEF main
<1>2. 0 \notin Pids
  BY SupervisorAssumption DEF Pids
<1>3. Shape
  BY DEF Init, Shape, JobFields, Free, Unused
<1>4. Holder
  BY SupervisorAssumption DEF Init, Holder, Free
<1>5. Children
  BY DEF Init, Children, Free, Alive, Unused
<1>6. Configs
  BY DEF Init, Configs, Free
<1>7. Applying
  BY DEF Init, Applying, Free
<1>8. Settling
  BY <1>1 DEF Init, Settling, Free
<1> QED
  BY <1>3, <1>4, <1>5, <1>6, <1>7, <1>8 DEF Inv

\* A store edit preserves the invariant: its caller now waits for the mutex.
LEMMA EditInv ==
  ASSUME Inv, Edit
  PROVE  Inv'
<1> USE DEF Inv
<1>1. PICK c \in Callers : MayEdit(c)
  BY DEF Edit, XrayAdd, XrayUpdate, XrayDelete, RoutingSet, SubRefresh, PollParks
<1>2. UNCHANGED <<rows, job, up, cmd, running, loaded, file, procs, watch, lastOK>>
  BY <1>1 DEF MayEdit
<1>3. pc[c] = "idle" /\ pc' = [pc EXCEPT ![c] = "want"]
  BY <1>1 DEF MayEdit
<1>4. Shape'
  BY <1>2, <1>3 DEF Shape, JobFields
<1>5. Holder'
  BY <1>2, <1>3 DEF Holder, Shape
<1>6. pc'[c] = "want"
  BY <1>3 DEF Shape
<1>7. Settling'
  BY <1>2, <1>6 DEF Settling
<1> QED
  BY <1>2, <1>4, <1>5, <1>7, SameConfigs, SameApplying, SameChildren

\* Reconcile begins with the store as it is and aligned rows.
LEMMA BeginInv ==
  ASSUME Inv, NEW c \in Callers, Begin(c)
  PROVE  Inv'
<1> USE DEF Inv
<1>1. /\ up = "up" /\ job = Free /\ pc[c] = "want"
      /\ pc' = [pc EXCEPT ![c] = "in"]
      /\ rows' = AlignedRows(entries)
      /\ UNCHANGED <<entries, rules, pool, parked, up, cmd, running, loaded, file, procs,
                     watch, lastOK>>
  BY DEF Begin, store
<1>2. /\ job'.by = c /\ job'.es = entries /\ job'.cfg = NoConfig
      /\ job'.at = IF EnabledIn(entries) = {} THEN "stop" ELSE "rules"
      /\ job' = JobFields'
      /\ job.at = "free" /\ job.by = NoOne
  BY Zenon DEF Begin, Free, JobFields
<1>3. Shape'
  BY <1>1, <1>2 DEF Shape
<1>4. Holder'
  BY <1>1, <1>2, SupervisorAssumption DEF Holder, Shape
<1>5. Children'
  BY <1>1, <1>2 DEF Children, Alive
<1>6. Configs'
  BY <1>1, <1>2 DEF Configs
<1>7. Applying'
  BY <1>2 DEF Applying
<1>8. Settling'
  BY <1>1, <1>2 DEF Settling
<1> QED
  BY <1>3, <1>4, <1>5, <1>6, <1>7, <1>8

\* A Reconcile that fails at once is not a success.
LEMMA BeginFailsInv ==
  ASSUME Inv, NEW c \in Callers, BeginFails(c)
  PROVE  Inv'
<1> USE DEF Inv
<1>1. /\ job = Free /\ pc[c] = "want" /\ pc' = [pc EXCEPT ![c] = "idle"] /\ lastOK' = FALSE
      /\ UNCHANGED <<job, up, cmd, running, loaded, file, procs, watch>>
  BY DEF BeginFails, store
<1>2. job.at = "free" /\ job.by = NoOne /\ job.cfg = NoConfig
  BY <1>1 DEF Free
<1>3. Shape'
  BY <1>1 DEF Shape, JobFields
<1>4. Holder'
  BY <1>1, <1>2, SupervisorAssumption DEF Holder, Shape
<1>5. Settling'
  BY <1>1, <1>2 DEF Settling
<1> QED
  BY <1>1, <1>3, <1>4, <1>5, SameConfigs, SameApplying, SameChildren

\* Reading the rules preserves the invariant.
LEMMA RulesInv ==
  ASSUME Inv, GetRoutingRules
  PROVE  Inv'
<1> USE DEF Inv
<1>1. /\ job.at = "rules"
      /\ UNCHANGED <<entries, rules, pool, parked, rows, pc, up, cmd, running, loaded,
                     file, procs, watch, lastOK>>
  BY DEF GetRoutingRules, store
<1>2. /\ job'.by = job.by /\ job'.es = job.es /\ job'.cfg = job.cfg /\ job'.rules = rules
      /\ job'.at = "slots" /\ job'.pid = job.pid /\ job'.slot = job.slot
      /\ job' = JobFields'
  BY Zenon DEF GetRoutingRules, JobFields, Shape
<1>3. Shape'
  BY <1>1, <1>2 DEF Shape
<1>4. Holder'
  BY <1>1, <1>2 DEF Holder, Shape, Free
<1>5. Children'
  BY <1>1, <1>2 DEF Children, Alive
<1>6. Configs'
  BY <1>1, <1>2 DEF Configs
<1>7. Applying'
  BY <1>2 DEF Applying
<1>8. Settling'
  BY <1>1, <1>2 DEF Settling, Configs
<1> QED
  BY <1>3, <1>4, <1>5, <1>6, <1>7, <1>8


\* The fields of the free mutex.
LEMMA FreeIs ==
  /\ Free.at = "free" /\ Free.by = NoOne /\ Free.cfg = NoConfig
  /\ Free = [by |-> Free.by, at |-> Free.at, es |-> Free.es, rules |-> Free.rules,
             slot |-> Free.slot, cfg |-> Free.cfg, todo |-> Free.todo, pid |-> Free.pid]
BY Zenon DEF Free

\* A Reconcile that returns frees the mutex and wakes nobody else.
LEMMA Finished ==
  ASSUME Shape, Holder, job.at # "free", job.by \in Callers, NEW ok, Finish(ok), up' = up
  PROVE  /\ job' = Free /\ job'.at = "free" /\ job'.cfg = NoConfig
         /\ lastOK' = ok /\ up \notin {"stopped", "down"}
         /\ pc' \in [Callers -> {"idle", "want", "in"}]
         /\ (\A c \in Callers : pc'[c] # "want") => (\A c \in Callers : pc[c] # "want")
         /\ Holder'
<1>1. /\ job' = Free /\ lastOK' = ok /\ pc' = [pc EXCEPT ![job.by] = "idle"]
  BY DEF Finish
<1>2. job'.at = "free" /\ job'.by = NoOne /\ job'.cfg = NoConfig
  BY <1>1, FreeIs
<1>3. up \notin {"stopped", "down"}
  BY FreeIs DEF Holder
<1>4. pc' \in [Callers -> {"idle", "want", "in"}]
  BY <1>1 DEF Shape
<1>5. \A c \in Callers : pc'[c] # "in"
  BY <1>1 DEF Shape, Holder
<1>6. pc[job.by] = "in"
  BY DEF Holder
<1>7. ASSUME NEW c \in Callers, pc[c] = "want" PROVE pc'[c] = "want"
  BY <1>1, <1>6, <1>7 DEF Shape
<1>8. Holder'
  BY <1>1, <1>2, <1>3, <1>5, SupervisorAssumption DEF Holder
<1> QED
  BY <1>1, <1>2, <1>3, <1>4, <1>7, <1>8

\* Freeing the mutex keeps the types.
LEMMA FreeShape ==
  ASSUME Shape, job' = Free, pc' \in [Callers -> {"idle", "want", "in"}],
         UNCHANGED <<procs, watch, up, cmd>>
  PROVE  Shape'
<1>1. job' = JobFields'
  BY FreeIs DEF JobFields
<1>2. job'.at = "free"
  BY FreeIs
<1> QED
  BY <1>1, <1>2 DEF Shape

\* Generating the configuration preserves the invariant: it is the wanted one if
\* nobody waits, and the plan starts from what the child has.
LEMMA WriteInv ==
  ASSUME Inv, WriteConfig
  PROVE  Inv'
<1> USE DEF Inv
<1>1. PICK slot, cfg : /\ slot = resolveDialerSlots(job.es, pool, parked)
                       /\ cfg = Generate(job.es, slot, job.rules)
  OBVIOUS
<1>2. Sound(cfg, slot) /\ cfg # NoConfig
  BY <1>1, GeneratedIsSound, GeneratedIsConfig
<1>3. /\ job.at = "slots" /\ file' = cfg
      /\ UNCHANGED <<entries, rules, pool, parked, rows, up, cmd, running, procs, watch>>
  BY <1>1 DEF WriteConfig, store
<1>4. job.by \in Callers /\ job.at # "free"
  BY <1>3 DEF Holder
<1>5. (up = "up" /\ \A c \in Callers : pc[c] # "want") => cfg = Wanted
  BY <1>1, <1>3 DEF Settling, Wanted
<1>6. EnabledIn(job.es) # {}
  BY <1>3 DEF Settling
<1>7. cmd # 0 => Sound(running, loaded)
  BY DEF Configs
<1>8. CASE cmd # 0 /\ running # NoConfig /\ running = cfg
  <2>1. loaded' = slot /\ Finish(TRUE)
    BY <1>1, <1>8, Zenon DEF WriteConfig
  <2>2. /\ job' = Free /\ job'.at = "free" /\ job'.cfg = NoConfig /\ lastOK' = TRUE
        /\ pc' \in [Callers -> {"idle", "want", "in"}]
        /\ (\A c \in Callers : pc'[c] # "want") => (\A c \in Callers : pc[c] # "want")
        /\ Holder'
    BY <1>3, <1>4, <2>1, Finished, Zenon
  <2>3. Shape'
    BY <1>3, <2>2, FreeShape
  <2>4. Children'
    BY <1>3, <2>2 DEF Children, Alive
  <2>5. Configs'
    BY <1>2, <1>3, <1>8, <2>1, <2>2 DEF Configs
  <2>6. Applying'
    BY <2>2 DEF Applying
  <2>7. Wanted' = Wanted
    BY <1>3 DEF Wanted
  <2>8. Settling'
    BY <1>3, <1>5, <1>6, <1>8, <2>2, <2>7 DEF Settling
  <2> QED
    BY <2>2, <2>3, <2>4, <2>5, <2>6, <2>8
<1>9. CASE ~(cmd # 0 /\ running # NoConfig /\ running = cfg)
  <2> DEFINE live == cmd # 0 /\ running # NoConfig
  <2>1. /\ job' = [job EXCEPT !.slot = slot, !.cfg = cfg,
                            !.at = IF live THEN "api" ELSE "stop",
                            !.todo = IF live THEN Plan(running, cfg) ELSE {}]
        /\ UNCHANGED <<loaded, pc, lastOK>>
    BY <1>1, <1>9, Zenon DEF WriteConfig
  <2>2. /\ job'.by = job.by /\ job'.es = job.es /\ job'.cfg = cfg /\ job'.slot = slot
        /\ job'.at = (IF live THEN "api" ELSE "stop")
        /\ live => job'.todo = Plan(running, cfg)
        /\ job' = JobFields'
    BY <2>1, Zenon DEF Shape, JobFields
  <2> HIDE DEF live
  <2>3. Shape'
    BY <1>3, <2>1, <2>2 DEF Shape
  <2>4. Holder'
    BY <1>3, <1>4, <2>1, <2>2, FreeIs DEF Holder
  <2>5. Children'
    BY <1>3, <2>2 DEF Children, Alive
  <2>6. Configs'
    BY <1>2, <1>3, <1>7, <2>1, <2>2 DEF Configs
  <2>7. Applying'
    <3> SUFFICES ASSUME live PROVE Applying'
      BY <2>2 DEF Applying
    <3>1. cmd # 0 /\ running # cfg
      BY <1>9 DEF live
    <3>2. IsConfig(running) /\ IsConfig(cfg)
      BY <1>2, <1>7, <3>1 DEF Sound
    <3>3. job'.todo = Plan(running, cfg) /\ job'.todo # {}
      BY <2>2, <3>1, <3>2, PlanNotEmpty
    <3>4. procs[cmd].st = "serving" => procs[cmd].cfg = running
      BY <1>3, <3>1 DEF Configs
    <3>5. Partial(running, running, running, cfg, Plan(running, cfg))
      BY <3>2, PartialStart
    <3> QED
      BY <1>2, <1>3, <2>2, <3>1, <3>3, <3>4, <3>5, Zenon DEF Applying
  <2>8. Wanted' = Wanted
    BY <1>3 DEF Wanted
  <2>9. Settling'
    BY <1>2, <1>3, <1>5, <1>6, <2>1, <2>2, <2>8 DEF Settling
  <2> QED
    BY <2>3, <2>4, <2>5, <2>6, <2>7, <2>9
<1> QED
  BY <1>8, <1>9

\* A Reconcile that fails before it wrote the file leaves the child alone.
LEMMA ReconcileFailsInv ==
  ASSUME Inv, ReconcileFails
  PROVE  Inv'
<1> USE DEF Inv
<1>1. /\ job.at \in {"rules", "slots"} /\ Finish(FALSE)
      /\ UNCHANGED <<up, cmd, running, loaded, file, procs, watch>>
  BY Zenon DEF ReconcileFails
<1>2. job.by \in Callers /\ job.at # "free"
  BY <1>1 DEF Holder
<1>3. /\ job' = Free /\ job'.at = "free" /\ job'.cfg = NoConfig /\ lastOK' = FALSE
      /\ pc' \in [Callers -> {"idle", "want", "in"}]
      /\ Holder'
  BY <1>1, <1>2, Finished, Zenon
<1>4. Shape'
  BY <1>1, <1>3, FreeShape
<1>5. Children'
  BY <1>1, <1>3 DEF Children, Alive
<1>6. Configs'
  BY <1>1, <1>3 DEF Configs
<1>7. Applying' /\ Settling'
  BY <1>3, Zenon DEF Applying, Settling
<1> QED
  BY <1>3, <1>4, <1>5, <1>6, <1>7

\* A failed call leaves a child that will be stopped.
LEMMA CallFailsInv ==
  ASSUME Inv, CallFails
  PROVE  Inv'
<1> USE DEF Inv
<1>1. /\ job.at = "api" /\ job' = [job EXCEPT !.at = "stop", !.todo = {}]
      /\ UNCHANGED <<entries, rules, pool, parked, rows, pc, up, cmd, running, loaded,
                     file, procs, watch, lastOK>>
  BY DEF CallFails, store
<1>2. /\ job'.by = job.by /\ job'.es = job.es /\ job'.cfg = job.cfg /\ job'.slot = job.slot
      /\ job'.at = "stop" /\ job' = JobFields'
  BY <1>1, Zenon DEF Shape, JobFields
<1>3. Shape'
  BY <1>1, <1>2 DEF Shape
<1>4. Holder'
  BY <1>1, <1>2, FreeIs DEF Holder
<1>5. Children'
  BY <1>1, <1>2 DEF Children, Alive
<1>6. Configs'
  BY <1>1, <1>2 DEF Configs
<1>7. Applying'
  BY <1>2 DEF Applying
<1>8. job.cfg # NoConfig
  BY <1>1 DEF Applying
<1>9. Settling'
  BY <1>1, <1>2, <1>8 DEF Settling, Wanted
<1> QED
  BY <1>3, <1>4, <1>5, <1>6, <1>7, <1>9


\* What a successful API call does to the child.
LEMMA CallFacts ==
  ASSUME Inv, CallAPI
  PROVE  /\ cmd \in Pids /\ IsConfig(running) /\ IsConfig(job.cfg)
         /\ job.todo \subseteq 1..7 /\ job.todo # {} /\ First(job.todo) \in job.todo
         /\ \A m \in job.todo : First(job.todo) <= m
         /\ procs'[cmd].st = "serving"
         /\ \A p \in Pids : procs'[p].st = procs[p].st /\ (p # cmd => procs'[p] = procs[p])
         /\ procs' = [p \in Pids |-> [st |-> procs'[p].st, cfg |-> procs'[p].cfg]]
         /\ \E base \in {running, job.cfg} :
              /\ Partial(procs[cmd].cfg, base, running, job.cfg, job.todo)
              /\ Partial(procs'[cmd].cfg, base, running, job.cfg, job.todo \ {First(job.todo)})
<1> USE DEF Inv
<1>1. job.at = "api" /\ procs[cmd].st = "serving"
  BY DEF CallAPI, Serving
<1>2. /\ cmd # 0 /\ job.cfg # NoConfig
      /\ job.todo # {} /\ job.todo \subseteq Plan(running, job.cfg)
      /\ \A k \in Plan(running, job.cfg) : Left(job.todo, k) => k \in job.todo
  BY <1>1 DEF Applying
<1>3. cmd \in Pids
  BY <1>2 DEF Shape
<1>4. IsConfig(running) /\ IsConfig(job.cfg)
  BY <1>2 DEF Configs, Sound
<1>5. job.todo \subseteq 1..7
  BY <1>2 DEF Plan
<1>6. First(job.todo) \in job.todo /\ \A m \in job.todo : First(job.todo) <= m
  BY <1>2, <1>5, FirstIs
<1>7. PICK base \in {running, job.cfg} :
        Partial(procs[cmd].cfg, base, running, job.cfg, job.todo)
  BY <1>1 DEF Applying
<1>8. PICK new :
        new = APIEffect(procs[cmd].cfg, applyLiveCall(First(job.todo), running, job.cfg), job.cfg)
  OBVIOUS
<1>9. Partial(new, base, running, job.cfg, job.todo \ {First(job.todo)})
  BY <1>2, <1>4, <1>7, <1>8, PartialStep, Zenon
<1>10. procs' = [procs EXCEPT ![cmd].cfg = new]
  BY <1>8 DEF CallAPI, NextCall
<1>11. procs'[cmd].cfg = new /\ procs'[cmd].st = "serving"
  BY <1>1, <1>3, <1>10 DEF Shape
<1>12. /\ \A p \in Pids : procs'[p].st = procs[p].st /\ (p # cmd => procs'[p] = procs[p])
       /\ procs' = [p \in Pids |-> [st |-> procs'[p].st, cfg |-> procs'[p].cfg]]
  BY <1>3, <1>10 DEF Shape
<1> QED
  BY <1>2, <1>3, <1>4, <1>5, <1>6, <1>7, <1>9, <1>11, <1>12

\* A successful call preserves the invariant; the last one completes the change.
LEMMA CallInv ==
  ASSUME Inv, CallAPI
  PROVE  Inv'
<1> USE DEF Inv
<1>1. /\ job.at = "api"
      /\ UNCHANGED <<entries, rules, pool, parked, rows, up, cmd, file, watch>>
  BY DEF CallAPI, store
<1>2. /\ cmd \in Pids /\ cmd # 0 /\ job.cfg # NoConfig /\ IsConfig(running) /\ IsConfig(job.cfg)
      /\ job.todo \subseteq Plan(running, job.cfg)
      /\ \A k \in Plan(running, job.cfg) : Left(job.todo, k) => k \in job.todo
  BY <1>1, CallFacts DEF Applying
<1>3. /\ job.todo \subseteq 1..7 /\ First(job.todo) \in job.todo
      /\ \A m \in job.todo : First(job.todo) <= m
      /\ procs'[cmd].st = "serving"
      /\ \A p \in Pids : procs'[p].st = procs[p].st
      /\ procs' = [p \in Pids |-> [st |-> procs'[p].st, cfg |-> procs'[p].cfg]]
  BY CallFacts
<1>4. PICK base \in {running, job.cfg} :
        Partial(procs'[cmd].cfg, base, running, job.cfg, job.todo \ {First(job.todo)})
  BY CallFacts
<1>5. PICK rest : rest = job.todo \ {First(job.todo)}
  BY Zenon
<1>6. CASE rest # {}
  <2>1. /\ job' = [job EXCEPT !.todo = rest]
        /\ UNCHANGED <<running, loaded, pc, lastOK>>
    BY <1>5, <1>6, Zenon DEF CallAPI
  <2>2. /\ job'.by = job.by /\ job'.at = "api" /\ job'.es = job.es /\ job'.cfg = job.cfg
        /\ job'.slot = job.slot /\ job'.pid = job.pid /\ job'.todo = rest
        /\ job' = JobFields'
    BY <1>1, <2>1 DEF Shape, JobFields
  <2>3. Shape'
    BY <1>1, <1>3, <2>1, <2>2 DEF Shape
  <2>4. Holder'
    BY <1>1, <2>1, <2>2, FreeIs DEF Holder
  <2>5. Children'
    BY <1>1, <1>3, <2>2 DEF Children, Alive
  <2>6. Configs'
    BY <1>1, <2>1, <2>2 DEF Configs
  <2>7. Applying'
    <3>1. rest \subseteq Plan(running, job.cfg)
      BY <1>2, <1>5
    <3>2. ASSUME NEW k \in Plan(running, job.cfg), Left(rest, k)
          PROVE  k \in rest
      <4>1. k \in 1..7
        BY DEF Plan
      <4>2. PICK j \in rest : j <= k
        BY <3>2 DEF Left
      <4>3. /\ j \in job.todo /\ j # First(job.todo) /\ First(job.todo) <= j
            /\ j \in 1..7 /\ First(job.todo) \in 1..7
        BY <1>3, <1>5
      <4>4. First(job.todo) < k
        BY <4>1, <4>2, <4>3
      <4>5. k \in job.todo
        BY <1>2, <4>2, <4>3 DEF Left
      <4> QED
        BY <1>5, <4>1, <4>3, <4>4, <4>5
    <3> QED
      BY <1>1, <1>2, <1>3, <1>4, <1>5, <1>6, <2>1, <2>2, <3>1, <3>2, Zenon DEF Applying
  <2>8. Settling'
    BY <1>1, <2>1, <2>2 DEF Settling, Wanted
  <2> QED
    BY <2>3, <2>4, <2>5, <2>6, <2>7, <2>8
<1>7. CASE rest = {}
  <2>1. running' = job.cfg /\ loaded' = job.slot /\ Finish(TRUE)
    BY <1>5, <1>7, Zenon DEF CallAPI
  <2>2. job.by \in Callers /\ job.at # "free"
    BY <1>1 DEF Holder
  <2>3. /\ job' = Free /\ job'.at = "free" /\ job'.cfg = NoConfig /\ lastOK' = TRUE
        /\ pc' \in [Callers -> {"idle", "want", "in"}]
        /\ (\A c \in Callers : pc'[c] # "want") => (\A c \in Callers : pc[c] # "want")
        /\ Holder'
    BY <1>1, <2>1, <2>2, Finished, Zenon
  <2>4. Shape'
    <3>1. job' = JobFields'
      BY <2>3, FreeIs DEF JobFields
    <3> QED
      BY <1>1, <1>3, <2>3, <3>1 DEF Shape
  <2>5. Children'
    BY <1>1, <1>3, <2>3 DEF Children, Alive
  <2>6. procs'[cmd].cfg = job.cfg
    <3>1. PICK c : c = procs'[cmd].cfg
      OBVIOUS
    <3>2. \E b0 \in {running, job.cfg} : Partial(c, b0, running, job.cfg, {})
      BY <1>4, <1>5, <1>7, <3>1
    <3>3. IsConfig(running) /\ IsConfig(job.cfg)
      BY <1>2 DEF Configs, Sound
    <3> QED
      BY <3>1, <3>2, <3>3, PartialEnd, Zenon
  <2>7. Sound(job.cfg, job.slot)
    BY <1>2 DEF Configs
  <2>8. Configs'
    BY <1>1, <1>2, <1>3, <2>1, <2>3, <2>6, <2>7 DEF Configs
  <2>9. Applying'
    BY <2>3, Zenon DEF Applying
  <2>10. EnabledIn(job.es) # {}
    BY <1>2 DEF Settling
  <2>11. Wanted' = Wanted
    BY <1>1 DEF Wanted
  <2>12. Settling'
    BY <1>1, <1>2, <2>1, <2>3, <2>10, <2>11, Zenon DEF Settling
  <2> QED
    BY <2>3, <2>4, <2>5, <2>8, <2>9, <2>12
<1> QED
  BY <1>6, <1>7

\* Clearing s.cmd leaves the child to the wait in stopLocked.
LEMMA StopLockedInv ==
  ASSUME Inv, stopLocked
  PROVE  Inv'
<1> USE DEF Inv
<1>1. /\ job.at = "stop" /\ cmd' = 0
      /\ UNCHANGED <<entries, rules, pool, parked, rows, pc, up, running, loaded, file,
                     procs, watch, lastOK>>
  BY DEF stopLocked, store
<1>2. /\ job'.by = job.by /\ job'.es = job.es /\ job'.cfg = job.cfg /\ job'.slot = job.slot
      /\ job'.pid = cmd /\ job'.at = IF cmd = 0 THEN "stopped" ELSE "await"
      /\ job' = JobFields'
  BY Zenon DEF Shape, JobFields, stopLocked
<1>3. Shape'
  BY <1>1, <1>2 DEF Shape
<1>4. Holder'
  BY <1>1, <1>2, FreeIs DEF Holder
<1>5. Children'
  <2>1. cmd # 0 => cmd \in Pids
    BY DEF Shape
  <2>2. 0 \notin Pids
    BY SupervisorAssumption DEF Pids
  <2> QED
    BY <1>1, <1>2, <2>1, <2>2, Zenon DEF Children, Alive
<1>6. Configs'
  BY <1>1, <1>2, Zenon DEF Configs
<1>7. Applying'
  BY <1>2 DEF Applying
<1>8. Settling'
  BY <1>1, <1>2, Zenon DEF Settling, Wanted
<1> QED
  BY <1>3, <1>4, <1>5, <1>6, <1>7, <1>8

\* When the watcher has closed the channel the child is dead.
LEMMA StoppedInv ==
  ASSUME Inv, Stopped
  PROVE  Inv'
<1> USE DEF Inv
<1>1. /\ job.at = "await" /\ watch[job.pid] # "wait"
      /\ UNCHANGED <<entries, rules, pool, parked, rows, pc, up, cmd, running, loaded,
                     file, procs, watch, lastOK>>
  BY DEF Stopped, store
<1>2. /\ job'.by = job.by /\ job'.es = job.es /\ job'.cfg = job.cfg /\ job'.slot = job.slot
      /\ job'.pid = job.pid /\ job'.at = "stopped"
      /\ job' = JobFields'
  BY DEF Shape, JobFields, Stopped
<1>3. Shape'
  BY <1>1, <1>2 DEF Shape
<1>4. Holder'
  BY <1>1, <1>2, FreeIs DEF Holder
<1>5. Children'
  BY <1>1, <1>2, Zenon DEF Children, Alive
<1>6. Configs'
  BY <1>1, <1>2 DEF Configs
<1>7. Applying'
  BY <1>2 DEF Applying
<1>8. Settling'
  BY <1>1, <1>2, Zenon DEF Settling, Wanted
<1> QED
  BY <1>3, <1>4, <1>5, <1>6, <1>7, <1>8

\* With nothing enabled there is no child.
LEMMA NothingInv ==
  ASSUME Inv, NothingToRun
  PROVE  Inv'
<1> USE DEF Inv
<1>1. /\ job.at = "stopped" /\ job.by # NoOne /\ job.cfg = NoConfig /\ Finish(TRUE)
      /\ UNCHANGED <<entries, rules, pool, parked, rows, up, cmd, running, file, procs,
                     watch>>
  BY Zenon DEF NothingToRun, store
<1>2. job.by \in Callers /\ job.at # "free" /\ cmd = 0
  BY <1>1 DEF Holder, Children
<1>3. /\ job' = Free /\ job'.at = "free" /\ job'.cfg = NoConfig /\ lastOK' = TRUE
      /\ pc' \in [Callers -> {"idle", "want", "in"}]
      /\ (\A c \in Callers : pc'[c] # "want") => (\A c \in Callers : pc[c] # "want")
      /\ Holder'
  BY <1>1, <1>2, Finished, Zenon
<1>4. Shape'
  BY <1>1, <1>3, FreeShape
<1>5. Children'
  BY <1>1, <1>3 DEF Children, Alive
<1>6. Configs'
  BY <1>1, <1>2, <1>3 DEF Configs
<1>7. Applying'
  BY <1>3 DEF Applying
<1>8. Settling'
  BY <1>1, <1>2, <1>3 DEF Settling
<1> QED
  BY <1>3, <1>4, <1>5, <1>6, <1>7, <1>8

\* A child is started only when none is alive, on the file just written.
LEMMA StartInv ==
  ASSUME Inv, Start
  PROVE  Inv'
<1> USE DEF Inv
<1>1. /\ job.at = "stopped" /\ job.cfg # NoConfig /\ Finish(TRUE)
      /\ running' = job.cfg /\ loaded' = job.slot
      /\ UNCHANGED <<entries, rules, pool, parked, rows, up, file>>
  BY Zenon DEF Start, store
<1>2. PICK p \in Pids : /\ procs[p] = Unused /\ watch[p] = "none"
                        /\ procs' = [procs EXCEPT ![p].st = "starting"]
                        /\ watch' = [watch EXCEPT ![p] = "wait"]
                        /\ cmd' = p
  BY Zenon DEF Start
<1>3. job.by \in Callers /\ job.at # "free" /\ cmd = 0
  BY <1>1 DEF Holder, Children
<1>4. /\ job' = Free /\ job'.at = "free" /\ job'.cfg = NoConfig /\ lastOK' = TRUE
      /\ up \notin {"stopped", "down"}
      /\ pc' \in [Callers -> {"idle", "want", "in"}]
      /\ (\A c \in Callers : pc'[c] # "want") => (\A c \in Callers : pc[c] # "want")
      /\ Holder'
  BY <1>1, <1>3, Finished, Zenon
<1>5. /\ procs'[p].st = "starting" /\ \A q \in Pids : q # p => procs'[q] = procs[q]
      /\ procs' = [q \in Pids |-> [st |-> procs'[q].st, cfg |-> procs'[q].cfg]]
  BY <1>2 DEF Shape
<1>6. /\ watch' \in [Pids -> {"none", "wait", "closed"}] /\ watch'[p] = "wait"
      /\ \A q \in Pids : q # p => watch'[q] = watch[q]
  BY <1>2 DEF Shape
<1>7. Shape'
  <2>1. job' = JobFields'
    BY <1>4, FreeIs DEF JobFields
  <2>2. \A q \in Pids : procs'[q].st \in {"unused", "starting", "serving", "exited"}
    BY <1>5 DEF Shape
  <2> QED
    BY <1>1, <1>2, <1>4, <1>5, <1>6, <2>1, <2>2 DEF Shape
<1>8. \A q \in Pids : ~Alive(q)
  BY <1>1, <1>3, <1>4, SupervisorAssumption DEF Children, Pids
<1>9. Children'
  BY <1>1, <1>2, <1>4, <1>5, <1>6, <1>8 DEF Children, Alive
<1>10. Sound(job.cfg, job.slot) /\ file = job.cfg
  BY <1>1 DEF Configs
<1>11. Configs'
  BY <1>1, <1>2, <1>4, <1>5, <1>10 DEF Configs
<1>12. Applying'
  BY <1>4, Zenon DEF Applying
<1>13. Wanted' = Wanted /\ EnabledIn(job.es) # {}
  BY <1>1 DEF Wanted, Settling
<1>14. Settling'
  BY <1>1, <1>4, <1>13, Zenon DEF Settling
<1> QED
  BY <1>4, <1>7, <1>9, <1>11, <1>12, <1>14

\* A failed start leaves no child.
LEMMA StartFailsInv ==
  ASSUME Inv, StartFails
  PROVE  Inv'
<1> USE DEF Inv
<1>1. /\ job.at = "stopped" /\ job.cfg # NoConfig /\ Finish(FALSE)
      /\ UNCHANGED <<up, cmd, running, loaded, file, procs, watch>>
  BY Zenon DEF StartFails
<1>2. job.by \in Callers /\ job.at # "free" /\ cmd = 0
  BY <1>1 DEF Holder, Children
<1>3. /\ job' = Free /\ job'.at = "free" /\ job'.cfg = NoConfig /\ lastOK' = FALSE
      /\ pc' \in [Callers -> {"idle", "want", "in"}]
      /\ Holder'
  BY <1>1, <1>2, Finished, Zenon
<1>4. Shape'
  BY <1>1, <1>3, FreeShape
<1>5. Children'
  BY <1>1, <1>3 DEF Children, Alive
<1>6. Configs'
  BY <1>1, <1>2, <1>3 DEF Configs
<1>7. Applying' /\ Settling'
  BY <1>3, Zenon DEF Applying, Settling
<1> QED
  BY <1>3, <1>4, <1>5, <1>6, <1>7


\* Pushing the running routing again changes nothing.
LEMMA RepushInv ==
  ASSUME Inv, repushGeoRouting
  PROVE  Inv'
<1> USE DEF Inv
<1>1. /\ job = Free /\ cmd # 0 /\ procs[cmd].st = "serving"
      /\ procs' = [procs EXCEPT ![cmd].cfg.routing = running.routing]
      /\ UNCHANGED <<entries, rules, pool, parked, rows, pc, job, up, cmd, running,
                     loaded, file, watch, lastOK>>
  BY DEF repushGeoRouting, store, Serving
<1>2. procs[cmd].cfg = running /\ IsConfig(running) /\ cmd \in Pids
  BY <1>1, FreeIs DEF Configs, Sound, Shape
<1>3. running = [running EXCEPT !.routing = running.routing]
  BY <1>2 DEF IsConfig
<1>4. procs[cmd] = [procs[cmd] EXCEPT !.cfg = running]
  BY <1>2 DEF Shape
<1>5. procs' = procs
  BY <1>1, <1>2, <1>3, <1>4 DEF Shape
<1>6. Holder'
  BY <1>1 DEF Holder
<1> QED
  BY <1>1, <1>5, <1>6, SameShape, SameChildren, SameConfigs, SameApplying, SameSettling

\* The child reads the file: the running configuration, or the wanted one before
\* any call was made.
LEMMA ReadsInv ==
  ASSUME Inv, NEW p \in Pids, ReadsConfig(p)
  PROVE  Inv'
<1> USE DEF Inv
<1>1. /\ procs[p].st = "starting"
      /\ procs' = [procs EXCEPT ![p] = [st |-> "serving", cfg |-> file]]
      /\ UNCHANGED <<entries, rules, pool, parked, rows, pc, job, up, cmd, running,
                     loaded, file, watch, lastOK>>
  BY DEF ReadsConfig, store
<1>2. /\ procs'[p].st = "serving" /\ procs'[p].cfg = file
      /\ \A q \in Pids : q # p => procs'[q] = procs[q]
      /\ procs' = [q \in Pids |-> [st |-> procs'[q].st, cfg |-> procs'[q].cfg]]
  BY <1>1 DEF Shape
<1>3. Shape'
  <2>1. \A q \in Pids : procs'[q].st \in {"unused", "starting", "serving", "exited"}
    BY <1>2 DEF Shape
  <2> QED
    BY <1>1, <1>2, <2>1, Zenon DEF Shape, JobFields
<1>4. Holder'
  BY <1>1 DEF Holder
<1>5. Children'
  <2>1. \A q \in Pids : Alive(q)' => Alive(q)
    BY <1>1, <1>2, Zenon DEF Alive
  <2>2. \A q \in Pids : watch[q] = "closed" => procs'[q].st = "exited"
    <3>1. watch[p] # "closed"
      BY <1>1 DEF Children
    <3> QED
      BY <1>2, <3>1, Zenon DEF Children
  <2>3. up # "down" =>
          \A q \in Pids : Alive(q)' =>
            /\ q = cmd \/ (job.at = "await" /\ job.pid = q)
            /\ watch[q] = "wait"
    BY <2>1, Zenon DEF Children
  <2> QED
    BY <1>1, <2>2, <2>3, Zenon DEF Children
<1>6. cmd # 0 => cmd \in Pids
  BY DEF Shape
<1>7. Configs'
  BY <1>1, <1>2, <1>6 DEF Configs
<1>8. Applying'
  <2> SUFFICES ASSUME job.at = "api" PROVE Applying'
    BY <1>1, Zenon DEF Applying
  <2>1. cmd # 0 /\ cmd \in Pids /\ job.cfg # NoConfig
    BY <1>6, Zenon DEF Applying
  <2>2. CASE cmd # p
    <3>1. procs'[cmd] = procs[cmd]
      BY <1>2, <2>1, <2>2
    <3> QED
      BY <1>1, <3>1, Zenon DEF Applying
  <2>3. CASE cmd = p
    <3>1. job.todo = Plan(running, job.cfg) /\ file = job.cfg
      BY <1>1, <2>1, <2>3, Zenon DEF Applying, Configs
    <3>2. IsConfig(running) /\ IsConfig(job.cfg)
      BY <2>1 DEF Configs, Sound
    <3>3. Partial(job.cfg, job.cfg, running, job.cfg, job.todo)
      BY <3>1, <3>2, PartialStart
    <3>4. procs'[cmd].st = "serving" /\ procs'[cmd].cfg = job.cfg
      BY <1>2, <2>3, <3>1
    <3> QED
      BY <1>1, <3>3, <3>4, Zenon DEF Applying
  <2> QED
    BY <2>2, <2>3
<1> QED
  BY <1>1, <1>3, <1>4, <1>5, <1>7, <1>8, SameSettling

\* A child that exits preserves the invariant.
LEMMA ExitsInv ==
  ASSUME Inv, NEW p \in Pids, Exits(p)
  PROVE  Inv'
<1> USE DEF Inv
<1>1. UNCHANGED <<entries, rules, pool, parked, rows, pc, job, up, cmd, running, loaded,
                  file, watch, lastOK>>
  BY DEF Exits, store
<1>2. procs' = [procs EXCEPT ![p] = IF watch[p] = "none" THEN Unused
                                    ELSE [st |-> "exited", cfg |-> NoConfig]]
  BY DEF Exits
<1>3. /\ procs'[p].st \in {"unused", "exited"} /\ (watch[p] # "none" => procs'[p].st = "exited")
      /\ \A q \in Pids : q # p => procs'[q] = procs[q]
      /\ procs' = [q \in Pids |-> [st |-> procs'[q].st, cfg |-> procs'[q].cfg]]
  BY <1>2 DEF Shape, Unused
<1>4. Shape'
  <2>1. \A q \in Pids : procs'[q].st \in {"unused", "starting", "serving", "exited"}
    BY <1>3 DEF Shape
  <2> QED
    BY <1>1, <1>3, <2>1 DEF Shape, JobFields
<1>5. Holder'
  BY <1>1 DEF Holder
<1>6. Children'
  BY <1>1, <1>3 DEF Children, Alive
<1>7. cmd # 0 => cmd \in Pids
  BY DEF Shape
<1>8. Configs'
  BY <1>1, <1>3, <1>7 DEF Configs
<1>9. Applying'
  BY <1>1, <1>3, <1>7 DEF Applying
<1> QED
  BY <1>1, <1>4, <1>5, <1>6, <1>8, <1>9, SameSettling

\* The watcher closes the channel of a dead child only.
LEMMA WaitInv ==
  ASSUME Inv, NEW p \in Pids, WaitReturns(p)
  PROVE  Inv'
<1> USE DEF Inv
<1>1. /\ procs[p].st = "exited" /\ watch[p] = "wait" /\ watch' = [watch EXCEPT ![p] = "closed"]
      /\ UNCHANGED <<entries, rules, pool, parked, rows, pc, job, up, cmd, running,
                     loaded, file, procs, lastOK>>
  BY Zenon DEF WaitReturns, store
<1>2. Shape'
  BY <1>1 DEF Shape, JobFields
<1>3. Holder'
  BY <1>1, Zenon DEF Holder
<1>4. Children'
  BY <1>1 DEF Children, Alive, Shape
<1> QED
  BY <1>1, <1>2, <1>3, <1>4, SameConfigs, SameApplying, SameSettling, Zenon

\* The watcher clears s.cmd of its own child only.
LEMMA NoticesInv ==
  ASSUME Inv, NEW p \in Pids, Notices(p)
  PROVE  Inv'
<1> USE DEF Inv
<1>1. /\ watch[p] = "closed" /\ job = Free /\ cmd' = (IF cmd = p THEN 0 ELSE cmd)
      /\ watch' = [watch EXCEPT ![p] = "none"] /\ procs' = [procs EXCEPT ![p] = Unused]
      /\ UNCHANGED <<entries, rules, pool, parked, rows, pc, job, up, running, loaded,
                     file, lastOK>>
  BY DEF Notices, store
<1>2. /\ procs'[p].st = "unused" /\ \A q \in Pids : q # p => procs'[q] = procs[q]
      /\ procs' = [q \in Pids |-> [st |-> procs'[q].st, cfg |-> procs'[q].cfg]]
  BY <1>1 DEF Shape, Unused
<1>3. /\ watch' \in [Pids -> {"none", "wait", "closed"}]
      /\ watch'[p] = "none" /\ \A q \in Pids : q # p => watch'[q] = watch[q]
  BY <1>1 DEF Shape
<1>4. Shape'
  <2>1. \A q \in Pids : procs'[q].st \in {"unused", "starting", "serving", "exited"}
    BY <1>2 DEF Shape
  <2> QED
    BY <1>1, <1>2, <1>3, <2>1, Zenon DEF Shape, JobFields
<1>5. Holder'
  BY <1>1 DEF Holder
<1>6. job.at = "free"
  BY <1>1, FreeIs
<1>7. Children'
  <2>1. \A q \in Pids : Alive(q)' => q # p /\ Alive(q) /\ watch'[q] = watch[q]
    BY <1>2, <1>3 DEF Alive
  <2>2. \A q \in Pids : watch'[q] = "closed" => q # p /\ procs'[q] = procs[q] /\ watch[q] = "closed"
    BY <1>2, <1>3
  <2>3. job' = job /\ up' = up /\ cmd' \in {0, cmd} /\ (cmd' # cmd => cmd = p)
    BY <1>1
  <2>4. (up # "down" => \A q \in Pids : Alive(q) =>
           (q = cmd \/ (job.at = "await" /\ job.pid = q)) /\ watch[q] = "wait")'
    BY <1>6, <2>1, <2>3 DEF Children
  <2>5. (\A q \in Pids : watch[q] = "closed" => procs[q].st = "exited")'
    BY <2>2 DEF Children
  <2>6. (up = "down" => \A q \in Pids : watch[q] = "none")'
    BY <1>3, <2>3 DEF Children
  <2> QED
    BY <1>6, <2>3, <2>4, <2>5, <2>6 DEF Children
<1>8. cmd' # 0 => cmd' = cmd /\ cmd # p /\ cmd \in Pids
  BY <1>1 DEF Shape
<1>9. Configs'
  BY <1>1, <1>2, <1>8 DEF Configs
<1>10. Applying'
  BY <1>1, <1>6, Zenon DEF Applying
<1>11. Settling'
  BY <1>1, <1>6, <1>8 DEF Settling, Wanted
<1> QED
  BY <1>4, <1>5, <1>7, <1>9, <1>10, <1>11

\* A daemon that is gone holds nothing.
LEMMA GoneInv ==
  ASSUME Inv, DaemonGone
  PROVE  Inv'
<1> USE DEF Inv
<1>1. /\ up' = "down" /\ pc' = [c \in Callers |-> "idle"] /\ job' = Free /\ cmd' = 0
      /\ watch' = [p \in Pids |-> "none"]
      /\ procs' = [p \in Pids |-> IF Alive(p) THEN procs[p] ELSE Unused]
  BY DEF DaemonGone
<1>2. job'.at = "free" /\ job'.by = NoOne /\ job'.cfg = NoConfig /\ job' = JobFields'
  BY <1>1, FreeIs DEF JobFields
<1>3. Shape'
  BY <1>1, <1>2 DEF Shape, Unused
<1>4. Holder'
  BY <1>1, <1>2, SupervisorAssumption DEF Holder
<1>5. Children' /\ Configs' /\ Applying' /\ Settling'
  BY <1>1, <1>2, Zenon DEF Children, Configs, Applying, Settling
<1> QED
  BY <1>3, <1>4, <1>5

\* A cancelled context preserves the invariant.
LEMMA ShutdownInv ==
  ASSUME Inv, Shutdown
  PROVE  Inv'
<1> USE DEF Inv
<1>1. /\ up = "up" /\ up' = "quitting"
      /\ UNCHANGED <<pc, job, cmd, running, loaded, file, procs, watch>>
  BY DEF Shutdown
<1>2. Shape'
  BY <1>1 DEF Shape, JobFields
<1>3. Holder'
  BY <1>1 DEF Holder
<1>4. Children'
  BY <1>1 DEF Children, Alive
<1>5. Settling'
  <2>1. (job.at \in {"rules", "slots"} \/ job.cfg # NoConfig => EnabledIn(job.es) # {})'
    BY <1>1, Zenon DEF Settling
  <2> QED
    BY <1>1, <2>1 DEF Settling
<1> QED
  BY <1>1, <1>2, <1>3, <1>4, <1>5, SameConfigs, SameApplying

\* Stop takes the mutex only when it is free.
LEMMA StopInv ==
  ASSUME Inv, Stop
  PROVE  Inv'
<1> USE DEF Inv
<1>1. /\ up = "quitting" /\ job = Free /\ job' = [Free EXCEPT !.at = "stop"]
      /\ UNCHANGED <<pc, up, cmd, running, loaded, file, procs, watch>>
  BY DEF Stop
<1>2. /\ job'.at = "stop" /\ job'.by = NoOne /\ job'.cfg = NoConfig /\ job' = JobFields'
      /\ job.at = "free" /\ job.by = NoOne
  BY <1>1, FreeIs DEF JobFields
<1>3. Shape'
  BY <1>1, <1>2 DEF Shape
<1>4. Holder'
  BY <1>1, <1>2 DEF Holder
<1>5. Children'
  BY <1>1, <1>2 DEF Children, Alive
<1>6. Configs'
  BY <1>1, <1>2 DEF Configs
<1>7. Applying'
  BY <1>2 DEF Applying
<1>8. Settling'
  BY <1>1, <1>2 DEF Settling
<1> QED
  BY <1>3, <1>4, <1>5, <1>6, <1>7, <1>8

\* Stop returns with no child alive.
LEMMA StopReturnsInv ==
  ASSUME Inv, StopReturns
  PROVE  Inv'
<1> USE DEF Inv
<1>1. /\ job.at = "stopped" /\ job.by = NoOne /\ up' = "stopped" /\ job' = Free
      /\ UNCHANGED <<pc, cmd, running, loaded, file, procs, watch>>
  BY DEF StopReturns
<1>2. /\ job'.at = "free" /\ job'.by = NoOne /\ job'.cfg = NoConfig /\ job' = JobFields' /\ cmd = 0
      /\ up = "quitting"
  BY <1>1, FreeIs, SupervisorAssumption DEF JobFields, Children, Holder
<1>3. Shape'
  BY <1>1, <1>2 DEF Shape
<1>4. Holder'
  BY <1>1, <1>2 DEF Holder
<1>5. Children'
  BY <1>1, <1>2 DEF Children, Alive
<1>6. Configs'
  BY <1>1, <1>2 DEF Configs
<1>7. Applying'
  BY <1>2 DEF Applying
<1>8. Settling'
  BY <1>1, <1>2 DEF Settling
<1> QED
  BY <1>3, <1>4, <1>5, <1>6, <1>7, <1>8

\* The sweep at boot leaves no child, and main waits to reconcile.
LEMMA BootInv ==
  ASSUME Inv, Boot
  PROVE  Inv'
<1> USE DEF Inv
<1>1. /\ up = "down" /\ up' = "up" /\ procs' = [p \in Pids |-> Unused]
      /\ pc' = [pc EXCEPT ![main] = "want"]
      /\ UNCHANGED <<job, cmd, running, loaded, file, watch>>
  BY DEF Boot
<1>2. main \in Callers
  BY SupervisorAssumption DEF main
<1>3. job = Free /\ cmd = 0 /\ job.at = "free" /\ job.by = NoOne /\ job.cfg = NoConfig
  BY <1>1, FreeIs DEF Holder
<1>4. pc'[main] = "want" /\ \A c \in Callers : pc'[c] # "in"
  BY <1>1, <1>2, <1>3, SupervisorAssumption DEF Shape, Holder
<1>5. Shape'
  BY <1>1, <1>2 DEF Shape, JobFields, Unused
<1>6. Holder'
  BY <1>1, <1>3, <1>4, SupervisorAssumption DEF Holder
<1>7. Children'
  BY <1>1, <1>3 DEF Children, Alive, Unused
<1>8. Configs' /\ Applying'
  BY <1>1, <1>3, Zenon DEF Configs, Applying
<1>9. Settling'
  BY <1>1, <1>2, <1>3, <1>4 DEF Settling
<1> QED
  BY <1>5, <1>6, <1>7, <1>8, <1>9

\* A step that changes nothing preserves the invariant.
LEMMA StutterInv ==
  ASSUME Inv, UNCHANGED vars
  PROVE  Inv'
<1>1. UNCHANGED <<entries, rules, pool, parked, rows, pc, job, up, cmd, running, loaded,
                  file, procs, watch, lastOK>>
  BY DEF vars
<1>2. Holder'
  BY <1>1, Zenon DEF Holder, Inv
<1> QED
  BY <1>1, <1>2, SameShape, SameChildren, SameConfigs, SameApplying, SameSettling DEF Inv

\* Every step preserves the invariant.
LEMMA NextInv ==
  ASSUME Inv, [Next]_vars
  PROVE  Inv'
<1>1. CASE Edit
  BY <1>1, EditInv
<1>2. ASSUME NEW c \in Callers, Begin(c) \/ BeginFails(c) PROVE Inv'
  BY <1>2, BeginInv, BeginFailsInv
<1>3. CASE Reconcile
  BY <1>3, RulesInv, WriteInv, ReconcileFailsInv, CallInv, CallFailsInv, StopLockedInv,
     StoppedInv, NothingInv, StartInv, StartFailsInv, StopReturnsInv DEF Reconcile
<1>4. CASE repushGeoRouting
  BY <1>4, RepushInv
<1>5. ASSUME NEW p \in Pids, Child(p) PROVE Inv'
  BY <1>5, ReadsInv, ExitsInv, WaitInv, NoticesInv DEF Child
<1>6. CASE Crash \/ Quit
  BY <1>6, GoneInv DEF Crash, Quit
<1>7. CASE Shutdown \/ Stop \/ Boot
  BY <1>7, ShutdownInv, StopInv, BootInv
<1>8. CASE UNCHANGED vars
  BY <1>8, StutterInv
<1> QED
  BY <1>1, <1>2, <1>3, <1>4, <1>5, <1>6, <1>7, <1>8 DEF Next

\* The invariant holds throughout, for any number of entries, nodes, callers,
\* edits, faults and children (the supervisor of daemon/xray.go).
THEOREM Invariance == Spec => []Inv
<1>1. Init => Inv
  BY InitInv
<1>2. Inv /\ [Next]_vars => Inv'
  BY NextInv
<1> QED
  BY <1>1, <1>2, PTL DEF Spec

\* The invariant gives one child at most.
LEMMA InvOneChild == Inv => OneChild
<1> SUFFICES ASSUME Inv, up # "down" PROVE Cardinality({p \in Pids : Alive(p)}) <= 1
  BY DEF OneChild
<1>1. PICK x : \A p \in Pids : Alive(p) => p = x
  BY SupervisorAssumption DEF Inv, Children, Pids
<1>2. {p \in Pids : Alive(p)} = {} \/ {p \in Pids : Alive(p)} = {x}
  BY <1>1
<1>3. Cardinality({}) = 0 /\ Cardinality({x}) = 1
  BY FS_EmptySet, FS_Singleton, Zenon
<1> QED
  BY <1>2, <1>3

\* The invariant gives that s.running is true of the child.
LEMMA InvRunning == Inv => RunningIsTrue
BY FreeIs DEF Inv, Configs, RunningIsTrue, Serving, Sound, Members

\* The invariant gives that every named outbound exists.
LEMMA InvRefs == Inv => RefsResolve
<1> SUFFICES ASSUME Inv, cmd # 0, Serving(cmd), job.at = "api" \/ job = Free
             PROVE  Named(procs[cmd].cfg) \ {Direct}
                      \subseteq DOMAIN procs[cmd].cfg.outs \cup Replacing
  BY DEF RefsResolve, Named
<1>1. procs[cmd].st = "serving" /\ Sound(running, loaded)
  BY DEF Serving, Inv, Configs
<1>2. CASE job = Free
  BY <1>1, <1>2, FreeIs DEF Inv, Configs, Sound
<1>3. CASE job.at = "api"
  <2>1. /\ job.cfg # NoConfig /\ job.todo # {} /\ job.todo \subseteq Plan(running, job.cfg)
        /\ \E base \in {running, job.cfg} : Partial(procs[cmd].cfg, base, running, job.cfg, job.todo)
    BY <1>1, <1>3, Zenon DEF Inv, Applying
  <2>2. Sound(job.cfg, job.slot)
    BY <2>1 DEF Inv, Configs
  <2>3. job.todo \subseteq 1..7
    BY <2>1 DEF Plan
  <2>4. /\ Named(running) \ {Direct} \subseteq DOMAIN running.outs
        /\ Named(job.cfg) \ {Direct} \subseteq DOMAIN job.cfg.outs
    BY <1>1, <2>2 DEF Sound
  <2>5. /\ First(job.todo) = 2 =>
             Named(procs[cmd].cfg) \ {Direct}
               \subseteq DOMAIN procs[cmd].cfg.outs \cup Added(running.outs, job.cfg.outs)
        /\ First(job.todo) # 2 => Named(procs[cmd].cfg) \ {Direct} \subseteq DOMAIN procs[cmd].cfg.outs
    BY <2>1, <2>3, <2>4, PartialRefs, Zenon
  <2>6. First(job.todo) = 2 => Replacing = Added(running.outs, job.cfg.outs)
    <3>1. First(job.todo) = 2 =>
            NextCall = [op |-> "ado", tags |-> Added(running.outs, job.cfg.outs)]
      <4>1. applyLiveCall(2, running, job.cfg) = [op |-> "ado", tags |-> Added(running.outs, job.cfg.outs)]
        BY CallsAre, Zenon
      <4> QED
        BY <4>1, Zenon DEF NextCall
    <3> QED
      BY <1>3, <3>1 DEF Replacing
  <2> QED
    BY <2>5, <2>6
<1> QED
  BY <1>2, <1>3

\* restartLocked, stopLocked, sweepOrphanXray and the watcher keep one child at
\* most; applyLiveLocked leaves it exactly as s.running says, through partial
\* applies and late reads of the file; and its order keeps every reference
\* resolvable.
THEOREM ChildKnown == Spec => []ChildIsKnown
<1>1. Inv => ChildIsKnown
  BY InvOneChild, InvRunning, InvRefs DEF ChildIsKnown
<1> QED
  BY <1>1, Invariance, PTL

\* Once every caller of Reconcile is done and the last one succeeded, the hidden
\* rows and the child are what the store asks for, however edits and Reconciles
\* interleaved.
THEOREM Convergence == Spec => []Converged
<1>1. Inv => Converged
  <2> SUFFICES ASSUME Inv, up = "up", lastOK, \A c \in Callers : pc[c] = "idle"
               PROVE  /\ rows = AlignedRows(entries)
                      /\ \A p \in Pids : Serving(p) => procs[p].cfg = Wanted
                      /\ EnabledIn(entries) = {} => \A p \in Pids : ~Alive(p)
    BY DEF Converged, Wanted
  <2>1. job.at = "free"
    BY Zenon DEF Inv, Holder
  <2>2. /\ rows = AlignedRows(entries)
        /\ EnabledIn(entries) = {} => cmd = 0
        /\ cmd # 0 => running = Wanted
    BY <2>1 DEF Inv, Settling
  <2>3. \A p \in Pids : Alive(p) => p = cmd /\ cmd # 0
    <3>1. up # "down" /\ job.at # "await"
      BY <2>1
    <3>2. \A p \in Pids : Alive(p) => p = cmd
      BY <3>1, Zenon DEF Inv, Children
    <3>3. \A p \in Pids : p # 0
      BY SupervisorAssumption DEF Pids
    <3> QED
      BY <3>2, <3>3, Zenon
  <2>4. ASSUME NEW p \in Pids, Serving(p) PROVE procs[p].cfg = Wanted
    <3>1. Alive(p) /\ procs[p].st = "serving"
      BY <2>4, Zenon DEF Serving, Alive
    <3> QED
      BY <2>1, <2>2, <2>3, <3>1, Zenon DEF Inv, Configs
  <2> QED
    BY <2>2, <2>3, <2>4
<1> QED
  BY <1>1, Invariance, PTL

\* A clean shutdown leaves no child behind, and a live apply never touches an
\* object that is the same before and after (main's deferred Stop,
\* applyLiveLocked).
THEOREM CleanSteps == Spec => StepsAreClean
<1>1. Inv /\ [Next]_vars => [Quit => \A p \in Pids : ~Alive(p)]_vars
  <2> SUFFICES ASSUME Inv, Quit PROVE \A p \in Pids : ~Alive(p)
    OBVIOUS
  <2>1. up = "stopped" /\ job = Free /\ cmd = 0
    BY DEF Quit, Inv, Holder
  <2> QED
    <3>1. up # "down" /\ job.at # "await"
      BY <2>1, FreeIs
    <3>2. \A p \in Pids : Alive(p) => p = cmd
      BY <3>1, Zenon DEF Inv, Children
    <3>3. \A p \in Pids : p # 0
      BY SupervisorAssumption DEF Pids
    <3> QED
      BY <2>1, <3>2, <3>3, Zenon
<1>2. ASSUME Inv, CallAPI
      PROVE  /\ \A t \in DOMAIN running.outs \cap DOMAIN job.cfg.outs :
                  running.outs[t] = job.cfg.outs[t]
                    => /\ t \in DOMAIN procs'[cmd].cfg.outs
                       /\ procs'[cmd].cfg.outs[t] = procs[cmd].cfg.outs[t]
             /\ \A t \in DOMAIN running.ins \cap DOMAIN job.cfg.ins :
                  running.ins[t] = job.cfg.ins[t]
                    => /\ t \in DOMAIN procs'[cmd].cfg.ins
                       /\ procs'[cmd].cfg.ins[t] = procs[cmd].cfg.ins[t]
  <2>1. PICK base \in {running, job.cfg} :
          /\ Partial(procs[cmd].cfg, base, running, job.cfg, job.todo)
          /\ Partial(procs'[cmd].cfg, base, running, job.cfg, job.todo \ {First(job.todo)})
    BY <1>2, CallFacts
  <2>2. PICK c, d : c = procs[cmd].cfg /\ d = procs'[cmd].cfg
    OBVIOUS
  <2>6. /\ Keeps(c.outs, running.outs, job.cfg.outs) /\ Keeps(d.outs, running.outs, job.cfg.outs)
        /\ Keeps(c.ins, running.ins, job.cfg.ins) /\ Keeps(d.ins, running.ins, job.cfg.ins)
    <3>1. PICK T, U : T = job.todo /\ U = job.todo \ {First(job.todo)}
      BY Zenon
    <3>2. Partial(c, base, running, job.cfg, T) /\ Partial(d, base, running, job.cfg, U)
      BY <2>1, <2>2, <3>1, Zenon
    <3> QED
      BY <3>2, PartialKeeps, Zenon
  <2>7. /\ \A t \in DOMAIN running.outs \cap DOMAIN job.cfg.outs :
             running.outs[t] = job.cfg.outs[t] => t \in DOMAIN d.outs /\ d.outs[t] = c.outs[t]
        /\ \A t \in DOMAIN running.ins \cap DOMAIN job.cfg.ins :
             running.ins[t] = job.cfg.ins[t] => t \in DOMAIN d.ins /\ d.ins[t] = c.ins[t]
    BY <2>6, Zenon DEF Keeps
  <2> QED
    BY <2>2, <2>7, Zenon
<1>3. Inv => [CallAPI =>
       LET old == procs[cmd].cfg
           new == procs'[cmd].cfg
       IN  /\ \A t \in DOMAIN running.outs \cap DOMAIN job.cfg.outs :
                running.outs[t] = job.cfg.outs[t]
                  => t \in DOMAIN new.outs /\ new.outs[t] = old.outs[t]
           /\ \A t \in DOMAIN running.ins \cap DOMAIN job.cfg.ins :
                running.ins[t] = job.cfg.ins[t]
                  => t \in DOMAIN new.ins /\ new.ins[t] = old.ins[t]]_vars
  BY <1>2, Zenon
<1>4. Spec => LeavesNoChild
  BY <1>1, Invariance, PTL DEF LeavesNoChild, Spec
<1>5. Spec => UnchangedUntouched
  BY <1>3, Invariance, PTL DEF UnchangedUntouched
<1> QED
  BY <1>4, <1>5 DEF StepsAreClean

=============================================================================
