------------------------------ MODULE Outbounds ------------------------------
(***************************************************************************)
(* The outbounds a rule may be bound to and the names they refer to each   *)
(* other by (core/xray/store.go, set_store.go, dialer_bulk.go,             *)
(* core/proxy/store.go and the handlers of daemon/handlers.go,             *)
(* daemon/xray_sets.go and daemon/xray_bulkdialer.go).                     *)
(*                                                                         *)
(* Xray entries, proxies, subscriptions and sets are rows with an id and a *)
(* unique name.  Rules name entries, proxies or one set; an entry's dialer *)
(* names entries, subscriptions and proxies; a set names entries and       *)
(* proxies.  No foreign key ties a name to its row: the handlers check     *)
(* names before a write, rewrite them when a row is renamed and refuse to  *)
(* delete a row that is still named.  The engine holds the rules with      *)
(* their sets expanded as of its last Reload.                              *)
(*                                                                         *)
(* Requests are handled one at a time: a handler's statements share no     *)
(* transaction, so two that overlap can undo each other's checks, which    *)
(* this module does not show.  A statement of a rename's cascade may fail; *)
(* the handler then stops there, with the statements before it in place.   *)
(* A request that is refused changes nothing.  The order of a list of      *)
(* names decides nothing here and lists are sets.                          *)
(***************************************************************************)
EXTENDS Naturals, FiniteSets, Functions, TLC

CONSTANTS
    XrayIds, ProxyIds, SubIds, SetIds, BoundRules,
    EntryNames, ProxyNames, SubNames, SetNames,
    MaxRefs,                                    \* bound: names in one list
    MaxRows                                     \* bound: entries, proxies, subscriptions

VARIABLES
    xray,       \* entry id -> [name, dialer, on]
    proxies,    \* proxy id -> name
    subs,       \* subscription id -> name
    sets,       \* set id -> [name, members, on]
    binding,    \* rule -> the names its Interface lists
    engine,     \* rule -> the same, as the engine last expanded it
    torn,       \* holders of names that a failed cascade left behind
    rewired     \* history: an update changed a name and a dialer at once

outVars == <<xray, proxies, subs, sets, binding, engine, torn, rewired>>

Ref(kind, n) == <<kind, n>>
Refs(kind, names) == {Ref(kind, n) : n \in names}
Lists(refs) == {l \in SUBSET refs : Cardinality(l) <= MaxRefs}

DialerLists ==
    Lists(Refs("xray", EntryNames) \cup Refs("xraysub", SubNames)
            \cup Refs("proxy", ProxyNames))
MemberLists ==
    Lists(Refs("xray", EntryNames) \cup Refs("proxy", ProxyNames)) \ {{}}
Bindings ==
    {{}} \cup {{r} : r \in Refs("xrayset", SetNames)}
         \cup Lists(Refs("xray", EntryNames)) \cup Lists(Refs("proxy", ProxyNames))

NameOf(rows) == {rows[i].name : i \in DOMAIN rows}
Existing ==
    Refs("xray", NameOf(xray)) \cup Refs("proxy", Range(proxies))
        \cup Refs("xraysub", Range(subs)) \cup Refs("xrayset", NameOf(sets))

NamesExist(refs) == refs \subseteq Existing

-----------------------------------------------------------------------------
(* Expansion of sets at Reload. *)

LiveMembers(set, X) ==
    {r \in set.members : ~\E i \in DOMAIN X : r = Ref("xray", X[i].name) /\ ~X[i].on}

\* The sets the expansion map has a key for.
SetExpansions(S, X) == {s \in DOMAIN S : S[s].on /\ LiveMembers(S[s], X) # {}}

ExpandSetInterface(b, S, X) ==
    LET hit == {s \in SetExpansions(S, X) : b = {Ref("xrayset", S[s].name)}}
    IN  IF hit = {} THEN b ELSE UNION {LiveMembers(S[s], X) : s \in hit}

Reload(B, S, X) == [r \in BoundRules |-> ExpandSetInterface(B[r], S, X)]

(* Rewriting of names when a row is renamed; a collision collapses. *)

Renamed(refs, from, to) == {IF r = from THEN to ELSE r : r \in refs}
RenameInterfaceRef(B, from, to) == [r \in BoundRules |-> Renamed(B[r], from, to)]
renameDialerRef(X, from, to) ==
    [i \in DOMAIN X |-> [X[i] EXCEPT !.dialer = Renamed(@, from, to)]]
RenameSetMember(S, from, to) ==
    [s \in DOMAIN S |-> [S[s] EXCEPT !.members = Renamed(@, from, to)]]

(* The graph of entries dialled through entries. *)

Dials(names, X) ==
    {n \in EntryNames : \E i \in DOMAIN X :
        X[i].name \in names /\ Ref("xray", n) \in X[i].dialer}

\* The names the search from n visits.
Visited(n, X) ==
    LET visit[k \in Nat] == IF k = 0 THEN {n}
                            ELSE visit[k - 1] \cup Dials(visit[k - 1], X)
    IN  visit[Cardinality(EntryNames)]

\* The search from n comes back to a name it is still visiting.
CycleFrom(n, X) ==
    \E loop \in SUBSET Visited(n, X) :
        loop # {} /\ \A m \in loop : Dials({m}, X) \cap loop # {}

DetectDialerCycle(X, id, n, dialer) ==
    CycleFrom(n, id :> [name |-> n, dialer |-> dialer, on |-> TRUE] @@ X)

\* An id no row has: validateDialer's selfID on add.
NoId == 0

validateDialer(id, n, dialer) ==
    dialer # {} => NamesExist(dialer) /\ ~DetectDialerCycle(xray, id, n, dialer)

-----------------------------------------------------------------------------
(* Entries. *)

\* The stages a cascade of n statements may stop after; one failure in all.
Stages(n) == IF torn = {} THEN 1 .. n ELSE {n}

Room == Cardinality(DOMAIN xray) + Cardinality(DOMAIN proxies)
            + Cardinality(DOMAIN subs) < MaxRows

EntryRow(n, d, on) == [name |-> n, dialer |-> d, on |-> on]

\* store.validate and the unique index on names.
Storable(id, row) ==
    /\ Ref("xray", row.name) \notin row.dialer
    /\ \A i \in DOMAIN xray \ {id} : xray[i].name # row.name

XrayAdd ==
    /\ Room
    /\ \E i \in XrayIds \ DOMAIN xray, n \in EntryNames, d \in DialerLists :
         /\ validateDialer(NoId, n, d)
         /\ Storable(NoId, EntryRow(n, d, TRUE))
         /\ xray' = i :> EntryRow(n, d, TRUE) @@ xray
    /\ UNCHANGED <<proxies, subs, sets, binding, engine, torn, rewired>>

\* After the row: 2 rules, 3 Reload, 4 dialers, 5 sets, 6 Reload.
XrayCascade(from, to, X, k) ==
    LET B == IF k >= 2 THEN RenameInterfaceRef(binding, from, to) ELSE binding
        Y == IF k >= 4 THEN renameDialerRef(X, from, to) ELSE X
        S == IF k >= 5 THEN RenameSetMember(sets, from, to) ELSE sets
    IN  /\ binding' = B /\ xray' = Y /\ sets' = S
        /\ engine' = CASE k >= 6 -> Reload(B, S, Y)
                       [] k \in 3 .. 5 -> Reload(B, sets, X)
                       [] OTHER -> engine
        /\ torn' = torn \cup (IF k < 2 THEN {"rule"} ELSE {})
                        \cup (IF k < 4 THEN {"dialer"} ELSE {})
                        \cup (IF k < 5 THEN {"set"} ELSE {})
                        \cup (IF k < 6 THEN {"engine"} ELSE {})

XrayUpdate ==
    /\ \E i \in DOMAIN xray, n \in EntryNames, d \in DialerLists, on \in BOOLEAN :
         LET old == xray[i]
             row == EntryRow(n, d, on)
             X == [xray EXCEPT ![i] = row]
         IN  /\ validateDialer(i, n, d)
             /\ Storable(i, row)
             /\ IF n = old.name
                THEN xray' = X /\ UNCHANGED <<sets, binding, engine, torn>>
                ELSE \E k \in Stages(6) : XrayCascade(Ref("xray", old.name), Ref("xray", n), X, k)
             /\ rewired' = (rewired \/ (n # old.name /\ d # old.dialer))
    /\ UNCHANGED <<proxies, subs>>

\* The row is read whole and written back whole.
XraySetEnabled ==
    /\ \E i \in DOMAIN xray :
         /\ Storable(i, xray[i])
         /\ xray' = [xray EXCEPT ![i].on = ~@]
    /\ UNCHANGED <<proxies, subs, sets, binding, engine, torn, rewired>>

rulesReferencing(ref) == {r \in BoundRules : ref \in binding[r]}
mastersReferencingDialer(ref) == {i \in DOMAIN xray : ref \in xray[i].dialer}
SetsReferencing(ref) == {s \in DOMAIN sets : ref \in sets[s].members}

\* A plausible slip: the sets are not asked.
XrayUnusedButInSets(ref) ==
    rulesReferencing(ref) = {} /\ mastersReferencingDialer(ref) = {}

XrayUnused(ref) ==
    /\ rulesReferencing(ref) = {}
    /\ mastersReferencingDialer(ref) = {}
    /\ SetsReferencing(ref) = {}

XrayDelete ==
    /\ \E i \in DOMAIN xray :
         /\ XrayUnused(Ref("xray", xray[i].name))
         /\ xray' = Restrict(xray, DOMAIN xray \ {i})
    /\ UNCHANGED <<proxies, subs, sets, binding, engine, torn, rewired>>

-----------------------------------------------------------------------------
(* One edit of many dialers. *)

EditDialer(current, mode, refs) ==
    CASE mode = "replace" -> refs
      [] mode = "add"     -> current \cup refs
      [] mode = "remove"  -> current \ refs

WithDialers(changed) ==
    [i \in DOMAIN xray |->
        IF i \in DOMAIN changed THEN [xray[i] EXCEPT !.dialer = changed[i]] ELSE xray[i]]

\* A plausible slip: the stored graph is checked, not the proposed one.
BulkStoredAcyclic(changed) ==
    \A i \in DOMAIN changed : ~DetectDialerCycle(xray, i, xray[i].name, xray[i].dialer)

\* Every changed entry against the graph with the whole batch applied.
BulkAcyclic(changed) ==
    \A i \in DOMAIN changed :
        ~DetectDialerCycle(WithDialers(changed), i, xray[i].name, changed[i])

bulkEditDialer ==
    /\ \E ids \in SUBSET DOMAIN xray, mode \in {"replace", "add", "remove"}, refs \in DialerLists :
         LET next == [i \in ids |-> EditDialer(xray[i].dialer, mode, refs)]
             changed == Restrict(next, {i \in ids : next[i] # xray[i].dialer})
         IN  /\ refs = {} => mode = "replace"
             /\ mode # "remove" =>
                  /\ NamesExist(refs)
                  /\ \A i \in ids : Ref("xray", xray[i].name) \notin refs
             /\ \A i \in ids : Cardinality(next[i]) <= MaxRefs
             /\ DOMAIN changed # {}
             /\ BulkAcyclic(changed)
             /\ xray' = WithDialers(changed)
    /\ UNCHANGED <<proxies, subs, sets, binding, engine, torn, rewired>>

-----------------------------------------------------------------------------
(* Proxies. *)

ProxiesAdd ==
    /\ Room
    /\ \E i \in ProxyIds \ DOMAIN proxies, n \in ProxyNames \ Range(proxies) :
           proxies' = i :> n @@ proxies
    /\ UNCHANGED <<xray, subs, sets, binding, engine, torn, rewired>>

\* After the row: 2 rules, 3 sets, 4 Reload.  Dialers are not rewritten.
ProxiesUpdate ==
    /\ \E i \in DOMAIN proxies, n \in ProxyNames \ Range(proxies), k \in Stages(4) :
         LET from == Ref("proxy", proxies[i])
             to == Ref("proxy", n)
             B == IF k >= 2 THEN RenameInterfaceRef(binding, from, to) ELSE binding
             S == IF k >= 3 THEN RenameSetMember(sets, from, to) ELSE sets
         IN  /\ proxies' = [proxies EXCEPT ![i] = n]
             /\ binding' = B /\ sets' = S
             /\ engine' = IF k >= 4 THEN Reload(B, S, xray) ELSE engine
             /\ torn' = torn \cup (IF k < 2 THEN {"rule"} ELSE {})
                             \cup (IF k < 3 THEN {"set"} ELSE {})
                             \cup (IF k < 4 THEN {"engine"} ELSE {})
    /\ UNCHANGED <<xray, subs, rewired>>

ProxiesDelete ==
    /\ \E i \in DOMAIN proxies :
         /\ rulesReferencing(Ref("proxy", proxies[i])) = {}
         /\ SetsReferencing(Ref("proxy", proxies[i])) = {}
         /\ proxies' = Restrict(proxies, DOMAIN proxies \ {i})
    /\ UNCHANGED <<xray, subs, sets, binding, engine, torn, rewired>>

-----------------------------------------------------------------------------
(* Subscriptions, as far as they are named. *)

XraySubAdd ==
    /\ Room
    /\ \E i \in SubIds \ DOMAIN subs, n \in SubNames \ Range(subs) : subs' = i :> n @@ subs
    /\ UNCHANGED <<xray, proxies, sets, binding, engine, torn, rewired>>

\* After the row: 2 dialers.
XraySubUpdate ==
    /\ \E i \in DOMAIN subs, n \in SubNames \ Range(subs), k \in Stages(2) :
         /\ subs' = [subs EXCEPT ![i] = n]
         /\ xray' = IF k >= 2 THEN renameDialerRef(xray, Ref("xraysub", subs[i]), Ref("xraysub", n))
                    ELSE xray
         /\ torn' = torn \cup (IF k < 2 THEN {"dialer"} ELSE {})
    /\ UNCHANGED <<proxies, sets, binding, engine, rewired>>

XraySubDelete ==
    /\ \E i \in DOMAIN subs :
         /\ mastersReferencingDialer(Ref("xraysub", subs[i])) = {}
         /\ subs' = Restrict(subs, DOMAIN subs \ {i})
    /\ UNCHANGED <<xray, proxies, sets, binding, engine, torn, rewired>>

-----------------------------------------------------------------------------
(* Sets and the rules bound to them. *)

Set(n, m, on) == [name |-> n, members |-> m, on |-> on]
SetNameFree(id, n) == \A s \in DOMAIN sets \ {id} : sets[s].name # n

XraySetsAdd ==
    /\ \E s \in SetIds \ DOMAIN sets, n \in SetNames, m \in MemberLists :
         /\ NamesExist(m)
         /\ SetNameFree(NoId, n)
         /\ sets' = s :> Set(n, m, TRUE) @@ sets
    /\ UNCHANGED <<xray, proxies, subs, binding, engine, torn, rewired>>

\* After the row: 2 rules, 3 Reload.
StoreSet(s, row, k) ==
    LET from == Ref("xrayset", sets[s].name)
        to == Ref("xrayset", row.name)
        S == [sets EXCEPT ![s] = row]
        B == IF k >= 2 THEN RenameInterfaceRef(binding, from, to) ELSE binding
    IN  /\ sets' = S /\ binding' = B
        /\ engine' = IF k >= 3 THEN Reload(B, S, xray) ELSE engine
        /\ torn' = torn \cup (IF k < 2 /\ from # to THEN {"rule"} ELSE {})
                        \cup (IF k < 3 THEN {"engine"} ELSE {})
        /\ UNCHANGED <<xray, proxies, subs, rewired>>

XraySetsUpdate ==
    \E s \in DOMAIN sets, n \in SetNames, m \in MemberLists, on \in BOOLEAN, k \in Stages(3) :
        /\ NamesExist(m)
        /\ SetNameFree(s, n)
        /\ StoreSet(s, Set(n, m, on), k)

XraySetsSetEnabled ==
    \E s \in DOMAIN sets, k \in Stages(3) : StoreSet(s, [sets[s] EXCEPT !.on = ~@], k)

XraySetsDelete ==
    /\ \E s \in DOMAIN sets :
         /\ rulesReferencing(Ref("xrayset", sets[s].name)) = {}
         /\ sets' = Restrict(sets, DOMAIN sets \ {s})
    /\ UNCHANGED <<xray, proxies, subs, binding, engine, torn, rewired>>

\* A rule is added, edited or deleted: its names are checked, it is stored
\* and the engine reloads.
StoreRule ==
    /\ \E r \in BoundRules, b \in Bindings :
         /\ NamesExist(b)
         /\ LET B == [binding EXCEPT ![r] = b]
            IN  binding' = B /\ engine' = Reload(B, sets, xray)
    /\ UNCHANGED <<xray, proxies, subs, sets, torn, rewired>>

-----------------------------------------------------------------------------
OutInit ==
    /\ xray = << >> /\ proxies = << >> /\ subs = << >> /\ sets = << >>
    /\ binding = [r \in BoundRules |-> {}] /\ engine = [r \in BoundRules |-> {}]
    /\ torn = {} /\ rewired = FALSE

OutNext ==
    \/ XrayAdd \/ XrayUpdate \/ XraySetEnabled \/ XrayDelete \/ bulkEditDialer
    \/ ProxiesAdd \/ ProxiesUpdate \/ ProxiesDelete
    \/ XraySubAdd \/ XraySubUpdate \/ XraySubDelete
    \/ XraySetsAdd \/ XraySetsUpdate \/ XraySetsSetEnabled \/ XraySetsDelete
    \/ StoreRule

OutSpec == OutInit /\ [][OutNext]_outVars

-----------------------------------------------------------------------------
(* Properties. *)

\* No name is left without its row: what the checks, the cascades and the
\* refusals of the handlers are for.  It is said of every holder of names but the ones a failed cascade did not
\* reach, and not of a dialer's proxies, which no handler looks after.
NamesResolve ==
    /\ "rule" \notin torn => \A r \in BoundRules : binding[r] \subseteq Existing
    /\ "set" \notin torn => \A s \in DOMAIN sets : sets[s].members \subseteq Existing
    /\ "engine" \notin torn => \A r \in BoundRules : engine[r] \subseteq Existing
    /\ "dialer" \notin torn =>
         \A i \in DOMAIN xray : xray[i].dialer \subseteq Existing \cup Refs("proxy", ProxyNames)

NoCycle == \A n \in EntryNames : ~CycleFrom(n, xray)

\* No sequence of additions, updates, renames and bulk edits makes an entry
\* dial through itself, as long as no update changes a name and a dialer at
\* once.
DialersAcyclic == ~rewired => NoCycle

\* What the comment above DetectDialerCycle says it is used for: "to reject a
\* dialer that would route an entry's transport through itself, directly or
\* transitively".
NoDialerCycle == NoCycle

=============================================================================
