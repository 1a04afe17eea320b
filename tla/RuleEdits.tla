----------------------------- MODULE RuleEdits ------------------------------
(***************************************************************************)
(* Rule edits against DNS traffic: the IPC handlers of daemon/handlers.go  *)
(* that change rules, the decision engine's cached rule list, and the two  *)
(* tables a routed answer leaves behind (routing.Manager, proxy.Table).    *)
(*                                                                         *)
(* A handler is a straight line of calls, each atomic by itself (one SQL   *)
(* statement, one locked map update), with DNS queries, sweeps and other   *)
(* handlers running between any two of them.  It is modelled as the list   *)
(* of calls still to make.  Calls on the route manager are atomic here;    *)
(* module RouteManager takes them apart.                                   *)
(*                                                                         *)
(* Each domain rule stands for the name it matches and each rule leads to  *)
(* one destination; which rule wins for a name is module RuleIndex.  TTLs  *)
(* are abstracted: a swept entry is one whose time is up.                  *)
(***************************************************************************)
EXTENDS Integers, Sequences, FiniteSets, SequencesExt

CONSTANTS
  DomainRules, IPRules,   \* rule IDs by the kind of their pattern
  Dest,                   \* rule -> address its name resolves to, or its pattern
  Literal, Proxies,       \* targets: a literal interface, proxy or xray names
  Tun,                    \* the daemon's utun, where proxied destinations go
  Editors,                \* goroutines serving IPC requests
  Resolvers,              \* goroutines serving DNS queries
  Requests,               \* which requests arrive
  MaxEdits,               \* bound on the number of requests
  WritesMayFail,          \* whether a SQL write may fail
  Block,                  \* target of a rule that routes nothing (block, allow)
  None

Rules   == DomainRules \cup IPRules
Targets == {Literal, Block} \cup Proxies
Dests   == {Dest[r] : r \in Rules}
Row     == [target : Targets, enabled : BOOLEAN]
Route   == [iface : {Literal, Tun}, rule : Rules, static : BOOLEAN]
Mapping == [proxy : Proxies, rule : Rules]
Calls   == {"insert", "disable", "get", "put", "drop", "unroute", "unmap",
            "list", "publish", "pin"}
Call    == [do : Calls, rule : Rules \cup {None}, row : Row \cup {None},
            strict : BOOLEAN]

VARIABLES
  rules,        \* table rules: ID -> row
  cache,        \* Engine.cache
  routes,       \* Manager.routes: destination -> route
  table,        \* Table.byIP: destination -> mapping
  todo,         \* per editor: the calls its handler has still to make
  listed,       \* per editor: the rule list it read last
  edits,        \* number of requests so far
  switchedOn,   \* history: rules a group switch enabled since static routes were pinned
  alone,        \* history: the editor of the last request, unless another was
                \* being served meanwhile or the request was given up
  query         \* per resolver: the routing decision it is carrying out

tables == <<routes, table>>
editor == <<todo, listed, edits, switchedOn, alone>>
vars   == <<rules, cache, tables, editor, query>>

NoRules == [r \in Rules |-> None]
Active(list, r) == list[r] # None /\ list[r].enabled
Routed(list, r) == Active(list, r) /\ list[r].target # Block

(* proxy: and xray: bindings go to the daemon's utun.                       *)
IfaceOf(target) == IF target \in Proxies THEN Tun ELSE target

TypeOK ==
  /\ rules \in [Rules -> Row \cup {None}] /\ cache \in [Rules -> Row \cup {None}]
  /\ routes \in [Dests -> Route \cup {None}] /\ table \in [Dests -> Mapping \cup {None}]
  /\ todo \in [Editors -> Seq(Call)]
  /\ listed \in [Editors -> [Rules -> Row \cup {None}]]
  /\ edits \in 0 .. MaxEdits /\ switchedOn \subseteq Rules /\ alone \in Editors \cup {None}
  /\ query \in [Resolvers -> {None} \cup
       [rule : DomainRules, target : Targets \ {Block}, at : {"install", "record"}]]

StaticRoute(list, r) == [iface |-> IfaceOf(list[r].target), rule |-> r, static |-> TRUE]

(* The routes after InstallStatic for every routing IP rule of a list.      *)
Pinned(before, list) ==
  [d \in Dests |->
     LET owners == {r \in IPRules : Dest[r] = d /\ Routed(list, r)}
     IN  IF owners = {} THEN before[d] ELSE StaticRoute(list, CHOOSE r \in owners : TRUE)]

(* Startup loads the stored rules and pins the IP rules among them before   *)
(* the listeners are up.                                                    *)
Init ==
  /\ rules \in [Rules -> Row \cup {None}] /\ cache = rules
  /\ routes = Pinned([d \in Dests |-> None], rules)
  /\ table = [d \in Dests |-> None]
  /\ todo = [e \in Editors |-> << >>] /\ listed = [e \in Editors |-> NoRules]
  /\ edits = 0 /\ switchedOn = {} /\ alone = None
  /\ query = [q \in Resolvers |-> None]

-----------------------------------------------------------------------------
(* The handlers, as lists of calls.  A strict call that fails ends its      *)
(* handler; one that is not strict is skipped together with what the        *)
(* handler would have done next for that rule.                              *)
DoFor(call, r, row, strict) == [do |-> call, rule |-> r, row |-> row, strict |-> strict]
Do(call) == DoFor(call, None, None, TRUE)

(* Unpin with a bug: only the mappings are flushed.                         *)
UnpinMappings(r) == <<DoFor("unmap", r, None, TRUE)>>

Unpin(r)  == <<DoFor("unroute", r, None, TRUE), DoFor("unmap", r, None, TRUE)>>
Reload    == <<Do("list"), Do("publish")>>
Reconcile == <<Do("list"), Do("pin")>>

(* Create cannot insert a disabled row, so Store.Add follows up with an     *)
(* update.                                                                  *)
AddRule(r, row) ==
  <<DoFor("insert", r, [row EXCEPT !.enabled = TRUE], TRUE)>>
    \o (IF row.enabled THEN << >> ELSE <<DoFor("disable", r, None, TRUE)>>)
    \o Reload \o Reconcile

(* UpdateRule with a bug: the new row's static route is not installed.      *)
UpdateRuleOnly(r, row) == <<DoFor("put", r, row, TRUE)>> \o Unpin(r) \o Reload

UpdateRule(r, row) ==
  <<DoFor("put", r, row, TRUE)>> \o Unpin(r) \o Reload \o Reconcile

(* DeleteRule with a bug: the engine keeps deciding by the deleted rule.    *)
DeleteRuleOnly(r) == Unpin(r) \o <<DoFor("drop", r, None, TRUE)>>

DeleteRule(r) == Unpin(r) \o <<DoFor("drop", r, None, TRUE)>> \o Reload

(* One pass over the given rules, in some order.                            *)
ForEach(S, Body(_)) == FlattenSeq([i \in 1 .. Cardinality(S) |-> Body(SetToSeq(S)[i])])

BulkUpdate(ids, target) ==
  LET retarget(r) == <<DoFor("get", r, [target |-> target, enabled |-> TRUE], TRUE)>> \o Unpin(r)
  IN  ForEach(ids, retarget) \o Reload \o Reconcile

GroupsDeleteRules ==
  LET ids == {r \in Rules : rules[r] # None}
      delete(r) == Unpin(r) \o <<DoFor("drop", r, None, FALSE)>>
  IN  ForEach(ids, delete) \o Reload

(* The rows come from the list read when the request arrives.  Disabled     *)
(* rules lose their routes and mappings; enabled ones get a reload only.    *)
GroupsSetEnabled(on) ==
  LET ids == {r \in Rules : rules[r] # None /\ rules[r].enabled # on}
      toggle(r) == <<DoFor("put", r, [rules[r] EXCEPT !.enabled = on], FALSE)>>
                     \o (IF on THEN << >> ELSE Unpin(r))
  IN  ForEach(ids, toggle) \o Reload

Programs ==
  UNION {
    {AddRule(r, row)    : r \in IF "add" \in Requests THEN Rules ELSE {}, row \in Row},
    {UpdateRule(r, row) : r \in IF "update" \in Requests THEN Rules ELSE {}, row \in Row},
    {DeleteRule(r)      : r \in IF "delete" \in Requests THEN Rules ELSE {}},
    {BulkUpdate(Rules, t) : t \in IF "bulk" \in Requests THEN Targets ELSE {}},
    IF "deleteGroup" \in Requests THEN {GroupsDeleteRules} ELSE {},
    IF "enableGroup" \in Requests THEN {GroupsSetEnabled(TRUE)} ELSE {},
    IF "disableGroup" \in Requests THEN {GroupsSetEnabled(FALSE)} ELSE {} }

Request(e) ==
  /\ todo[e] = << >> /\ edits < MaxEdits
  /\ edits' = edits + 1
  /\ alone' = IF \A other \in Editors : todo[other] = << >> THEN e ELSE None
  /\ \E p \in Programs : todo' = [todo EXCEPT ![e] = p]
  /\ UNCHANGED <<rules, cache, tables, listed, switchedOn, query>>

-----------------------------------------------------------------------------
(* The calls.                                                               *)
Current(e) == Head(todo[e])
Doing(e, call) == todo[e] # << >> /\ Current(e).do = call
Continue(e) == todo' = [todo EXCEPT ![e] = Tail(@)] /\ UNCHANGED alone
Fail(e) ==
  /\ todo' = [todo EXCEPT ![e] =
       IF Current(e).strict THEN << >>
       ELSE SelectSeq(Tail(@), LAMBDA c : c.rule # Current(e).rule)]
  /\ alone' = IF Current(e).strict THEN None ELSE alone

(* A SQL write: it fails when the row is not as the statement needs it, or  *)
(* when the database does.                                                  *)
Write(e, possible, row) ==
  \/ /\ possible
     /\ rules' = [rules EXCEPT ![Current(e).rule] = row]
     /\ Continue(e)
  \/ /\ ~ possible \/ WritesMayFail
     /\ Fail(e) /\ UNCHANGED rules

Insert(e) ==
  /\ Doing(e, "insert") /\ Write(e, rules[Current(e).rule] = None, Current(e).row)
  /\ UNCHANGED <<cache, tables, listed, edits, switchedOn, query>>

Disable(e) ==
  /\ Doing(e, "disable")
  /\ IF rules[Current(e).rule] = None THEN Continue(e) /\ UNCHANGED rules
     ELSE Write(e, TRUE, [rules[Current(e).rule] EXCEPT !.enabled = FALSE])
  /\ UNCHANGED <<cache, tables, listed, edits, switchedOn, query>>

Put(e) ==
  /\ Doing(e, "put") /\ Write(e, rules[Current(e).rule] # None, Current(e).row)
  /\ switchedOn' = IF ~ Current(e).strict /\ Current(e).row.enabled
                   THEN switchedOn \cup {Current(e).rule} ELSE switchedOn
  /\ UNCHANGED <<cache, tables, listed, edits, query>>

Drop(e) ==
  /\ Doing(e, "drop") /\ Write(e, rules[Current(e).rule] # None, None)
  /\ UNCHANGED <<cache, tables, listed, edits, switchedOn, query>>

(* BulkUpdate reads the row it is about to retarget; one that is gone is    *)
(* skipped.                                                                 *)
Get(e) ==
  /\ Doing(e, "get")
  /\ LET r == Current(e).rule IN
     todo' = [todo EXCEPT ![e] =
       IF rules[r] = None THEN SelectSeq(Tail(@), LAMBDA c : c.rule # r)
       ELSE <<DoFor("put", r, [Current(e).row EXCEPT !.enabled = rules[r].enabled], TRUE)>>
              \o Tail(@)]
  /\ UNCHANGED <<rules, cache, tables, listed, edits, switchedOn, alone, query>>

(* Manager.RemoveByRule and Table.RemoveByRule.                             *)
Unroute(e) ==
  /\ Doing(e, "unroute") /\ Continue(e)
  /\ routes' = [d \in Dests |-> IF routes[d] # None /\ routes[d].rule = Current(e).rule
                                THEN None ELSE routes[d]]
  /\ UNCHANGED <<rules, cache, table, listed, edits, switchedOn, query>>

Unmap(e) ==
  /\ Doing(e, "unmap") /\ Continue(e)
  /\ table' = [d \in Dests |-> IF table[d] # None /\ table[d].rule = Current(e).rule
                               THEN None ELSE table[d]]
  /\ UNCHANGED <<rules, cache, routes, listed, edits, switchedOn, query>>

(* Store.List, then either Engine.Reload's cache.Store or the installs of   *)
(* reconcileIPRoutes.                                                       *)
List(e) ==
  /\ Doing(e, "list") /\ Continue(e)
  /\ listed' = [listed EXCEPT ![e] = rules]
  /\ UNCHANGED <<rules, cache, tables, edits, switchedOn, query>>

Publish(e) ==
  /\ Doing(e, "publish") /\ Continue(e)
  /\ cache' = listed[e]
  /\ UNCHANGED <<rules, tables, listed, edits, switchedOn, query>>

Pin(e) ==
  /\ Doing(e, "pin") /\ Continue(e)
  /\ routes' = Pinned(routes, listed[e]) /\ switchedOn' = {}
  /\ UNCHANGED <<rules, cache, table, listed, edits, query>>

-----------------------------------------------------------------------------
(* A DNS query for the name of a domain rule.  Only a routing decision      *)
(* leaves anything behind; block answers NXDOMAIN, allow just forwards.     *)
Decide(q, r) ==
  /\ query[q] = None /\ Routed(cache, r)
  /\ query' = [query EXCEPT ![q] =
       [rule |-> r, target |-> cache[r].target, at |-> "install"]]
  /\ UNCHANGED <<rules, cache, tables, editor>>

(* The route goes in, or fails to and the answer is withheld.               *)
Install(q) ==
  /\ query[q] # None /\ query[q].at = "install"
  /\ routes' = [routes EXCEPT ![Dest[query[q].rule]] =
       [iface |-> IfaceOf(query[q].target), rule |-> query[q].rule, static |-> FALSE]]
  /\ query' = [query EXCEPT ![q] =
       IF query[q].target \in Proxies THEN [@ EXCEPT !.at = "record"] ELSE None]
  /\ UNCHANGED <<rules, cache, table, editor>>

InstallFails(q) ==
  /\ query[q] # None /\ query[q].at = "install"
  /\ query' = [query EXCEPT ![q] = None]
  /\ UNCHANGED <<rules, cache, tables, editor>>

(* Table.Record, then the answer.                                           *)
Record(q) ==
  /\ query[q] # None /\ query[q].at = "record"
  /\ table' = [table EXCEPT ![Dest[query[q].rule]] =
       [proxy |-> query[q].target, rule |-> query[q].rule]]
  /\ query' = [query EXCEPT ![q] = None]
  /\ UNCHANGED <<rules, cache, routes, editor>>

(* The sweep ticker takes a route or a mapping whose time is up.            *)
SweepRoute(d) ==
  /\ routes[d] # None /\ ~ routes[d].static
  /\ routes' = [routes EXCEPT ![d] = None]
  /\ UNCHANGED <<rules, cache, table, editor, query>>

SweepMapping(d) ==
  /\ table[d] # None
  /\ table' = [table EXCEPT ![d] = None]
  /\ UNCHANGED <<rules, cache, routes, editor, query>>

EditorStep(e) ==
  \/ Insert(e) \/ Disable(e) \/ Put(e) \/ Drop(e) \/ Get(e)
  \/ Unroute(e) \/ Unmap(e) \/ List(e) \/ Publish(e) \/ Pin(e)

Next ==
  \/ \E e \in Editors : Request(e) \/ EditorStep(e)
  \/ \E q \in Resolvers :
       (\E r \in DomainRules : Decide(q, r)) \/ Install(q) \/ InstallFails(q) \/ Record(q)
  \/ \E d \in Dests : SweepRoute(d) \/ SweepMapping(d)

Spec == Init /\ [][Next]_vars

(* Handlers run to their end, queries are carried out, and a route or a     *)
(* mapping is swept in the end (no flow keeps re-stamping it for ever).     *)
Fairness ==
  /\ \A e \in Editors : WF_vars(EditorStep(e))
  /\ \A q \in Resolvers : WF_vars(Install(q) \/ InstallFails(q) \/ Record(q))
  /\ \A d \in Dests : WF_vars(SweepRoute(d)) /\ WF_vars(SweepMapping(d))

FairSpec == Spec /\ Fairness

-----------------------------------------------------------------------------
(* Properties                                                               *)

EditsDone == \A e \in Editors : todo[e] = << >>

(* Once every request has been answered, queries are decided by the stored  *)
(* rules: Engine.Reload leaves no older list in the cache.                  *)
CacheIsCurrent == EditsDone => cache = rules

(* Two requests at once may publish their lists in the wrong order, and a   *)
(* bulk update whose write fails returns without a reload: either leaves an *)
(* older list in the cache.  It does not last: the next request that is     *)
(* served alone and not given up, of any kind, brings the cache up to date. *)
StaleCacheHeals == EditsDone /\ alone # None => cache = rules

(* What a destination's entries say is what its rule says now.              *)
RouteIsCurrent(d) == routes[d] # None =>
  Routed(rules, routes[d].rule) /\ routes[d].iface = IfaceOf(rules[routes[d].rule].target)
MappingIsCurrent(d) == table[d] # None =>
  Routed(rules, table[d].rule) /\ table[d].proxy = rules[table[d].rule].target

(* Whatever a race between a query and an edit leaves behind does not last: *)
(* once edits stop, stale bindings are swept and never come back.           *)
StaleBindingsVanish == <>[](\A d \in Dests : RouteIsCurrent(d) /\ MappingIsCurrent(d))

(* "installs a kernel route for every enabled IP/CIDR route rule so its     *)
(* destination traffic is pinned" (reconcileIPRoutes): with edits done,     *)
(* every such rule has its static route.  Not so a rule that a group switch *)
(* enabled: that handler reloads the engine and leaves the routes to the    *)
(* next request that reconciles them.                                       *)
IPRulesArePinned ==
  EditsDone => \A r \in IPRules \ switchedOn :
    Routed(rules, r) => routes[Dest[r]] = StaticRoute(rules, r)

(* With edits done, both what queries are decided by and what the kernel    *)
(* routes by follow the stored rules.                                       *)
EditsTakeEffect == CacheIsCurrent /\ IPRulesArePinned
=============================================================================
