----------------------------- MODULE QueryPath ------------------------------
(***************************************************************************)
(* One DNS query from its arrival to its answer (core/dnsproxy/            *)
(* dnsproxy.go): Server.handle, resolveIface, handleFakeIP and             *)
(* installRoutesFor, and the forwarding they rest on (Server.forward and   *)
(* MultiUpstream.Forward).  SetForwarder may swap the upstream list while  *)
(* a query is under way; whether the interface is up and which proxies     *)
(* have a record is whatever the query finds when it looks.                *)
(*                                                                         *)
(* What the pool, the route manager and the proxy table do with a call is  *)
(* modules FakeIPPool, RouteManager and ProxyTable, and queries that run   *)
(* beside each other and beside edits are module RuleEdits; here a call    *)
(* succeeds or fails.  An answer is its rank and the addresses of its A    *)
(* and AAAA records.                                                       *)
(***************************************************************************)
EXTENDS Integers

CONSTANTS
  Forwarders,    \* the upstream lists SetForwarder may be given
  Length,        \* list -> number of its servers
  NoForwarder,   \* before Forward is called
  RealAddresses, \* addresses an upstream may answer with
  FakeAddress,   \* the synthetic address the pool leases to the name
  Upstreams      \* the proxies a proxy: or xray: rule may name

ASSUME ForwarderAssumption == Length \in [Forwarders -> Nat] /\ NoForwarder \notin Forwarders

(* Response outcome ranks, worst to best.                                   *)
rankNone     == 0
rankSoftFail == 1
rankNXDomain == 2
rankNoData   == 3
rankPositive == 4
Ranks == rankNone .. rankPositive

(* A rule's interface field: empty, a literal interface, or names of        *)
(* proxies, which all lead to the daemon's utun.                            *)
NoField   == [to |-> "default", names |-> {}]
Fields    == [to : {"default", "literal"}, names : {{}}]
               \cup [to : {"proxy"}, names : SUBSET Upstreams]
Decisions == [outcome : {"block", "allow"}, field : {NoField}]
               \cup [outcome : {"route"}, field : Fields]
Delivery  == RealAddresses \cup {FakeAddress}

NotSent    == [code |-> -1, addrs |-> {}]
ServFail   == [code |-> rankSoftFail, addrs |-> {}]
NameError  == [code |-> rankNXDomain, addrs |-> {}]
NoRecord   == [code |-> rankNoData, addrs |-> {}]
FirstTurn  == [pass |-> 1, server |-> 1]
NothingYet == [rank |-> rankNone, addrs |-> {}]

VARIABLES
  fakeOn,     \* Server.fakeIP is not nil, fixed
  tunName,    \* Config.ProxyTun is not empty, fixed
  forwarder,  \* Config.Forwarder
  stage,      \* where handle is
  question,   \* [rule, typeA]: the decision for the name, and what is asked
  upstream,   \* the list forward captured
  turn,       \* [pass, server]: the exchange Forward makes next
  reply,      \* Forward's best and bestRank
  pins,       \* the addresses installRoutesFor has pinned for this answer
  mappings,   \* the addresses whose proxies were recorded for it
  sent,       \* what was written to the client
  heard       \* history: what each server said in each pass

server    == <<fakeOn, tunName, forwarder>>
lookup    == <<upstream, turn, reply, heard>>
queryVars == <<server, stage, question, lookup, pins, mappings, sent>>

Routed  == question.rule.field.to # "default"
Proxied == question.rule.field.to = "proxy"

QueryTypeOK ==
  /\ fakeOn \in BOOLEAN /\ tunName \in BOOLEAN /\ forwarder \in Forwarders
  /\ stage \in {"idle", "decided", "resolved", "lease", "exchange", "forwarded", "install",
                "record", "answered"}
  /\ question \in [rule : Decisions, typeA : BOOLEAN]
  /\ upstream \in Forwarders \cup {NoForwarder}
  /\ turn \in [pass : 1 .. 2, server : Nat \ {0}]
  /\ reply \in [rank : Ranks, addrs : SUBSET RealAddresses]
  /\ pins \subseteq Delivery /\ mappings \subseteq Delivery
  /\ sent \in [code : -1 .. rankPositive, addrs : SUBSET Delivery]
  /\ heard \subseteq [pass : 1 .. 2, server : Nat, rank : Ranks]

Fresh ==
  /\ upstream' = NoForwarder /\ turn' = FirstTurn /\ reply' = NothingYet /\ heard' = {}
  /\ pins' = {} /\ mappings' = {} /\ sent' = NotSent

QueryInit ==
  /\ fakeOn \in BOOLEAN /\ tunName \in BOOLEAN /\ forwarder \in Forwarders
  /\ stage = "idle"
  /\ question = [rule |-> [outcome |-> "allow", field |-> NoField], typeA |-> TRUE]
  /\ upstream = NoForwarder /\ turn = FirstTurn /\ reply = NothingYet /\ heard = {}
  /\ pins = {} /\ mappings = {} /\ sent = NotSent

-----------------------------------------------------------------------------
(* handle: the engine decides, and the decision says what happens.          *)
Arrive(rule, typeA) ==
  /\ stage \in {"idle", "answered"}
  /\ stage' = "decided" /\ question' = [rule |-> rule, typeA |-> typeA]
  /\ Fresh
  /\ UNCHANGED server

Reply(message) ==
  /\ stage' = "answered" /\ sent' = message
  /\ UNCHANGED <<server, question, lookup, pins, mappings>>

Proceed(to) ==
  /\ stage' = to
  /\ UNCHANGED <<server, question, lookup, pins, mappings, sent>>

(* forward captures the list under the server's lock.                       *)
BeginForward ==
  /\ stage' = "exchange" /\ upstream' = forwarder
  /\ UNCHANGED <<server, question, turn, reply, heard, pins, mappings, sent>>

Blocked == stage = "decided" /\ question.rule.outcome = "block" /\ Reply(NameError)
Allowed == stage = "decided" /\ question.rule.outcome = "allow" /\ BeginForward

(* resolveIface: a proxy: field needs the utun and one name with a record   *)
(* (HasProxy) among the proxies stored at this moment.                      *)
ResolveIface(stored) ==
  /\ stage = "decided" /\ question.rule.outcome = "route"
  /\ IF Proxied /\ ~tunName THEN Reply(ServFail)
     ELSE IF Proxied /\ question.rule.field.names \cap stored = {} THEN Reply(NameError)
     ELSE Proceed("resolved")

(* The empty interface is always up.                                        *)
IsUp(link) == ~Routed \/ link

CheckInterface(link) ==
  /\ stage = "resolved"
  /\ IF ~IsUp(link) THEN Reply(NameError)
     ELSE IF fakeOn /\ Proxied THEN Proceed("lease")
     ELSE BeginForward

(* handleFakeIP: only an A question gets an address; a pool that is full or *)
(* a route that will not install is a failure.                              *)
AnswerFake ==
  /\ stage = "lease" /\ question.typeA
  /\ stage' = "answered" /\ sent' = [code |-> rankPositive, addrs |-> {FakeAddress}]
  /\ pins' = {FakeAddress} /\ mappings' = {FakeAddress}
  /\ UNCHANGED <<server, question, lookup>>

RefuseFake ==
  /\ stage = "lease"
  /\ Reply(IF question.typeA THEN ServFail ELSE NoRecord)

-----------------------------------------------------------------------------
(* MultiUpstream.Forward: one exchange after the other.                     *)
Servers == 1 .. Length[upstream]

(* Forward as it was: the first reply is final, whatever it says.           *)
OutranksFirst(rank) == reply.rank = rankNone /\ rank > rankNone

Outranks(rank) == rank > reply.rank

(* The server answers (over TCP where the UDP reply was truncated), or the  *)
(* exchange fails: a transport error, or the five seconds are over.         *)
(* Addresses may come with any code; NODATA is the answer without a record. *)
Exchange(rank, addrs) ==
  /\ stage = "exchange" /\ turn.server \in Servers
  /\ addrs # {} => rank \notin {rankNone, rankNoData}
  /\ heard' = heard \cup {[pass |-> turn.pass, server |-> turn.server, rank |-> rank]}
  /\ reply' = IF Outranks(rank) THEN [rank |-> rank, addrs |-> addrs] ELSE reply
  /\ turn' = [turn EXCEPT !.server = @ + 1]
  /\ stage' = IF Outranks(rank) /\ rank = rankPositive THEN "forwarded" ELSE "exchange"
  /\ UNCHANGED <<server, question, upstream, pins, mappings, sent>>

(* At the end of the list: again, once, when nothing better than a soft     *)
(* failure was heard.                                                       *)
EndOfList ==
  /\ stage = "exchange" /\ turn.server \notin Servers
  /\ IF turn.pass = 1 /\ reply.rank <= rankSoftFail
     THEN turn' = [pass |-> 2, server |-> 1] /\ UNCHANGED stage
     ELSE stage' = "forwarded" /\ UNCHANGED turn
  /\ UNCHANGED <<server, question, upstream, reply, heard, pins, mappings, sent>>

-----------------------------------------------------------------------------
(* Back in handle.                                                          *)
Delivered == [code |-> reply.rank, addrs |-> reply.addrs]

Forwarded ==
  /\ stage = "forwarded"
  /\ IF reply.rank = rankNone THEN Reply(ServFail)
     ELSE IF question.rule.outcome = "route" THEN Proceed("install")
     ELSE Reply(Delivered)

(* installRoutesFor: address by address; one failure withholds the answer.  *)
InstallRoute(a) ==
  /\ stage = "install" /\ Routed /\ a \in reply.addrs \ pins
  /\ pins' = pins \cup {a}
  /\ UNCHANGED <<server, stage, question, lookup, mappings, sent>>

InstallFails ==
  /\ stage = "install" /\ Routed /\ reply.addrs \ pins # {}
  /\ Reply(NameError)

(* installRoutesFor giving up at the first failure, its error unread.       *)
RoutesInstalledAny ==
  /\ stage = "install"
  /\ IF Proxied THEN Proceed("record") ELSE Reply(Delivered)

RoutesInstalled ==
  /\ stage = "install"
  /\ ~Routed \/ reply.addrs \subseteq pins
  /\ IF Proxied THEN Proceed("record") ELSE Reply(Delivered)

(* recordProxyMapping, then the answer.                                     *)
RecordMapping ==
  /\ stage = "record"
  /\ mappings' = reply.addrs
  /\ stage' = "answered" /\ sent' = Delivered
  /\ UNCHANGED <<server, question, lookup, pins>>

-----------------------------------------------------------------------------
SetForwarder ==
  /\ \E l \in Forwarders : l # forwarder /\ forwarder' = l
  /\ UNCHANGED <<fakeOn, tunName, stage, question, lookup, pins, mappings, sent>>

QueryNext ==
  \/ \E rule \in Decisions, typeA \in BOOLEAN : Arrive(rule, typeA)
  \/ Blocked \/ Allowed
  \/ \E stored \in SUBSET Upstreams : ResolveIface(stored)
  \/ \E link \in BOOLEAN : CheckInterface(link)
  \/ AnswerFake \/ RefuseFake
  \/ \E rank \in Ranks, addrs \in SUBSET RealAddresses : Exchange(rank, addrs)
  \/ EndOfList \/ Forwarded
  \/ \E a \in RealAddresses : InstallRoute(a)
  \/ InstallFails \/ RoutesInstalled \/ RecordMapping
  \/ SetForwarder

QuerySpec == QueryInit /\ [][QueryNext]_queryVars

-----------------------------------------------------------------------------
(* Properties                                                               *)

Heard(pass) == {h \in heard : h.pass = pass}
AllAsked(pass) == \A s \in Servers : \E h \in Heard(pass) : h.server = s

(* Forward "returns the BEST answer by outcome rank": no server of the list *)
(* it captured said better, whatever their order and however often the list *)
(* is swapped meanwhile; short of a real answer every server was asked, and *)
(* asked twice when nothing but soft failures came back; and a definitive   *)
(* negative is not asked for again.                                         *)
BestReplyWins ==
  upstream # NoForwarder /\ stage # "exchange" =>
    /\ \A h \in heard : h.server \in Servers /\ h.rank <= reply.rank
    /\ reply.rank = rankNone \/ \E h \in heard : h.rank = reply.rank
    /\ reply.rank < rankPositive => AllAsked(1)
    /\ reply.rank <= rankSoftFail => AllAsked(2)
    /\ Heard(2) # {} => \A h \in Heard(1) : h.rank <= rankSoftFail

(* handle fails closed: an address reaches the client of a routed name only *)
(* after it was pinned to the rule's interface and, for a proxy, recorded   *)
(* with its proxies; a blocked name and one that is answered with a         *)
(* synthetic address are never asked for upstream.                          *)
RoutesFailClosed ==
  stage = "answered" =>
    /\ sent # NotSent
    /\ question.rule.outcome = "block" => sent = NameError /\ heard = {}
    /\ Routed => sent.addrs \subseteq pins
    /\ Proxied => sent.addrs \subseteq mappings
    /\ Proxied /\ fakeOn => heard = {} /\ sent.addrs \subseteq {FakeAddress}

AnswersAreEarned == BestReplyWins /\ RoutesFailClosed
=============================================================================
