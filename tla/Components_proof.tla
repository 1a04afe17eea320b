-------------------------- MODULE Components_proof --------------------------
(* Proofs about three components of the daemon that share no state: the     *)
(* table of proxied hosts (ProxyTable), the answer to a query (QueryPath)   *)
(* and the update of the geo files (GeoUpdate).                             *)
EXTENDS ProxyTable, QueryPath, GeoUpdate, TLAPS

TableInv == ProxyTypeOK /\ IndexIsExact

(* Record: the address leaves the index of its old rule and enters that of  *)
(* the new one.                                                             *)
LEMMA RecordKeepsInv ==
  ASSUME TableInv, NEW ip \in IPs, NEW h \in Hostnames, NEW p \in Proxies,
         NEW ttl \in TTLs, NEW r \in RuleIDs, Record(ip, h, p, ttl, r)
  PROVE  TableInv'
<1> DEFINE e == [proxyNames |-> p, hostname |-> h,
                 expiresAt |-> clock + Max2(ttl, MinTTL), ruleID |-> r]
<1>1. e \in Entry
  BY LifetimeAssumption DEF TableInv, ProxyTypeOK, Entry, Max2
<1>2. proxiesOf' = [proxiesOf EXCEPT ![ip] = e] /\ clock' = clock
  BY DEF Record
<1>3. byRule' = [Detached(ip, r) EXCEPT ![r] = @ \cup {ip}]
  BY DEF Record
<1>4. Detached(ip, r) \in [RuleIDs -> SUBSET IPs]
  BY DEF Detached, TableInv, ProxyTypeOK, Entry
<1>5. ProxyTypeOK'
  BY <1>1, <1>2, <1>3, <1>4 DEF TableInv, ProxyTypeOK
<1>6. \A s \in RuleIDs : Detached(ip, r)[s] \ {ip} = byRule[s] \ {ip}
  BY DEF Detached, TableInv, ProxyTypeOK, Entry
<1>7. \A s \in RuleIDs : s # r => ip \notin Detached(ip, r)[s]
  BY DEF Detached, TableInv, ProxyTypeOK, IndexIsExact, Entry
<1>8. IndexIsExact'
  <2> SUFFICES ASSUME NEW a \in IPs, NEW s \in RuleIDs
               PROVE  (a \in byRule[s] <=> proxiesOf[a] # Unmapped /\ proxiesOf[a].ruleID = s)'
    BY DEF IndexIsExact
  <2>1. CASE a = ip
    <3>1. proxiesOf'[a] = e /\ e # Unmapped /\ e.ruleID = r
      BY <1>1, <1>2, <2>1, UnmappedAssumption DEF TableInv, ProxyTypeOK
    <3>2. a \in byRule'[s] <=> s = r
      BY <1>3, <1>4, <1>7, <2>1
    <3> QED BY <3>1, <3>2
  <2>2. CASE a # ip
    <3>1. proxiesOf'[a] = proxiesOf[a]
      BY <1>2, <2>2 DEF TableInv, ProxyTypeOK
    <3>2. a \in byRule'[s] <=> a \in byRule[s]
      BY <1>3, <1>4, <1>6, <2>2
    <3> QED BY <3>1, <3>2 DEF TableInv, IndexIsExact
  <2> QED BY <2>1, <2>2
<1> QED BY <1>5, <1>8 DEF TableInv

(* Touch changes an expiry only.                                            *)
LEMMA TouchKeepsInv ==
  ASSUME TableInv, NEW ip \in IPs, Touch(ip)
  PROVE  TableInv'
<1> DEFINE e == [proxiesOf[ip] EXCEPT !.expiresAt = clock + KeepaliveTTL]
<1>1. proxiesOf[ip] \in Entry /\ e \in Entry /\ e.ruleID = proxiesOf[ip].ruleID
  BY LifetimeAssumption DEF Touch, TableInv, ProxyTypeOK, Entry
<1>2. proxiesOf' = [proxiesOf EXCEPT ![ip] = e] /\ UNCHANGED <<clock, byRule>>
  BY DEF Touch
<1> QED BY <1>1, <1>2, UnmappedAssumption DEF TableInv, ProxyTypeOK, IndexIsExact

(* RemoveByRule takes the same addresses out of both maps.                  *)
LEMMA RemoveByRuleKeepsInv ==
  ASSUME TableInv, NEW r \in RuleIDs, RemoveByRule(r)
  PROVE  TableInv'
<1>1. ProxyTypeOK'
  BY DEF TableInv, ProxyTypeOK, RemoveByRule
<1>2. IndexIsExact'
  BY DEF TableInv, ProxyTypeOK, IndexIsExact, RemoveByRule
<1> QED BY <1>1, <1>2 DEF TableInv

(* So does the sweep.                                                       *)
LEMMA SweepKeepsInv ==
  ASSUME TableInv, SweepExpired
  PROVE  TableInv'
<1>1. ProxyTypeOK'
  BY DEF TableInv, ProxyTypeOK, SweepExpired
<1>2. IndexIsExact'
  BY DEF TableInv, ProxyTypeOK, IndexIsExact, SweepExpired, Expired
<1> QED BY <1>1, <1>2 DEF TableInv

(* The empty table satisfies the invariant, ...                             *)
LEMMA TableInitInv == ProxyInit => TableInv
  BY DEF ProxyInit, TableInv, ProxyTypeOK, IndexIsExact

(* ... and every step preserves it.                                         *)
LEMMA NextKeepsInv == TableInv /\ [ProxyNext]_proxyVars => TableInv'
<1> SUFFICES ASSUME TableInv, [ProxyNext]_proxyVars PROVE TableInv'
  OBVIOUS
<1>1. CASE ClockTick
  BY <1>1, ClockAssumption DEF TableInv, ProxyTypeOK, IndexIsExact, ClockTick
<1>2. CASE SweepExpired
  BY <1>2, SweepKeepsInv
<1>3. CASE \E r \in RuleIDs : RemoveByRule(r)
  BY <1>3, RemoveByRuleKeepsInv
<1>4. CASE \E ip \in IPs : Touch(ip)
  BY <1>4, TouchKeepsInv
<1>5. CASE \E ip \in IPs, h \in Hostnames, p \in Proxies, ttl \in TTLs, r \in RuleIDs :
             Record(ip, h, p, ttl, r)
  BY <1>5, RecordKeepsInv
<1>6. CASE UNCHANGED proxyVars
  BY <1>6 DEF proxyVars, TableInv, ProxyTypeOK, IndexIsExact
<1> QED BY <1>1, <1>2, <1>3, <1>4, <1>5, <1>6 DEF ProxyNext

(* The table is well typed and its rule index is exact at all times: what   *)
(* RemoveByRule deletes is what the rule holds, however addresses change    *)
(* hands.                                                                   *)
THEOREM IndexCorrect == ProxySpec => [](ProxyTypeOK /\ IndexIsExact)
<1>1. ProxySpec => []TableInv
  BY TableInitInv, NextKeepsInv, PTL DEF ProxySpec
<1> QED BY <1>1, PTL DEF TableInv

(* A mapping that connections can still look up is lost only to the removal *)
(* of its own rule.                                                         *)
THEOREM MappingsKept == ProxySpec => LostOnlyToOwnRule
<1> DEFINE Kept == \A ip \in IPs : Lookup(ip) # Unmapped /\ proxiesOf'[ip] = Unmapped =>
                                     RemoveByRule(proxiesOf[ip].ruleID)
<1>1. ASSUME TableInv, [ProxyNext]_proxyVars PROVE [Kept]_proxyVars
  <2> SUFFICES ASSUME ProxyNext, NEW a \in IPs, Lookup(a) # Unmapped, proxiesOf'[a] = Unmapped
               PROVE  RemoveByRule(proxiesOf[a].ruleID)
    BY <1>1
  <2>1. proxiesOf[a] # Unmapped /\ ~ Expired(a) /\ proxiesOf[a] \in Entry
    BY <1>1 DEF Lookup, TableInv, ProxyTypeOK
  <2>2. ~ ClockTick
    BY <2>1 DEF ClockTick
  <2>3. ~ SweepExpired
    BY <2>1 DEF SweepExpired
  <2>4. ASSUME NEW ip \in IPs, Touch(ip) PROVE FALSE
    <3>1. [proxiesOf[ip] EXCEPT !.expiresAt = clock + KeepaliveTTL] \in Entry
      BY <1>1, <2>4, LifetimeAssumption DEF Touch, TableInv, ProxyTypeOK, Entry
    <3> QED BY <1>1, <2>1, <2>4, <3>1, UnmappedAssumption DEF Touch, TableInv, ProxyTypeOK
  <2>5. ASSUME NEW ip \in IPs, NEW h \in Hostnames, NEW p \in Proxies,
               NEW ttl \in TTLs, NEW r \in RuleIDs, Record(ip, h, p, ttl, r)
        PROVE  FALSE
    <3>1. proxiesOf'[ip] \in Entry
      BY <1>1, <2>5, LifetimeAssumption DEF Record, TableInv, ProxyTypeOK, Entry, Max2
    <3> QED BY <1>1, <2>1, <2>5, <3>1, UnmappedAssumption DEF Record, TableInv, ProxyTypeOK
  <2>6. PICK r \in RuleIDs : RemoveByRule(r)
    BY <2>2, <2>3, <2>4, <2>5 DEF ProxyNext
  <2>7. a \in byRule[r]
    BY <2>1, <2>6 DEF RemoveByRule
  <2>8. proxiesOf[a].ruleID = r
    BY <1>1, <2>7 DEF TableInv, IndexIsExact
  <2> QED BY <2>6, <2>8
<1>2. ProxySpec => []TableInv
  BY IndexCorrect, PTL DEF TableInv
<1> QED BY <1>1, <1>2, PTL DEF ProxySpec, LostOnlyToOwnRule

-----------------------------------------------------------------------------
(* QueryPath.  Forward is half-way through its list in most states, so the  *)
(* promise is strengthened by what holds there: the best so far is best of  *)
(* what was heard, everybody before the next server was asked in this pass, *)
(* and a second pass began because the first brought nothing definite.      *)
Ranked ==
  /\ \A h \in heard : h.server \in Servers /\ h.rank <= reply.rank
  /\ reply.rank = rankNone \/ \E h \in heard : h.rank = reply.rank
  /\ Heard(2) # {} => \A h \in Heard(1) : h.rank <= rankSoftFail

Asking ==
  /\ reply.rank < rankPositive
  /\ turn.server <= Length[upstream] + 1
  /\ \A s \in Servers : s < turn.server => \E h \in Heard(turn.pass) : h.server = s
  /\ turn.pass = 1 => Heard(2) = {}
  /\ turn.pass = 2 => AllAsked(1) /\ \A h \in Heard(1) : h.rank <= rankSoftFail

Finished ==
  /\ reply.rank < rankPositive => AllAsked(1)
  /\ reply.rank <= rankSoftFail => AllAsked(2)

LookupOK ==
  /\ upstream = NoForwarder =>
       /\ turn = FirstTurn /\ reply = NothingYet /\ heard = {}
       /\ stage \in {"idle", "decided", "resolved", "lease", "answered"}
  /\ upstream # NoForwarder =>
       /\ stage \in {"exchange", "forwarded", "install", "record", "answered"}
       /\ Ranked
       /\ IF stage = "exchange" THEN Asking ELSE Finished

(* What was pinned and recorded so far, and which decision led where.       *)
Pinning ==
  /\ stage # "answered" => mappings = {} /\ sent = NotSent
  /\ stage \in {"idle", "decided", "resolved", "lease", "exchange", "forwarded"} => pins = {}
  /\ stage \in {"resolved", "lease", "install", "record"} => question.rule.outcome = "route"
  /\ stage \in {"lease", "record"} => Proxied
  /\ stage = "lease" => fakeOn
  /\ stage = "record" => reply.addrs \subseteq pins
  /\ question.rule.outcome = "block" => upstream = NoForwarder
  /\ Proxied /\ fakeOn => upstream = NoForwarder
  /\ RoutesFailClosed

QueryInv == QueryTypeOK /\ LookupOK /\ Pinning

LEMMA QueryInitInv == QueryInit => QueryInv
<1> SUFFICES ASSUME QueryInit PROVE QueryInv
  OBVIOUS
<1>1. QueryTypeOK
  BY DEF QueryInit, QueryTypeOK, Decisions, Fields, NoField, FirstTurn, NothingYet, NotSent, Ranks,
         rankNone, rankPositive
<1>2. LookupOK
  BY DEF QueryInit, LookupOK
<1>3. Pinning
  BY DEF QueryInit, Pinning, Proxied, NoField, RoutesFailClosed
<1> QED
  BY <1>1, <1>2, <1>3 DEF QueryInv

(* The NXDOMAIN a pinned name gets when its interface is down is a reply,   *)
(* and it carries no address.                                               *)
LEMMA NameErrorIs ==
  /\ NameError \in [code : -1 .. rankPositive, addrs : SUBSET Delivery]
  /\ NameError # NotSent
  /\ NameError.addrs = {}
<1>1. rankNXDomain \in -1 .. rankPositive /\ rankNXDomain # -1
  BY SMT DEF rankNXDomain, rankPositive
<1>2. NameError.code = rankNXDomain /\ NameError.addrs = {} /\ NotSent.code = -1
  BY SMT DEF NameError, NotSent
<1>3. NameError \in [code : -1 .. rankPositive, addrs : SUBSET Delivery]
  BY <1>1, SMT DEF NameError
<1> QED
  BY <1>1, <1>2, <1>3, Zenon

(* Everything but Forward: the lookup does not move.                        *)
LEMMA LookupStays ==
  ASSUME LookupOK, UNCHANGED lookup, stage # "exchange", stage' # "exchange",
         upstream = NoForwarder =>
           stage' \in {"idle", "decided", "resolved", "lease", "answered"},
         upstream # NoForwarder =>
           stage' \in {"exchange", "forwarded", "install", "record", "answered"}
  PROVE  LookupOK'
BY DEF LookupOK, lookup, Ranked, Finished, AllAsked, Heard, Servers

LEMMA HandlerInv ==
  ASSUME QueryInv,
         \/ \E rule \in Decisions, typeA \in BOOLEAN : Arrive(rule, typeA)
         \/ \E stored \in SUBSET Upstreams : ResolveIface(stored)
         \/ Blocked \/ RefuseFake \/ AnswerFake
         \/ Forwarded \/ InstallFails \/ RoutesInstalled \/ RecordMapping
         \/ \E a \in RealAddresses : InstallRoute(a)
  PROVE  QueryInv'
<1> USE DEF QueryInv
<1>1. CASE \E rule \in Decisions, typeA \in BOOLEAN : Arrive(rule, typeA)
  <2>1. PICK rule \in Decisions, typeA \in BOOLEAN : Arrive(rule, typeA)
    BY <1>1
  <2>2. QueryTypeOK'
    BY <2>1 DEF Arrive, Fresh, QueryTypeOK, server, FirstTurn, NothingYet, NotSent, Ranks, rankNone,
                rankPositive
  <2>3. LookupOK'
    BY <2>1 DEF Arrive, Fresh, LookupOK
  <2>4. Pinning'
    BY <2>1 DEF Arrive, Fresh, Pinning, RoutesFailClosed
  <2> QED
    BY <2>2, <2>3, <2>4
<1>2. ASSUME NEW message \in [code : -1 .. rankPositive, addrs : SUBSET Delivery],
             Reply(message), stage # "exchange", stage # "idle"
      PROVE  QueryTypeOK' /\ LookupOK'
  <2>1. QueryTypeOK'
    BY <1>2 DEF Reply, QueryTypeOK, server, lookup
  <2>2. LookupOK'
    BY <1>2, LookupStays DEF Reply, LookupOK
  <2> QED
    BY <2>1, <2>2
<1>3. ASSUME NEW to \in {"resolved", "lease", "install", "record"}, Proceed(to),
             stage \in {"decided", "resolved"} => to \in {"resolved", "lease"},
             stage \in {"forwarded", "install"} => to \in {"install", "record"},
             stage \in {"decided", "resolved", "forwarded", "install"}
      PROVE  QueryTypeOK' /\ LookupOK'
  <2>1. QueryTypeOK'
    BY <1>3 DEF Proceed, QueryTypeOK, server, lookup
  <2>2. LookupOK'
    BY <1>3, LookupStays DEF Proceed, LookupOK
  <2> QED
    BY <2>1, <2>2
<1>4. /\ ServFail \in [code : -1 .. rankPositive, addrs : SUBSET Delivery]
      /\ NameError \in [code : -1 .. rankPositive, addrs : SUBSET Delivery]
      /\ NoRecord \in [code : -1 .. rankPositive, addrs : SUBSET Delivery]
      /\ Delivered \in [code : -1 .. rankPositive, addrs : SUBSET Delivery]
  BY DEF ServFail, NameError, NoRecord, Delivered, QueryTypeOK, rankSoftFail, rankNXDomain, rankNoData,
         rankPositive, rankNone, Ranks, Delivery
<1>5. /\ ServFail # NotSent /\ NameError # NotSent /\ NoRecord # NotSent /\ Delivered # NotSent
      /\ ServFail.addrs = {} /\ NameError.addrs = {} /\ NoRecord.addrs = {}
      /\ Delivered.addrs = reply.addrs
  BY DEF ServFail, NameError, NoRecord, Delivered, NotSent, QueryTypeOK, rankSoftFail, rankNXDomain,
         rankNoData, rankPositive, rankNone, Ranks
<1>6. question.rule.outcome # "route" => ~Routed /\ ~Proxied
  BY DEF QueryTypeOK, Decisions, NoField, Routed, Proxied
<1>7. CASE Blocked
  <2>1. Reply(NameError) /\ stage = "decided" /\ question.rule.outcome = "block"
    BY <1>7 DEF Blocked
  <2>2. Pinning'
    BY <2>1, <1>5, <1>6 DEF Reply, server, lookup, Pinning, LookupOK, RoutesFailClosed, Routed, Proxied
  <2> QED
    BY <2>1, <2>2, <1>2, <1>4
<1>8. CASE \E stored \in SUBSET Upstreams : ResolveIface(stored)
  <2>1. stage = "decided" /\ question.rule.outcome = "route"
    BY <1>8 DEF ResolveIface
  <2>2. CASE Reply(ServFail) \/ Reply(NameError)
    <3>1. Pinning'
      BY <2>1, <2>2, <1>5 DEF Reply, server, lookup, Pinning, LookupOK, RoutesFailClosed, Routed, Proxied
    <3> QED
      BY <2>1, <2>2, <3>1, <1>2, <1>4
  <2>3. CASE Proceed("resolved")
    <3>1. Pinning'
      BY <2>1, <2>3 DEF Proceed, server, lookup, Pinning, LookupOK, RoutesFailClosed, Proxied
    <3> QED
      BY <2>1, <2>3, <3>1, <1>3
  <2> QED
    BY <1>8, <2>2, <2>3 DEF ResolveIface
<1>9. CASE RefuseFake
  <2>1. stage = "lease" /\ (Reply(ServFail) \/ Reply(NoRecord))
    BY <1>9 DEF RefuseFake
  <2>2. Pinning'
    BY <2>1, <1>5, ZenonT(30) DEF Reply, server, lookup, Pinning, LookupOK, RoutesFailClosed, Routed, Proxied
  <2> QED
    BY <2>1, <2>2, <1>2, <1>4
<1>10. CASE AnswerFake
  <2>1. QueryTypeOK'
    BY <1>10 DEF AnswerFake, QueryTypeOK, server, lookup, rankPositive, Delivery
  <2>2. LookupOK'
    BY <1>10, LookupStays DEF AnswerFake, LookupOK
  <2>3. Pinning'
    BY <1>10 DEF AnswerFake, server, lookup, Pinning, LookupOK, RoutesFailClosed, Routed, Proxied, NotSent,
                 rankPositive
  <2> QED
    BY <2>1, <2>2, <2>3
<1>11. CASE Forwarded
  <2>1. stage = "forwarded"
    BY <1>11 DEF Forwarded
  <2>2. CASE Reply(ServFail)
    <3>1. Pinning'
      BY <2>1, <2>2, <1>5 DEF Reply, server, lookup, Pinning, LookupOK, RoutesFailClosed, Routed, Proxied
    <3> QED
      BY <2>1, <2>2, <3>1, <1>2, <1>4
  <2>3. CASE question.rule.outcome = "route" /\ Proceed("install")
    <3>1. Pinning'
      BY <2>1, <2>3 DEF Proceed, server, lookup, Pinning, LookupOK, RoutesFailClosed, Proxied
    <3> QED
      BY <2>1, <2>3, <3>1, <1>3
  <2>4. CASE question.rule.outcome # "route" /\ Reply(Delivered)
    <3>1. Pinning'
      BY <2>1, <2>4, <1>5, <1>6
         DEF Reply, server, lookup, Pinning, LookupOK, RoutesFailClosed, Routed, Proxied
    <3> QED
      BY <2>1, <2>4, <3>1, <1>2, <1>4
  <2> QED
    BY <1>11, <2>2, <2>3, <2>4 DEF Forwarded
<1>12. CASE \E a \in RealAddresses : InstallRoute(a)
  <2>1. PICK a \in RealAddresses : InstallRoute(a)
    BY <1>12
  <2>2. QueryTypeOK'
    BY <2>1 DEF InstallRoute, QueryTypeOK, server, lookup, Delivery
  <2>3. LookupOK'
    BY <2>1, LookupStays DEF InstallRoute, LookupOK
  <2>4. Pinning'
    BY <2>1 DEF InstallRoute, server, lookup, Pinning, LookupOK, RoutesFailClosed, Proxied
  <2> QED
    BY <2>2, <2>3, <2>4
<1>13. CASE InstallFails
  <2>1. stage = "install" /\ Reply(NameError)
    BY <1>13 DEF InstallFails
  <2>2. Pinning'
    BY <2>1, <1>5 DEF Reply, server, lookup, Pinning, LookupOK, RoutesFailClosed, Routed, Proxied
  <2> QED
    BY <2>1, <2>2, <1>2, <1>4
<1>14. CASE RoutesInstalled
  <2>1. stage = "install" /\ (~Routed \/ reply.addrs \subseteq pins)
    BY <1>14 DEF RoutesInstalled
  <2>2. CASE Proxied /\ Proceed("record")
    <3>1. Pinning'
      BY <2>1, <2>2 DEF Proceed, server, lookup, Pinning, LookupOK, RoutesFailClosed, Proxied, Routed
    <3> QED
      BY <2>1, <2>2, <3>1, <1>3
  <2>3. CASE ~Proxied /\ Reply(Delivered)
    <3>1. Pinning'
      BY <2>1, <2>3, <1>5 DEF Reply, server, lookup, Pinning, LookupOK, RoutesFailClosed, Routed, Proxied
    <3> QED
      BY <2>1, <2>3, <3>1, <1>2, <1>4
  <2> QED
    BY <1>14, <2>2, <2>3 DEF RoutesInstalled
<1>15. CASE RecordMapping
  <2>1. QueryTypeOK'
    BY <1>15, <1>4 DEF RecordMapping, QueryTypeOK, server, lookup, Delivery
  <2>2. LookupOK'
    BY <1>15, LookupStays DEF RecordMapping, LookupOK
  <2>3. Pinning'
    BY <1>15, <1>5
       DEF RecordMapping, server, lookup, Pinning, LookupOK, RoutesFailClosed, Routed, Proxied
  <2> QED
    BY <2>1, <2>2, <2>3
<1> QED
  BY <1>1, <1>7, <1>8, <1>9, <1>10, <1>11, <1>12, <1>13, <1>14, <1>15

(* Forward, from the capture of the list to its end.                        *)
LEMMA BeginInv ==
  ASSUME QueryInv, BeginForward, stage \in {"decided", "resolved"},
         question.rule.outcome # "block", ~ (Proxied /\ fakeOn)
  PROVE  QueryInv'
<1> USE DEF QueryInv
<1>1. upstream = NoForwarder
  BY DEF LookupOK
<1>2. /\ heard' = {} /\ turn' = FirstTurn /\ reply' = NothingYet /\ stage' = "exchange"
      /\ upstream' \in Forwarders /\ upstream' # NoForwarder
  BY <1>1, ForwarderAssumption DEF LookupOK, BeginForward, QueryTypeOK
<1>3. QueryTypeOK'
  BY <1>2 DEF BeginForward, QueryTypeOK, server
<1>4. Length[upstream'] \in Nat
  BY <1>2, ForwarderAssumption
<1>5. Ranked'
  BY <1>2 DEF Ranked, Heard, NothingYet, rankNone
<1>6. Asking'
  BY <1>2, <1>4 DEF Asking, Heard, NothingYet, FirstTurn, rankNone, rankPositive, Servers
<1>7. LookupOK'
  BY <1>2, <1>5, <1>6 DEF LookupOK
<1>8. Pinning'
  BY <1>2 DEF BeginForward, server, Pinning, RoutesFailClosed, Proxied
<1> QED
  BY <1>3, <1>7, <1>8

LEMMA ExchangeInv ==
  ASSUME QueryInv, NEW rank \in Ranks, NEW addrs \in SUBSET RealAddresses, Exchange(rank, addrs)
  PROVE  QueryInv'
<1> USE DEF QueryInv
<1> DEFINE h0 == [pass |-> turn.pass, server |-> turn.server, rank |-> rank]
<1>1. /\ stage = "exchange" /\ upstream # NoForwarder /\ upstream' = upstream
      /\ turn.server \in Servers /\ heard' = heard \cup {h0}
      /\ turn' = [turn EXCEPT !.server = @ + 1]
  BY DEF Exchange, LookupOK
<1>2. /\ upstream \in Forwarders /\ Length[upstream] \in Nat
      /\ turn.server \in Nat \ {0} /\ turn.pass \in {1, 2} /\ reply.rank \in Ranks
      /\ turn'.server = turn.server + 1 /\ turn'.pass = turn.pass
  BY <1>1, ForwarderAssumption DEF QueryTypeOK
<1>3. /\ reply'.rank \in Ranks /\ rank <= reply'.rank /\ reply.rank <= reply'.rank
      /\ reply'.rank \in {rank, reply.rank}
      /\ reply'.addrs \subseteq RealAddresses
  BY <1>2 DEF Exchange, Outranks, Ranks, rankNone, rankPositive, QueryTypeOK
<1>4. stage' = IF reply'.rank = rankPositive THEN "forwarded" ELSE "exchange"
  BY <1>1, <1>2 DEF Exchange, Outranks, Ranks, rankNone, rankPositive, LookupOK, Asking
<1>5. h0 \in [pass : 1 .. 2, server : Nat, rank : Ranks]
  BY <1>2
<1>6. QueryTypeOK'
  <2>1. turn' \in [pass : 1 .. 2, server : Nat \ {0}]
    BY <1>1, <1>2 DEF QueryTypeOK
  <2>2. reply' \in [rank : Ranks, addrs : SUBSET RealAddresses]
    BY DEF Exchange, QueryTypeOK
  <2>3. heard' \subseteq [pass : 1 .. 2, server : Nat, rank : Ranks]
    BY <1>1, <1>5 DEF QueryTypeOK
  <2>4. stage' \in {"forwarded", "exchange"}
    BY <1>4
  <2> QED
    BY <1>1, <2>1, <2>2, <2>3, <2>4 DEF Exchange, QueryTypeOK, server
<1>7. \A h \in heard : h.rank \in Ranks
  BY DEF QueryTypeOK
<1>8. Servers' = Servers
  BY <1>1 DEF Servers
<1>9. Ranked'
  <2>1. \A h \in heard' : h.server \in Servers' /\ h.rank <= reply'.rank
    <3> SUFFICES ASSUME NEW h \in heard' PROVE h.server \in Servers' /\ h.rank <= reply'.rank
      OBVIOUS
    <3>1. CASE h = h0
      BY <3>1, <1>1, <1>3, <1>8
    <3>2. CASE h \in heard
      <4>1. h.server \in Servers /\ h.rank <= reply.rank /\ h.rank \in Ranks
        BY <3>2, <1>1, <1>7 DEF LookupOK, Ranked
      <4> QED
        BY <4>1, <1>2, <1>3, <1>8 DEF Ranks, rankNone, rankPositive
    <3> QED
      BY <3>1, <3>2, <1>1
  <2>2. reply'.rank = rankNone \/ \E h \in heard' : h.rank = reply'.rank
    <3>1. CASE reply'.rank = rank
      <4>1. h0 \in heard' /\ h0.rank = reply'.rank
        BY <3>1, <1>1
      <4> QED
        BY <4>1
    <3>2. CASE reply'.rank = reply.rank
      BY <3>2, <1>1 DEF LookupOK, Ranked
    <3> QED
      BY <3>1, <3>2, <1>3
  <2>3. ASSUME Heard(2)' # {} PROVE \A h \in Heard(1)' : h.rank <= rankSoftFail
    <3>1. turn.pass = 2
      BY <2>3, <1>1, <1>2 DEF Heard, LookupOK, Asking
    <3>2. Heard(1)' = Heard(1)
      BY <3>1, <1>1 DEF Heard
    <3> QED
      BY <3>1, <3>2, <1>1 DEF LookupOK, Asking
  <2> QED
    BY <2>1, <2>2, <2>3 DEF Ranked
<1>10. \A p \in {1, 2} : Heard(p) \subseteq Heard(p)'
  BY <1>1 DEF Heard
<1>11. AllAsked(1) => AllAsked(1)'
  BY <1>8, <1>10 DEF AllAsked
<1>12. CASE reply'.rank = rankPositive
  <2>1. Finished'
    BY <1>12 DEF Finished, rankPositive, rankSoftFail
  <2>2. LookupOK'
    BY <2>1, <1>1, <1>4, <1>9, <1>12 DEF LookupOK
  <2>3. Pinning'
    BY <1>1, <1>4 DEF Exchange, server, Pinning, RoutesFailClosed, Proxied
  <2> QED
    BY <1>6, <2>2, <2>3
<1>13. CASE reply'.rank # rankPositive
  <2>1. reply'.rank < rankPositive
    BY <1>13, <1>3 DEF Ranks, rankNone, rankPositive
  <2>2. turn'.server <= Length[upstream'] + 1
    BY <1>1, <1>2 DEF Servers
  <2>3. \A s \in Servers' : s < turn'.server => \E h \in Heard(turn.pass)' : h.server = s
    <3> SUFFICES ASSUME NEW s \in Servers, s < turn.server + 1
                 PROVE  \E h \in Heard(turn.pass)' : h.server = s
      BY <1>2, <1>8
    <3>1. CASE s = turn.server
      <4>1. h0 \in Heard(turn.pass)' /\ h0.server = s
        BY <3>1, <1>1, <1>2 DEF Heard
      <4> QED
        BY <4>1
    <3>2. CASE s # turn.server
      <4>1. s < turn.server
        BY <3>2, <1>2 DEF Servers
      <4>2. PICK h \in Heard(turn.pass) : h.server = s
        BY <4>1, <1>1 DEF LookupOK, Asking
      <4>3. h \in Heard(turn.pass)'
        BY <4>2, <1>1, <1>2 DEF Heard
      <4> QED
        BY <4>2, <4>3
    <3> QED
      BY <3>1, <3>2
  <2>4. turn'.pass = 1 => Heard(2)' = {}
    BY <1>1, <1>2 DEF Heard, LookupOK, Asking
  <2>5. ASSUME turn'.pass = 2
        PROVE  AllAsked(1)' /\ \A h \in Heard(1)' : h.rank <= rankSoftFail
    <3>1. AllAsked(1) /\ \A h \in Heard(1) : h.rank <= rankSoftFail
      BY <2>5, <1>1, <1>2 DEF LookupOK, Asking
    <3>2. Heard(1)' = Heard(1)
      BY <2>5, <1>1, <1>2 DEF Heard
    <3> QED
      BY <3>1, <3>2, <1>11
  <2>6. Asking'
    BY <2>1, <2>2, <2>3, <2>4, <2>5 DEF Asking
  <2>7. LookupOK'
    BY <2>6, <1>1, <1>4, <1>9, <1>13 DEF LookupOK
  <2>8. Pinning'
    BY <1>1, <1>4 DEF Exchange, server, Pinning, RoutesFailClosed, Proxied
  <2> QED
    BY <1>6, <2>7, <2>8
<1> QED
  BY <1>12, <1>13

LEMMA EndOfListInv == ASSUME QueryInv, EndOfList PROVE QueryInv'
<1> USE DEF QueryInv
<1>1. /\ stage = "exchange" /\ upstream # NoForwarder /\ upstream' = upstream
      /\ turn.server \notin Servers /\ heard' = heard /\ reply' = reply
  BY DEF EndOfList, LookupOK
<1>2. /\ upstream \in Forwarders /\ Length[upstream] \in Nat
      /\ turn.server \in Nat \ {0} /\ turn.pass \in {1, 2} /\ reply.rank \in Ranks
  BY <1>1, ForwarderAssumption DEF QueryTypeOK
<1>3. Ranked /\ Asking
  BY <1>1 DEF LookupOK
<1>4. \A p \in {1, 2} : Heard(p)' = Heard(p) /\ AllAsked(p)' = AllAsked(p)
  BY <1>1 DEF Heard, AllAsked, Servers
<1>5. Ranked'
  BY <1>1, <1>3, <1>4 DEF Ranked, Servers
<1>6. QueryTypeOK'
  BY <1>1, <1>2 DEF EndOfList, QueryTypeOK, server
<1>7. Pinning'
  BY <1>1 DEF EndOfList, server, Pinning, RoutesFailClosed, Proxied
<1>8. CASE turn.pass = 1 /\ reply.rank <= rankSoftFail
  <2>1. stage' = "exchange" /\ turn' = [pass |-> 2, server |-> 1]
    BY <1>1, <1>8 DEF EndOfList
  <2>2. AllAsked(1)
    <3> SUFFICES ASSUME NEW s \in Servers PROVE \E h \in Heard(1) : h.server = s
      BY DEF AllAsked
    <3>0. turn.server > Length[upstream]
      BY <1>1, <1>2 DEF Servers
    <3> QED
      BY <3>0, <1>3, <1>8, <1>2 DEF Asking, Servers
  <2>3. \A h \in Heard(1) : h.rank <= rankSoftFail
    <3> SUFFICES ASSUME NEW h \in heard PROVE h.rank <= rankSoftFail
      BY DEF Heard
    <3>1. h.rank <= reply.rank /\ h.rank \in Ranks
      BY <1>3 DEF Ranked, QueryTypeOK
    <3> QED
      BY <3>1, <1>2, <1>8 DEF Ranks, rankNone, rankPositive, rankSoftFail
  <2>4. reply'.rank < rankPositive
    BY <1>1, <1>3 DEF Asking
  <2>5. \A s \in Servers' : s < turn'.server => \E h \in Heard(turn.pass)' : h.server = s
    BY <2>1, <1>2 DEF Servers
  <2>6. turn'.server <= Length[upstream'] + 1
    BY <2>1, <1>1, <1>2
  <2>7. turn'.pass = 2 /\ AllAsked(1)' /\ \A h \in Heard(1)' : h.rank <= rankSoftFail
    BY <2>1, <2>2, <2>3, <1>4
  <2>8. Asking'
    BY <2>4, <2>5, <2>6, <2>7 DEF Asking
  <2>9. LookupOK'
    BY <2>1, <2>8, <1>1, <1>5 DEF LookupOK
  <2> QED
    BY <2>9, <1>6, <1>7
<1>9. CASE ~ (turn.pass = 1 /\ reply.rank <= rankSoftFail)
  <2>1. stage' = "forwarded"
    BY <1>1, <1>9 DEF EndOfList
  <2>2. AllAsked(turn.pass)
    <3> SUFFICES ASSUME NEW s \in Servers PROVE \E h \in Heard(turn.pass) : h.server = s
      BY DEF AllAsked
    <3> QED
      BY <1>1, <1>3, <1>2 DEF Asking, Servers
  <2>3. Finished
    BY <2>2, <1>2, <1>3, <1>9 DEF Finished, Asking, Ranks, rankNone, rankPositive, rankSoftFail
  <2>4. Finished'
    BY <2>3, <1>1, <1>4 DEF Finished
  <2>5. LookupOK'
    BY <2>1, <2>4, <1>1, <1>5 DEF LookupOK
  <2> QED
    BY <2>5, <1>6, <1>7
<1> QED
  BY <1>8, <1>9

(* The step lemma, and the theorem.                                         *)
LEMMA QueryStepInv == QueryInv /\ [QueryNext]_queryVars => QueryInv'
<1> SUFFICES ASSUME QueryInv, [QueryNext]_queryVars PROVE QueryInv'
  OBVIOUS
<1>1. CASE Allowed
  <2>1. question.rule.outcome = "allow" => ~Proxied
    BY DEF QueryInv, QueryTypeOK, Decisions, NoField, Proxied
  <2> QED
    BY <1>1, <2>1, BeginInv DEF Allowed
<1>2. CASE \E link \in BOOLEAN : CheckInterface(link)
  <2>1. stage = "resolved"
    BY <1>2 DEF CheckInterface
  <2>2. question.rule.outcome = "route"
    BY <2>1 DEF QueryInv, Pinning
  <2>3. CASE Reply(NameError)
    <3>1. QueryTypeOK'
      <4>1. NameError \in [code : -1 .. rankPositive, addrs : SUBSET Delivery]
        BY NameErrorIs, Zenon
      <4> QED
        BY <2>3, <4>1 DEF QueryInv, Reply, QueryTypeOK, server, lookup
    <3>2. LookupOK'
      BY <2>1, <2>3, LookupStays DEF QueryInv, Reply, LookupOK
    <3>3. NameError # NotSent /\ NameError.addrs = {}
      BY NameErrorIs, Zenon
    <3>4. Pinning'
      BY <2>1, <2>2, <2>3, <3>3
         DEF QueryInv, Reply, server, lookup, Pinning, LookupOK, RoutesFailClosed, Routed, Proxied
    <3> QED
      BY <3>1, <3>2, <3>4 DEF QueryInv
  <2>4. CASE fakeOn /\ Proxied /\ Proceed("lease")
    <3>1. QueryTypeOK'
      BY <2>4 DEF QueryInv, Proceed, QueryTypeOK, server, lookup
    <3>2. LookupOK'
      BY <2>1, <2>4, LookupStays DEF QueryInv, Proceed, LookupOK
    <3>3. Pinning'
      BY <2>1, <2>2, <2>4
         DEF QueryInv, Proceed, server, lookup, Pinning, LookupOK, RoutesFailClosed, Proxied
    <3> QED
      BY <3>1, <3>2, <3>3 DEF QueryInv
  <2>5. CASE ~ (fakeOn /\ Proxied) /\ BeginForward
    BY <2>1, <2>2, <2>5, BeginInv
  <2> QED
    BY <1>2, <2>3, <2>4, <2>5 DEF CheckInterface
<1>3. CASE \E rank \in Ranks, addrs \in SUBSET RealAddresses : Exchange(rank, addrs)
  BY <1>3, ExchangeInv
<1>4. CASE EndOfList
  BY <1>4, EndOfListInv
<1>5. CASE SetForwarder \/ UNCHANGED queryVars
  <2>1. UNCHANGED <<fakeOn, stage, question, upstream, turn, reply, heard, pins, mappings, sent>>
    BY <1>5 DEF SetForwarder, lookup, queryVars, server
  <2>2. QueryTypeOK'
    BY <2>1, <1>5 DEF QueryInv, QueryTypeOK, SetForwarder, queryVars, server
  <2>3. LookupOK'
    BY <2>1 DEF QueryInv, LookupOK, Ranked, Asking, Finished, AllAsked, Heard, Servers
  <2>4. Pinning'
    BY <2>1, ZenonT(30) DEF QueryInv, Pinning, RoutesFailClosed, Routed, Proxied
  <2> QED
    BY <2>2, <2>3, <2>4 DEF QueryInv
<1> QED
  BY <1>1, <1>2, <1>3, <1>4, <1>5, HandlerInv DEF QueryNext

(* For any number of lists, servers and addresses, whatever is swapped,     *)
(* deleted or taken down while a query is under way, Forward returns the    *)
(* best answer of the list it captured, and handle fails closed.            *)
THEOREM AnswersEarned == QuerySpec => []AnswersAreEarned
<1>1. QueryInv => AnswersAreEarned
  BY Zenon DEF QueryInv, LookupOK, Ranked, Finished, Pinning, AnswersAreEarned, BestReplyWins
<1> QED
  BY <1>1, QueryInitInv, QueryStepInv, PTL DEF QuerySpec

-----------------------------------------------------------------------------
(* GeoUpdate.  The tags of a candidate are compared with the loaded DB's,   *)
(* so the promise about files needs that the DB reads the file in place     *)
(* whenever a comparison is made, and that what was compared is what is     *)
(* moved.                                                                   *)
Whole == Releases \cup {Absent}

Covers(new, old) == \A t \in job.req : t \in TagsOf(old) => t \in TagsOf(new)

(* The stages at which the DB, once loaded, reads the file in place.        *)
Settled == job.pc \in {"idle", "fetch", "verify", "rotate", "aside"}
             \/ (job.pc = "record" /\ ~ (job.did /\ ~job.err))

GeoTypes ==
  /\ disk \in [live : Whole, bak : Whole, tmp : Whole \cup {Torn}, swap : Whole]
  /\ job \in [pc : {"down", "idle", "fetch", "verify", "rotate", "place", "meta", "record", "aside",
                    "restore", "keep", "remeta"},
              req : SUBSET RefTags, err : BOOLEAN, did : BOOLEAN, rotated : BOOLEAN]
  /\ required \subseteq RefTags /\ faulted \in BOOLEAN
  /\ published \in Releases

Compared ==
  /\ job.pc \in {"rotate", "place"} => disk.tmp \in Releases /\ Covers(disk.tmp, db)
  /\ job.pc \in {"aside", "restore"} => disk.bak \in Releases /\ Covers(disk.bak, db)
  /\ job.pc \in {"rotate", "place", "aside", "restore"} => db # Unloaded
  /\ job.pc \in {"fetch", "verify", "rotate", "place", "meta"} => ~job.did /\ ~job.err
  /\ job.pc = "down" => db = Unloaded

InMemory ==
  ~faulted =>
    /\ Settled => db \in {Unloaded, disk.live}
    /\ job.pc = "place" /\ job.rotated => disk.bak = db
    /\ job.pc = "restore" => disk.swap = db

GeoInv == GeoTypes /\ Compared /\ InMemory /\ ReplacementIsSound

(* A release is neither absent nor torn.                                    *)
LEMMA ReleasesAre ==
  /\ Torn \notin Whole /\ Unloaded \notin Whole
  /\ \A r \in Releases : r # Absent
  /\ TagsOf(Absent) = {} /\ Absent \in Whole /\ Releases \subseteq Whole
<1>1. \A r \in Releases : r.id # 0
  BY CatalogueAssumption DEF Releases, Months
<1>2. Torn # Absent /\ Unloaded # Absent
  <2>1. Torn.tags # Absent.tags
    <3>1. "torn" \in Torn.tags /\ "torn" \notin Absent.tags
      BY DEF Torn, Absent
    <3> QED
      BY <3>1
  <2>2. Unloaded.tags # Absent.tags
    <3>1. "none" \in Unloaded.tags /\ "none" \notin Absent.tags
      BY DEF Unloaded, Absent
    <3> QED
      BY <3>1
  <2> QED
    BY <2>1, <2>2
<1>3. Torn.id = 0 /\ Unloaded.id = 0 /\ Absent.id = 0
  BY DEF Torn, Unloaded, Absent
<1> QED
  BY <1>1, <1>2, <1>3 DEF Whole, TagsOf

LEMMA GeoInitInv == GeoInit => GeoInv
<1> SUFFICES ASSUME GeoInit PROVE GeoInv
  OBVIOUS
<1>1. published \in Releases /\ disk.live \in Whole
  BY DEF GeoInit, Releases, Whole
<1>2. /\ job = [pc |-> "down", req |-> {}, err |-> FALSE, did |-> FALSE, rotated |-> FALSE]
      /\ db = Unloaded /\ required = {} /\ faulted = FALSE
  BY Zenon DEF GeoInit, Idle
<1>3. GeoTypes
  <2>1. PICK v : disk = [live |-> v, bak |-> Absent, tmp |-> Absent, swap |-> Absent]
    BY ZenonT(30) DEF GeoInit
  <2>2. v \in Whole
    BY <1>1, <2>1
  <2>3. disk \in [live : Whole, bak : Whole, tmp : Whole \cup {Torn}, swap : Whole]
    BY <2>1, <2>2, ReleasesAre
  <2> QED
    BY <1>1, <1>2, <2>3, Zenon DEF GeoTypes
<1>4. Compared /\ InMemory
  BY <1>2 DEF Compared, InMemory, Settled
<1>5. ReplacementIsSound
  BY <1>1, <1>2, ReleasesAre DEF ReplacementIsSound
<1> QED
  BY <1>3, <1>4, <1>5 DEF GeoInv

(* The steps of an update, of a rollback and of everything else.            *)
LEMMA FetchInv == ASSUME GeoInv, Fetch PROVE GeoInv'
<1> USE DEF GeoInv
<1>1. job.pc = "fetch" /\ ~job.did /\ ~job.err /\ UNCHANGED <<db, required, published>>
  BY DEF Fetch, Compared
<1>2. CASE /\ disk' = disk /\ faulted' \in {faulted, TRUE}
           /\ job' \in {[job EXCEPT !.pc = "record"], [job EXCEPT !.pc = "record", !.err = TRUE]}
  <2>1. GeoTypes'
    BY <1>1, <1>2, ZenonT(30) DEF GeoTypes
  <2>2. job'.pc = "record" /\ ~job'.did
    BY <1>1, <1>2, Zenon DEF GeoTypes
  <2>3. Compared' /\ ReplacementIsSound'
    BY <1>2, <2>2 DEF Compared, ReplacementIsSound
  <2>4. InMemory'
    <3>1. ~faulted' => ~faulted
      BY <1>2, Zenon DEF GeoTypes
    <3>2. ~faulted => db \in {Unloaded, disk.live}
      BY <1>1 DEF InMemory, Settled
    <3> QED
      BY <1>1, <1>2, <2>2, <3>1, <3>2 DEF InMemory
  <2> QED
    BY <2>1, <2>3, <2>4
<1>3. CASE /\ \E got \in {published, Torn} : disk' = [disk EXCEPT !.tmp = got]
           /\ faulted' = faulted /\ job' = [job EXCEPT !.pc = "verify"]
  <2>1. GeoTypes'
    BY <1>1, <1>3 DEF GeoTypes, Whole
  <2>2. job'.pc = "verify" /\ ~job'.did /\ ~job'.err /\ disk'.live = disk.live
    BY <1>1, <1>3 DEF GeoTypes
  <2>3. Compared' /\ ReplacementIsSound'
    BY <1>3, <2>2 DEF Compared, ReplacementIsSound
  <2>4. InMemory'
    BY <1>1, <1>3, <2>2 DEF InMemory, Settled
  <2> QED
    BY <2>1, <2>3, <2>4
<1> QED
  BY <1>2, <1>3, Zenon DEF Fetch, Download, touch, Failed, GoTo, DiskFault

LEMMA VerifyInv == ASSUME GeoInv, Verify PROVE GeoInv'
<1> USE DEF GeoInv
<1>1. /\ job.pc = "verify" /\ ~job.did /\ ~job.err /\ UNCHANGED <<disk, required, published>>
      /\ db' = Loaded
  BY DEF Verify, Compared
<1>2. Loaded # Unloaded /\ (~faulted => db' = disk.live)
  BY <1>1, ReleasesAre DEF Loaded, InMemory, Settled, GeoTypes
<1>3. CASE /\ faulted' \in {faulted, TRUE}
           /\ job' \in {[job EXCEPT !.pc = "record"], [job EXCEPT !.pc = "record", !.err = TRUE]}
  <2>1. GeoTypes'
    BY <1>1, <1>3, ZenonT(30) DEF GeoTypes
  <2>2. job'.pc = "record" /\ ~job'.did
    BY <1>1, <1>3, Zenon DEF GeoTypes
  <2>3. Compared' /\ ReplacementIsSound'
    BY <1>1, <1>3, <2>2 DEF Compared, ReplacementIsSound
  <2>4. InMemory'
    <3>1. ~faulted' => ~faulted
      BY <1>3, Zenon DEF GeoTypes
    <3> QED
      BY <1>1, <1>2, <2>2, <3>1 DEF InMemory
  <2> QED
    BY <2>1, <2>3, <2>4
<1>4. CASE Usable(disk.tmp) /\ faulted' = faulted /\ job' = [job EXCEPT !.pc = "rotate"]
  <2>1. GeoTypes'
    BY <1>1, <1>4 DEF GeoTypes
  <2>2. job'.pc = "rotate" /\ job'.req = job.req /\ ~job'.did /\ ~job'.err
    BY <1>1, <1>4 DEF GeoTypes
  <2>3. disk.tmp \in Releases /\ \A t \in job.req : t \in TagsOf(Loaded) => t \in TagsOf(disk.tmp)
    BY <1>4 DEF Usable, missingTags
  <2>4. Compared' /\ ReplacementIsSound'
    BY <1>1, <1>2, <2>2, <2>3, Zenon DEF Compared, ReplacementIsSound, Covers, TagsOf
  <2>5. InMemory'
    BY <1>1, <1>2, <1>4, <2>2 DEF InMemory
  <2> QED
    BY <2>1, <2>4, <2>5
<1> QED
  BY <1>3, <1>4, Zenon DEF Verify, touch, Failed, GoTo, DiskFault

LEMMA RotateInv == ASSUME GeoInv, Rotate PROVE GeoInv'
<1> USE DEF GeoInv
<1>1. /\ job.pc = "rotate" /\ ~job.did /\ ~job.err /\ db # Unloaded
      /\ UNCHANGED <<db, faulted, required, published>>
  BY DEF Rotate, Compared
<1>2. ~faulted => db = disk.live
  BY <1>1 DEF InMemory, Settled
<1>3. CASE disk' = disk /\ job' = [job EXCEPT !.pc = "record", !.err = TRUE]
  <2>1. GeoTypes'
    BY <1>1, <1>3, Zenon DEF GeoTypes
  <2>2. job'.pc = "record" /\ ~job'.did
    BY <1>1, <1>3 DEF GeoTypes
  <2>3. Compared' /\ ReplacementIsSound'
    BY <1>1, <1>3, <2>2 DEF Compared, ReplacementIsSound
  <2>4. InMemory'
    BY <1>1, <1>2, <1>3, <2>2 DEF InMemory
  <2> QED
    BY <2>1, <2>3, <2>4
<1>4. CASE /\ disk' = IF disk.live = Absent THEN disk
                      ELSE [disk EXCEPT !.bak = disk.live, !.live = Absent]
           /\ job' = [job EXCEPT !.pc = "place", !.rotated = disk.live # Absent]
  <2>1. GeoTypes'
    BY <1>1, <1>4, ReleasesAre, Zenon DEF GeoTypes
  <2>2. /\ job'.pc = "place" /\ job'.req = job.req /\ ~job'.did /\ ~job'.err
        /\ job'.rotated <=> disk.live # Absent
    BY <1>1, <1>4, ZenonT(30) DEF GeoTypes
  <2>3. /\ disk'.tmp = disk.tmp /\ disk'.live = Absent
        /\ disk.live # Absent => disk'.bak = disk.live
    BY <1>4 DEF GeoTypes
  <2>4. Compared' /\ ReplacementIsSound'
    BY <1>1, <2>1, <2>2, <2>3, ReleasesAre, Zenon DEF Compared, ReplacementIsSound, Covers, TagsOf
  <2>5. InMemory'
    BY <1>1, <1>2, <2>2, <2>3 DEF InMemory, Settled
  <2> QED
    BY <2>1, <2>4, <2>5
<1> QED
  BY <1>3, <1>4 DEF Rotate, Failed

LEMMA PlaceInv == ASSUME GeoInv, Place PROVE GeoInv'
<1> USE DEF GeoInv
<1>1. job.pc = "place" /\ ~job.did /\ ~job.err /\ UNCHANGED <<db, required, published>>
  BY DEF Place, Compared
<1>2. disk.tmp \in Releases /\ Covers(disk.tmp, db)
  BY <1>1 DEF Compared
<1>3. CASE /\ disk' = [disk EXCEPT !.live = disk.tmp, !.tmp = Absent]
           /\ job' = [job EXCEPT !.pc = "meta"] /\ faulted' = faulted
  <2>1. GeoTypes'
    BY <1>1, <1>2, <1>3, ReleasesAre, Zenon DEF GeoTypes
  <2>2. /\ job'.pc = "meta" /\ job'.req = job.req /\ ~job'.did /\ ~job'.err /\ job'.rotated = job.rotated
        /\ disk'.live = disk.tmp /\ disk'.bak = disk.bak
    BY <1>1, <1>3 DEF GeoTypes
  <2>3. job.rotated /\ ~faulted => disk.bak = db
    BY <1>1 DEF InMemory
  <2>4. ReplacementIsSound'
    BY <1>2, <1>3, <2>2, <2>3, ReleasesAre DEF ReplacementIsSound, Covers, TagsOf
  <2>5. Compared' /\ InMemory'
    BY <1>3, <2>2 DEF Compared, InMemory, Settled
  <2> QED
    BY <2>1, <2>4, <2>5
<1>4. CASE /\ faulted' = TRUE /\ disk' = [disk EXCEPT !.live = disk.bak, !.bak = Absent]
           /\ job' = [job EXCEPT !.pc = "record", !.err = TRUE]
  <2>1. GeoTypes'
    BY <1>1, <1>4, ReleasesAre, Zenon DEF GeoTypes
  <2>2. job'.pc = "record" /\ disk'.live \in Whole
    BY <1>1, <1>4, <2>1 DEF GeoTypes
  <2>3. Compared' /\ InMemory' /\ ReplacementIsSound'
    BY <1>4, <2>2, ReleasesAre DEF Compared, InMemory, ReplacementIsSound
  <2> QED
    BY <2>1, <2>3
<1> QED
  BY <1>3, <1>4, Zenon DEF Place, Failed, GoTo, DiskFault

LEMMA WriteMetaInv == ASSUME GeoInv, WriteMeta PROVE GeoInv'
<1> USE DEF GeoInv
<1>1. job.pc = "meta" /\ UNCHANGED <<disk, db, required, published>>
  BY DEF WriteMeta
<1>2. CASE job' = [job EXCEPT !.pc = "record", !.did = TRUE] /\ faulted' = faulted
  <2>1. GeoTypes'
    BY <1>1, <1>2, Zenon DEF GeoTypes
  <2>2. job'.pc = "record" /\ job'.did /\ job'.err = job.err
    BY <1>2 DEF GeoTypes
  <2>3. Compared' /\ ReplacementIsSound'
    BY <1>1, <2>2, Zenon DEF Compared, ReplacementIsSound
  <2>4. InMemory'
    BY <1>1, <1>2, <2>2 DEF InMemory, Settled, Compared
  <2> QED
    BY <2>1, <2>3, <2>4
<1>3. CASE job' = [job EXCEPT !.pc = "record", !.err = TRUE] /\ faulted' = TRUE
  <2>1. GeoTypes'
    BY <1>1, <1>3, Zenon DEF GeoTypes
  <2>2. job'.pc = "record"
    BY <1>3 DEF GeoTypes
  <2>3. Compared' /\ InMemory' /\ ReplacementIsSound'
    BY <1>1, <1>3, <2>2 DEF Compared, InMemory, ReplacementIsSound
  <2> QED
    BY <2>1, <2>3
<1> QED
  BY <1>2, <1>3, Zenon DEF WriteMeta, Failed, DiskFault

LEMMA RecordInv == ASSUME GeoInv, record PROVE GeoInv'
<1> USE DEF GeoInv
<1>1. /\ job.pc = "record" /\ UNCHANGED <<required, published>>
      /\ disk' = [disk EXCEPT !.tmp = Absent] /\ job' = Idle
      /\ db' = (IF job.did /\ ~job.err THEN disk.live ELSE db)
      /\ faulted' \in {faulted, TRUE}
  BY Zenon DEF record, DiskFault
<1>2. GeoTypes'
  BY <1>1, ReleasesAre, Zenon DEF GeoTypes, Idle
<1>3. job'.pc = "idle" /\ disk'.live = disk.live
  BY <1>1 DEF Idle, GeoTypes
<1>4. Compared' /\ ReplacementIsSound'
  BY <1>3, Zenon DEF Compared, ReplacementIsSound
<1>5. InMemory'
  BY <1>1, <1>3, Zenon DEF InMemory, Settled, GeoTypes
<1> QED
  BY <1>2, <1>4, <1>5

LEMMA RollbackInv ==
  ASSUME GeoInv, Rollback \/ Aside \/ Restore \/ Keep \/ RewriteMeta
  PROVE  GeoInv'
<1> USE DEF GeoInv
<1>1. CASE Rollback
  <2>1. /\ job.pc = "idle" /\ UNCHANGED <<disk, faulted, required, published>> /\ db' = Loaded
        /\ job' = [Idle EXCEPT !.pc = "aside", !.req = required]
    BY <1>1 DEF Rollback
  <2>2. disk.bak \in Releases /\ \A t \in required : t \in TagsOf(Loaded) => t \in TagsOf(disk.bak)
    BY <1>1 DEF Rollback
  <2>3. Loaded # Unloaded /\ (~faulted => Loaded = disk.live)
    BY <2>1, ReleasesAre DEF Loaded, InMemory, Settled, GeoTypes
  <2>4. GeoTypes'
    BY <2>1, Zenon DEF GeoTypes, Idle
  <2>5. job'.pc = "aside" /\ job'.req = required
    BY <2>1 DEF Idle
  <2>6. Compared' /\ ReplacementIsSound'
    BY <2>1, <2>2, <2>3, <2>5 DEF Compared, ReplacementIsSound, Covers, TagsOf
  <2>7. InMemory'
    BY <2>1, <2>3, <2>5 DEF InMemory
  <2> QED
    BY <2>4, <2>6, <2>7
<1>2. CASE Aside
  <2>1. job.pc = "aside" /\ UNCHANGED <<db, faulted, required, published>>
    BY <1>2 DEF Aside
  <2>2. /\ disk.bak \in Releases /\ Covers(disk.bak, db) /\ db # Unloaded
        /\ ~faulted => db = disk.live
    BY <2>1 DEF Compared, InMemory, Settled
  <2>3. CASE job' = Idle /\ disk' = [disk EXCEPT !.swap = Absent]
    <3>1. GeoTypes'
      BY <2>1, <2>3, ReleasesAre DEF GeoTypes, Idle
    <3>2. job'.pc = "idle" /\ disk'.live = disk.live
      BY <2>3 DEF Idle, GeoTypes
    <3>3. Compared' /\ ReplacementIsSound' /\ InMemory'
      BY <2>1, <2>2, <3>2, Zenon DEF Compared, ReplacementIsSound, InMemory
    <3> QED
      BY <3>1, <3>3
  <2>4. CASE /\ disk' = [disk EXCEPT !.swap = disk.live, !.live = Absent]
             /\ job' = [job EXCEPT !.pc = "restore"]
    <3>1. GeoTypes'
      BY <2>1, <2>4, ReleasesAre, ZenonT(30) DEF GeoTypes
    <3>2. /\ job'.pc = "restore" /\ job'.req = job.req
          /\ disk'.live = Absent /\ disk'.swap = disk.live /\ disk'.bak = disk.bak
      BY <2>4 DEF GeoTypes
    <3>3. Compared' /\ InMemory'
      BY <2>1, <2>2, <3>2, Zenon DEF Compared, InMemory, Settled, Covers, TagsOf
    <3>4. ReplacementIsSound'
      BY <3>2, ReleasesAre DEF ReplacementIsSound
    <3> QED
      BY <3>1, <3>3, <3>4
  <2> QED
    BY <1>2, <2>3, <2>4 DEF Aside, GoTo
<1>3. CASE Restore
  <2>1. job.pc = "restore" /\ UNCHANGED <<db, faulted, required, published>>
    BY <1>3 DEF Restore
  <2>2. /\ disk.bak \in Releases /\ Covers(disk.bak, db)
        /\ ~faulted => disk.swap = db
    BY <2>1 DEF Compared, InMemory
  <2>3. CASE disk' = [disk EXCEPT !.live = disk.bak, !.bak = Absent] /\ job' = [job EXCEPT !.pc = "keep"]
    <3>1. GeoTypes'
      BY <2>1, <2>3, ReleasesAre, ZenonT(30) DEF GeoTypes
    <3>2. /\ job'.pc = "keep" /\ job'.req = job.req
          /\ disk'.live = disk.bak /\ disk'.swap = disk.swap
      BY <2>3 DEF GeoTypes
    <3>3. Compared' /\ InMemory'
      BY <2>1, <3>2, Zenon DEF Compared, InMemory, Settled
    <3>4. ReplacementIsSound'
      BY <2>1, <2>2, <3>2, ReleasesAre DEF ReplacementIsSound, Covers, TagsOf
    <3> QED
      BY <3>1, <3>3, <3>4
  <2>4. CASE disk' = [disk EXCEPT !.live = disk.swap, !.swap = Absent] /\ job' = Idle
    <3>1. GeoTypes'
      BY <2>1, <2>4, ReleasesAre, ZenonT(30) DEF GeoTypes, Idle
    <3>2. job'.pc = "idle" /\ disk'.live = disk.swap /\ disk.swap \in Whole
      BY <2>4 DEF Idle, GeoTypes
    <3>3. Compared' /\ InMemory'
      BY <2>1, <2>2, <3>2 DEF Compared, InMemory
    <3>4. ReplacementIsSound'
      BY <3>2, ReleasesAre, Zenon DEF ReplacementIsSound
    <3> QED
      BY <3>1, <3>3, <3>4
  <2> QED
    BY <1>3, <2>3, <2>4 DEF Restore, GoTo
<1>4. CASE Keep
  <2>1. /\ job.pc = "keep" /\ job' = [job EXCEPT !.pc = "remeta"]
        /\ UNCHANGED <<db, faulted, required, published>>
        /\ disk' = IF disk.swap = Absent THEN disk ELSE [disk EXCEPT !.bak = disk.swap, !.swap = Absent]
    BY <1>4 DEF Keep, GoTo
  <2>2. GeoTypes'
    BY <2>1, ReleasesAre, Zenon DEF GeoTypes
  <2>3. job'.pc = "remeta" /\ disk'.live = disk.live
    BY <2>1 DEF GeoTypes
  <2>4. Compared' /\ InMemory' /\ ReplacementIsSound'
    BY <2>3, Zenon DEF Compared, InMemory, Settled, ReplacementIsSound
  <2> QED
    BY <2>2, <2>4
<1>5. CASE RewriteMeta
  <2>1. /\ job' = Idle /\ db' = disk.live /\ UNCHANGED <<disk, required, published>>
        /\ faulted' \in {faulted, TRUE}
    BY <1>5, Zenon DEF RewriteMeta, DiskFault
  <2>2. GeoTypes'
    BY <2>1, Zenon DEF GeoTypes, Idle
  <2>3. job'.pc = "idle"
    BY <2>1 DEF Idle
  <2>4. Compared' /\ InMemory' /\ ReplacementIsSound'
    BY <2>1, <2>3, Zenon DEF Compared, InMemory, ReplacementIsSound
  <2> QED
    BY <2>2, <2>4
<1> QED
  BY <1>1, <1>2, <1>3, <1>4, <1>5

LEMMA GeoRestInv ==
  ASSUME GeoInv,
         \/ Boot \/ RunDue \/ UpdateAsked \/ EnsureMMDB \/ Die \/ Publish \/ EditConfig \/ GeoTick
         \/ NextMonth \/ CalmDown \/ UNCHANGED geoVars
  PROVE  GeoInv'
<1> USE DEF GeoInv
<1>1. CASE Boot
  <2>1. /\ job' = Idle /\ job.pc = "down" /\ UNCHANGED <<disk, db, faulted, required, published>>
    BY <1>1 DEF Boot
  <2>2. GeoTypes'
    BY <2>1 DEF GeoTypes, Idle
  <2>3. job'.pc = "idle" /\ db = Unloaded
    BY <2>1 DEF Idle, Compared
  <2>4. Compared' /\ InMemory' /\ ReplacementIsSound'
    BY <2>1, <2>3, Zenon DEF Compared, InMemory, ReplacementIsSound
  <2> QED
    BY <2>2, <2>4
<1>2. CASE RunDue \/ UpdateAsked \/ EnsureMMDB
  <2>1. /\ job.pc = "idle" /\ UNCHANGED <<disk, db, faulted, required, published>>
        /\ job' \in {[Idle EXCEPT !.pc = "fetch", !.req = required],
                     [Idle EXCEPT !.pc = "record", !.err = TRUE]}
    BY <1>2 DEF RunDue, UpdateAsked, EnsureMMDB, Begin
  <2>2. GeoTypes'
    BY <2>1, ZenonT(30) DEF GeoTypes, Idle
  <2>3. job'.pc \in {"fetch", "record"} /\ ~job'.did /\ (job'.pc = "fetch" => ~job'.err)
    <3>1. CASE job' = [Idle EXCEPT !.pc = "fetch", !.req = required]
      BY <3>1 DEF Idle
    <3>2. CASE job' = [Idle EXCEPT !.pc = "record", !.err = TRUE]
      BY <3>2 DEF Idle
    <3> QED
      BY <2>1, <3>1, <3>2
  <2>4. Compared' /\ ReplacementIsSound'
    BY <2>1, <2>3 DEF Compared, ReplacementIsSound
  <2>5. InMemory'
    BY <2>1, <2>3 DEF InMemory, Settled
  <2> QED
    BY <2>2, <2>4, <2>5
<1>3. CASE Die
  <2>1. /\ job' = [Idle EXCEPT !.pc = "down"] /\ db' = Unloaded
        /\ disk' = [disk EXCEPT !.tmp = Absent, !.swap = Absent]
        /\ UNCHANGED <<faulted, required, published>>
    BY <1>3 DEF Die
  <2>2. GeoTypes'
    BY <2>1, ReleasesAre, Zenon DEF GeoTypes, Idle
  <2>3. job'.pc = "down" /\ disk'.live = disk.live
    BY <2>1 DEF Idle, GeoTypes
  <2>4. Compared' /\ InMemory' /\ ReplacementIsSound'
    BY <2>1, <2>3 DEF Compared, InMemory, Settled, ReplacementIsSound
  <2> QED
    BY <2>2, <2>4
<1>4. CASE Publish \/ EditConfig \/ GeoTick \/ NextMonth \/ CalmDown \/ UNCHANGED geoVars
  <2>1. UNCHANGED <<disk, db, job, faulted>>
    BY <1>4 DEF Publish, EditConfig, GeoTick, NextMonth, CalmDown, geoVars
  <2>2. published' \in Releases /\ required' \subseteq RefTags
    BY <1>4 DEF Publish, EditConfig, GeoTick, NextMonth, CalmDown, geoVars, GeoTypes, Releases
  <2>3. GeoTypes'
    BY <2>1, <2>2 DEF GeoTypes
  <2>4. Compared' /\ InMemory' /\ ReplacementIsSound'
    BY <2>1, Zenon DEF Compared, InMemory, Settled, ReplacementIsSound, Covers, TagsOf
  <2> QED
    BY <2>3, <2>4
<1> QED
  BY <1>1, <1>2, <1>3, <1>4

LEMMA GeoStepInv == GeoInv /\ [GeoNext]_geoVars => GeoInv'
BY FetchInv, VerifyInv, RotateInv, PlaceInv, WriteMetaInv, RecordInv, RollbackInv, GeoRestInv
   DEF GeoNext, JobStep

(* For any sources, months, tags and intervals, after any sequence of       *)
(* releases, edits of the configuration, failing calls and crashes: what    *)
(* replaces a geo file parses and covers the tags the configuration needed. *)
THEOREM ReplacementSound == GeoInit /\ [][GeoNext]_geoVars => []ReplacementIsSound
<1>1. GeoInv => ReplacementIsSound
  BY DEF GeoInv
<1> QED
  BY <1>1, GeoInitInv, GeoStepInv, PTL

=============================================================================
