----------------------------- MODULE ProxyTable -----------------------------
(***************************************************************************)
(* The IP -> proxy table (core/proxy/table.go): DNS answers record which   *)
(* proxies serve an address, connections look it up and touch it, rule     *)
(* edits remove a rule's addresses through a second index, and a ticker    *)
(* sweeps what expired.  Every method holds the table's lock throughout.   *)
(***************************************************************************)
EXTENDS Integers, FiniteSets

CONSTANTS
  IPs, RuleIDs, Proxies, Hostnames,
  TTLs,         \* lifetimes a DNS answer may ask for
  MinTTL,       \* Table.minTTL
  KeepaliveTTL, \* what a live connection asks for when it touches the entry
  MaxClock,     \* bound: the clock stops here
  Unmapped      \* an address without an entry

Entry == [proxyNames : Proxies, hostname : Hostnames, expiresAt : Nat, ruleID : RuleIDs]

ASSUME LifetimeAssumption == TTLs \subseteq Nat /\ MinTTL \in Nat /\ KeepaliveTTL \in Nat
ASSUME ClockAssumption    == MaxClock \in Nat
ASSUME UnmappedAssumption == Unmapped \notin Entry

VARIABLES
  clock,
  proxiesOf,    \* Table.byIP: address -> entry
  byRule        \* rule -> addresses; the code drops a rule whose set is empty

proxyVars == <<clock, proxiesOf, byRule>>

ProxyTypeOK ==
  /\ clock \in Nat
  /\ proxiesOf \in [IPs -> Entry \cup {Unmapped}]
  /\ byRule \in [RuleIDs -> SUBSET IPs]

ProxyInit ==
  /\ clock = 0
  /\ proxiesOf = [ip \in IPs |-> Unmapped]
  /\ byRule = [r \in RuleIDs |-> {}]

Max2(a, b) == IF a < b THEN b ELSE a

(* Detached with a bug: the address stays in the index of its old rule.     *)
DetachedNever(ip, ruleID) == byRule

(* The index without the address, if another rule held it.                  *)
Detached(ip, ruleID) ==
  IF proxiesOf[ip] # Unmapped /\ proxiesOf[ip].ruleID # ruleID
  THEN [byRule EXCEPT ![proxiesOf[ip].ruleID] = @ \ {ip}]
  ELSE byRule

(* The last answer wins: the entry is overwritten and indexed anew.         *)
Record(ip, hostname, proxyNames, ttl, ruleID) ==
  /\ proxiesOf' = [proxiesOf EXCEPT ![ip] =
       [proxyNames |-> proxyNames, hostname |-> hostname,
        expiresAt |-> clock + Max2(ttl, MinTTL), ruleID |-> ruleID]]
  /\ byRule' = [Detached(ip, ruleID) EXCEPT ![ruleID] = @ \cup {ip}]
  /\ UNCHANGED clock

Touch(ip) ==
  /\ proxiesOf[ip] # Unmapped
  /\ proxiesOf' = [proxiesOf EXCEPT ![ip].expiresAt = clock + KeepaliveTTL]
  /\ UNCHANGED <<clock, byRule>>

RemoveByRule(ruleID) ==
  /\ proxiesOf' = [ip \in IPs |-> IF ip \in byRule[ruleID] THEN Unmapped ELSE proxiesOf[ip]]
  /\ byRule' = [byRule EXCEPT ![ruleID] = {}]
  /\ UNCHANGED clock

Expired(ip) == proxiesOf[ip] # Unmapped /\ clock > proxiesOf[ip].expiresAt

(* SweepExpired with a bug: an entry goes in the instant it expires, while   *)
(* Lookup still returns it.                                                 *)
SweepExpiredEarly ==
  LET due == {ip \in IPs : proxiesOf[ip] # Unmapped /\ ~ (clock < proxiesOf[ip].expiresAt)}
  IN  /\ proxiesOf' = [ip \in IPs |-> IF ip \in due THEN Unmapped ELSE proxiesOf[ip]]
      /\ byRule' = [r \in RuleIDs |-> {ip \in byRule[r] : ~ (ip \in due /\ proxiesOf[ip].ruleID = r)}]
      /\ UNCHANGED clock

SweepExpired ==
  /\ proxiesOf' = [ip \in IPs |-> IF Expired(ip) THEN Unmapped ELSE proxiesOf[ip]]
  /\ byRule' = [r \in RuleIDs |->
       {ip \in byRule[r] : ~ (Expired(ip) /\ proxiesOf[ip].ruleID = r)}]
  /\ UNCHANGED clock

(* Lookup hides an entry that has expired and not been swept yet.           *)
Lookup(ip) == IF Expired(ip) THEN Unmapped ELSE proxiesOf[ip]

ClockTick == clock < MaxClock /\ clock' = clock + 1 /\ UNCHANGED <<proxiesOf, byRule>>

ProxyNext ==
  \/ ClockTick \/ SweepExpired
  \/ \E r \in RuleIDs : RemoveByRule(r)
  \/ \E ip \in IPs : Touch(ip)
  \/ \E ip \in IPs, h \in Hostnames, p \in Proxies, ttl \in TTLs, r \in RuleIDs :
       Record(ip, h, p, ttl, r)

ProxySpec == ProxyInit /\ [][ProxyNext]_proxyVars

-----------------------------------------------------------------------------
(* Properties                                                               *)

(* The rule index is exact: it lists an address under a rule if and only if *)
(* the address' entry is that rule's, so RemoveByRule takes all of a rule's *)
(* entries and nobody else's, even after an address changed hands.          *)
IndexIsExact ==
  \A ip \in IPs, r \in RuleIDs :
    ip \in byRule[r] <=> (proxiesOf[ip] # Unmapped /\ proxiesOf[ip].ruleID = r)

(* A mapping a connection can still look up is lost only to the removal of  *)
(* the rule that holds it: not to the sweep, and not to the removal of a    *)
(* rule that held the address before.                                       *)
LostOnlyToOwnRule ==
  [][\A ip \in IPs : Lookup(ip) # Unmapped /\ proxiesOf'[ip] = Unmapped =>
       RemoveByRule(proxiesOf[ip].ruleID)]_proxyVars
=============================================================================
