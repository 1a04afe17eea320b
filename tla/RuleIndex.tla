----------------------------- MODULE RuleIndex ------------------------------
(***************************************************************************)
(* Which rule decides: the compiled index of core/rules/index.go against   *)
(* the definition of the most specific rule in core/rules/rules.go.        *)
(*                                                                         *)
(* Names are sequences of labels with the top-level label first, so        *)
(* "*.b.com" covers the names that begin with its body; addresses are      *)
(* sequences of bits, and a CIDR covers those that begin with its prefix.  *)
(* A bare address is the prefix of full length.  Patterns are normalized.  *)
(*                                                                         *)
(* NewIndex and MostSpecificIP loop over a list: each round is a step.     *)
(***************************************************************************)
EXTENDS Integers, Sequences, FiniteSets

CONSTANTS
  Labels,      \* labels of names
  Names,       \* names that queries and domain patterns are made of
  Bodies,      \* bodies of IP and CIDR patterns
  Addresses,   \* destinations of connections
  RuleLists,   \* the lists Reload may have read
  None

IsPrefixOf(p, s) == Len(p) <= Len(s) /\ \A k \in 1 .. Len(p) : p[k] = s[k]
Parent(n, k) == SubSeq(n, 1, k)

Pattern == [kind : {"exact", "wild"}, body : Names] \cup [kind : {"ip"}, body : Bodies]
Rule    == [id : Nat, pattern : Pattern, enabled : BOOLEAN]

(* Parents of a name are names, addresses are bits, IDs are unique.         *)
IndexAssumption ==
  /\ \A n \in Names : /\ n \in Seq(Labels) /\ Len(n) >= 1
                      /\ \A k \in 1 .. Len(n) : Parent(n, k) \in Names
  /\ \A p \in Bodies \cup Addresses : p \in Seq({0, 1})
  /\ \A l \in RuleLists : /\ l \in Seq(Rule)
                          /\ \A k, m \in DOMAIN l : l[k].id = l[m].id => k = m
  /\ None \notin Rule \cup Addresses

VARIABLES
  rs,            \* the list being compiled
  i,             \* NewIndex: position in rs
  exact, wild,   \* Index.exact and Index.wild: body -> rule
  ips,           \* Index.ips
  ip, j, best    \* a MostSpecificIP call: its argument, position, best so far

vars == <<rs, i, exact, wild, ips, ip, j, best>>

TypeOK ==
  /\ rs \in Seq(Rule) /\ i \in 1 .. Len(rs) + 1
  /\ exact \in [Names -> Rule \cup {None}] /\ wild \in [Names -> Rule \cup {None}]
  /\ ips \in Seq(Rule)
  /\ ip \in Addresses \cup {None} /\ j \in 1 .. Len(ips) + 1 /\ best \in Rule \cup {None}

Init ==
  /\ rs \in RuleLists /\ i = 1
  /\ exact = [n \in Names |-> None] /\ wild = [n \in Names |-> None]
  /\ ips = << >>
  /\ ip = None /\ j = 1 /\ best = None

-----------------------------------------------------------------------------
(* On a tie the older rule, the one with the lower ID, stays.               *)
Keep(cur, r) == IF cur = None THEN r ELSE IF r.id < cur.id THEN r ELSE cur

(* NewIndex, one rule.                                                      *)
CompileOf(kind) == i <= Len(rs) /\ rs[i].enabled /\ rs[i].pattern.kind = kind

Skip ==
  /\ i <= Len(rs) /\ ~ rs[i].enabled
  /\ i' = i + 1 /\ UNCHANGED <<rs, exact, wild, ips, ip, j, best>>

CompileIP ==
  /\ CompileOf("ip")
  /\ ips' = Append(ips, rs[i])
  /\ i' = i + 1 /\ UNCHANGED <<rs, exact, wild, ip, j, best>>

CompileExact ==
  /\ CompileOf("exact")
  /\ exact' = [exact EXCEPT ![rs[i].pattern.body] = Keep(@, rs[i])]
  /\ i' = i + 1 /\ UNCHANGED <<rs, wild, ips, ip, j, best>>

CompileWild ==
  /\ CompileOf("wild")
  /\ wild' = [wild EXCEPT ![rs[i].pattern.body] = Keep(@, rs[i])]
  /\ i' = i + 1 /\ UNCHANGED <<rs, exact, ips, ip, j, best>>

Compiled == i = Len(rs) + 1

(* Covering with a bug: a wildcard does not match its own body.             *)
CoveringParents(n) == {k \in 1 .. Len(n) - 1 : wild[Parent(n, k)] # None}

(* Index.MostSpecific: the exact name, then wildcards from the name itself  *)
(* up through its parents.                                                  *)
Covering(n) == {k \in 1 .. Len(n) : wild[Parent(n, k)] # None}
Deepest(K)  == CHOOSE k \in K : \A l \in K : l <= k

MostSpecific(n) ==
  IF exact[n] # None THEN exact[n]
  ELSE IF Covering(n) = {} THEN None ELSE wild[Parent(n, Deepest(Covering(n)))]

(* Better with a bug: the first rule of the list wins a tie.                *)
BetterFirst(c) == best = None \/ Len(c.pattern.body) > Len(best.pattern.body)

(* Index.MostSpecificIP: longest prefix, then lowest ID.                    *)
Better(c) ==
  IF best = None THEN TRUE
  ELSE \/ Len(c.pattern.body) > Len(best.pattern.body)
       \/ Len(c.pattern.body) = Len(best.pattern.body) /\ c.id < best.id

Scanned == ip # None /\ j = Len(ips) + 1

LookUpIP(a) ==
  /\ Compiled /\ (ip = None \/ Scanned)
  /\ ip' = a /\ j' = 1 /\ best' = None
  /\ UNCHANGED <<rs, i, exact, wild, ips>>

Scan ==
  /\ ip # None /\ j <= Len(ips)
  /\ best' = IF IsPrefixOf(ips[j].pattern.body, ip) /\ Better(ips[j]) THEN ips[j] ELSE best
  /\ j' = j + 1
  /\ UNCHANGED <<rs, i, exact, wild, ips, ip>>

Next == Skip \/ CompileIP \/ CompileExact \/ CompileWild \/ Scan \/ \E a \in Addresses : LookUpIP(a)

Spec == Init /\ [][Next]_vars

-----------------------------------------------------------------------------
(* The definition of rules.go.                                              *)

Match(p, n) ==
  \/ p.kind = "exact" /\ p.body = n
  \/ p.kind = "wild" /\ IsPrefixOf(p.body, n)
Specificity(p) == 2 * Len(p.body) + IF p.kind = "exact" THEN 1 ELSE 0

(* rules.MostSpecific: r decides name n under list l.                       *)
Decides(l, n, r) ==
  LET matching == {l[k] : k \in {k \in DOMAIN l : l[k].enabled /\ Match(l[k].pattern, n)}}
  IN  IF matching = {} THEN r = None
      ELSE /\ r \in matching
           /\ \A s \in matching :
                \/ Specificity(s.pattern) < Specificity(r.pattern)
                \/ Specificity(s.pattern) = Specificity(r.pattern) /\ r.id <= s.id

(* rules.MostSpecificIP.                                                    *)
DecidesIP(l, a, r) ==
  LET matching == {l[k] : k \in {k \in DOMAIN l : /\ l[k].enabled /\ l[k].pattern.kind = "ip"
                                                  /\ IsPrefixOf(l[k].pattern.body, a)}}
  IN  IF matching = {} THEN r = None
      ELSE /\ r \in matching
           /\ \A s \in matching :
                \/ Len(s.pattern.body) < Len(r.pattern.body)
                \/ Len(s.pattern.body) = Len(r.pattern.body) /\ r.id <= s.id

-----------------------------------------------------------------------------
(* Properties                                                               *)

(* The index "answers with the same semantics": for every name the compiled *)
(* lookup returns the rule that the scan over the whole list would.         *)
IndexAgrees == Compiled => \A n \in Names : Decides(rs, n, MostSpecific(n))

(* The same for destination addresses.                                      *)
IPIndexAgrees == Scanned => DecidesIP(rs, ip, best)

(* Both lookups of the index.                                               *)
LookupsAgree == IndexAgrees /\ IPIndexAgrees
=============================================================================
