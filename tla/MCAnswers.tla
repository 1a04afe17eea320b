----------------------------- MODULE MCAnswers ------------------------------
(***************************************************************************)
(* What a DNS answer leaves behind: the lease of a synthetic address       *)
(* (FakeIPPool) and, for a rule that can be edited at any time, a kernel   *)
(* route or a proxy mapping (RuleEdits).                                   *)
(*                                                                         *)
(* The two share no state, so a behaviour is a behaviour of one of them:   *)
(* `scene` says which, and the other stays at rest.                        *)
(***************************************************************************)
EXTENDS FakeIPPool
CONSTANTS r1, r2, d1, d2, utun4, tun, p1, e1, q1, Block

VARIABLES
  scene,
  rules, cache, routes, table, calls, listed, edits, switchedOn, alone, decided

editState  == <<rules, cache, routes, table, calls, listed, edits, switchedOn, alone, decided>>
answerVars == <<scene, vars, editState>>

\* A name and an address range, every request, one editor, one query.
Edits == INSTANCE RuleEdits WITH
  todo <- calls, query <- decided,
  DomainRules <- {r1}, IPRules <- {r2}, Dest <- [r \in {r1, r2} |-> IF r = r1 THEN d1 ELSE d2],
  Literal <- utun4, Proxies <- {p1}, Tun <- tun, Editors <- {e1}, Resolvers <- {q1},
  Requests <- {"add", "update", "delete", "bulk", "deleteGroup", "disableGroup", "enableGroup"},
  MaxEdits <- 2, WritesMayFail <- FALSE

-----------------------------------------------------------------------------
(* At rest: an empty lease table that nobody opens; no rules.  The stored   *)
(* rules of the other scene are enabled; an edit disables one.              *)
AnswerInit ==
  /\ scene \in {"leases", "edits"}
  /\ Init /\ Edits!Init
  /\ scene # "leases" => db = Nothing
  /\ IF scene = "edits" THEN \A r \in {r1, r2} : rules[r] # None => rules[r].enabled
     ELSE rules = [r \in {r1, r2} |-> None]

AnswerNext ==
  \/ scene = "leases" /\ Next /\ UNCHANGED <<scene, editState>>
  \/ scene = "edits" /\ Edits!Next /\ UNCHANGED <<scene, vars>>

In(s, A) == scene = s /\ A

(* The fairness of each component, in its own scene: see their Fairness.    *)
AnswerFairness ==
  /\ WF_vars(In("leases", StoreStep)) /\ \A t \in Handlers : WF_vars(In("leases", Kick(t)))
  /\ WF_editState(In("edits", Edits!EditorStep(e1)))
  /\ WF_editState(In("edits", Edits!Install(q1) \/ Edits!InstallFails(q1) \/ Edits!Record(q1)))
  /\ \A d \in {d1, d2} :
       WF_editState(In("edits", Edits!SweepRoute(d))) /\ WF_editState(In("edits", Edits!SweepMapping(d)))

AnswerSpec == AnswerInit /\ [][AnswerNext]_answerVars /\ AnswerFairness

-----------------------------------------------------------------------------
(* RuleEdits' promises, see there.                                          *)

(* With edits done, both what queries are decided by and what the kernel    *)
(* routes by follow the stored rules.                                       *)
EditsTakeEffect == Edits!EditsTakeEffect

(* Whatever a race between a query and an edit leaves behind is swept.      *)
StaleBindingsVanish == Edits!StaleBindingsVanish
=============================================================================
