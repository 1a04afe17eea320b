----------------------------- MODULE PauseSpec -----------------------------
(***************************************************************************)
(* What the destination brakes promise, with no clocks and no ladder: a     *)
(* destination is refused only on evidence, one good connection lifts the   *)
(* refusal and wipes the evidence, and every refusal may lapse.             *)
(***************************************************************************)
EXTENDS Naturals

CONSTANT Keys

VARIABLES
  needed,  \* how many dead connections in a row it takes; never changes
  fails, paused

pauseVars == <<needed, fails, paused>>

PauseInit ==
  /\ needed \in Nat \ {0}
  /\ fails = [k \in Keys |-> 0]
  /\ paused = [k \in Keys |-> FALSE]

(* One more dead connection.  The refusal may begin (or be renewed) only    *)
(* once "needed" of them came with nothing good in between.                   *)
Failure(k) ==
  /\ fails' = [fails EXCEPT ![k] = IF @ < needed THEN @ + 1 ELSE @]
  /\ \/ paused' = paused
     \/ fails'[k] >= needed /\ paused' = [paused EXCEPT ![k] = TRUE]

(* Every exit refused the destination: proof, not a hint.                   *)
Verdict(k) ==
  /\ fails' = [fails EXCEPT ![k] = needed]
  /\ paused' = [paused EXCEPT ![k] = TRUE]

Good(k) ==
  /\ fails' = [fails EXCEPT ![k] = 0]
  /\ paused' = [paused EXCEPT ![k] = FALSE]

Lapse(S) ==
  /\ paused' = [k \in Keys |-> IF k \in S THEN FALSE ELSE paused[k]]
  /\ fails' = fails

Forget ==
  /\ fails' = [k \in Keys |-> 0]
  /\ paused' = [k \in Keys |-> FALSE]

PauseNext ==
  /\ UNCHANGED needed
  /\ \/ \E k \in Keys : Failure(k) \/ Verdict(k) \/ Good(k)
     \/ \E S \in SUBSET Keys : Lapse(S)
     \/ Forget

PauseSpecification == PauseInit /\ [][PauseNext]_pauseVars
=============================================================================
