------------------------- MODULE PathBreaker_proof -------------------------
(***************************************************************************)
(* Proof that both brakes implement PauseSpec, for any destinations, any    *)
(* number of connections, any thresholds and any ladder.  The inductive     *)
(* invariant says that the strikes an entry still holds are never more than *)
(* the dead connections the ghost has counted, so a penalty that the strike *)
(* counter triggers is one the evidence supports.                           *)
(***************************************************************************)
EXTENDS PathBreaker, TLAPS

EntryType == [strikes : Nat, level : 1..Len(Ladder), left : Nat,
              probeAgo : Nat, idle : Nat, rung : 1..Len(Ladder)]

StrikesBacked ==
  \A k \in Keys : /\ entries[k].strikes <= evidence[k]
                  /\ evidence[k] <= Threshold

BreakerInv == BreakerTypeOK /\ StrikesBacked

(* The thresholds and the rungs are positive.                               *)
LEMMA Positive ==
  ASSUME transport \in {"tcp", "udp"}
  PROVE  /\ Threshold \in Nat \ {0}
         /\ Len(Ladder) \in Nat \ {0}
         /\ \A l \in 1..Len(Ladder) : Ladder[l] \in Nat \ {0}
<1>1. Threshold \in Nat \ {0}  BY BreakerAssumption DEF Threshold
<1>2. Len(Ladder) \in Nat \ {0}  BY BreakerAssumption
<1>3. \A l \in 1..Len(Ladder) : Ladder[l] \in Nat \ {0}  BY BreakerAssumption
<1> QED  BY <1>1, <1>2, <1>3

(* What each operation on an entry does to its type, its strikes and its    *)
(* penalty.                                                                 *)
LEMMA AbsentFacts ==
  /\ Absent \in EntryType /\ Absent.strikes = 0 /\ ~Penalised(Absent)
BY BreakerAssumption DEF Absent, EntryType, Penalised

LEMMA PrunedFacts ==
  ASSUME NEW e \in EntryType
  PROVE  /\ Pruned(e) \in EntryType
         /\ Pruned(e).strikes <= e.strikes
         /\ Penalised(Pruned(e)) <=> Penalised(e)
BY AbsentFacts DEF Pruned, Penalised, EntryType

LEMMA SentenceFacts ==
  ASSUME NEW e \in EntryType, transport \in {"tcp", "udp"}
  PROVE  /\ Sentence(e) \in EntryType
         /\ Sentence(e).strikes = 0
         /\ Penalised(Sentence(e))
<1>1. e.level \in 1..Len(Ladder)  BY DEF EntryType
<1>2. Ladder[e.level] \in Nat \ {0}  BY <1>1, Positive
<1>3. NextLevel(e.level) \in 1..Len(Ladder)  BY <1>1, Positive DEF NextLevel
<1>4. Sentence(e) \in EntryType  BY <1>1, <1>2, <1>3 DEF Sentence, EntryType
<1>5. Sentence(e).strikes = 0  BY DEF Sentence, EntryType
<1>6. Sentence(e).left = Ladder[e.level]  BY <1>2 DEF Sentence, EntryType
<1> QED  BY <1>2, <1>4, <1>5, <1>6 DEF Penalised

LEMMA StruckFacts ==
  ASSUME NEW e \in EntryType, transport \in {"tcp", "udp"}
  PROVE  /\ Struck(e) \in EntryType
         /\ Struck(e).strikes <= e.strikes + 1
         /\ e.strikes <= Threshold => Struck(e).strikes <= Threshold
         /\ \/ Penalised(Struck(e)) <=> Penalised(e)
            \/ e.strikes + 1 >= Threshold /\ Penalised(Struck(e))
<1>0. /\ e.level \in 1..Len(Ladder) /\ e.strikes \in Nat /\ e.left \in Nat
      /\ Threshold \in Nat
  BY Positive DEF EntryType
<1>1. CASE transport = "tcp" /\ Penalised(e)
  <2>1. Ladder[e.level] \in Nat \ {0}  BY <1>0, Positive
  <2>2. Struck(e) = [e EXCEPT !.left = Ladder[e.level], !.idle = 0]  BY <1>1 DEF Struck
  <2>a. [e EXCEPT !.left = Ladder[e.level], !.idle = 0] \in EntryType  BY <2>1 DEF EntryType
  <2>3. Struck(e) \in EntryType  BY <2>a, <2>2
  <2>4. Struck(e).strikes = e.strikes  BY <2>2 DEF EntryType
  <2>5. Struck(e).left = Ladder[e.level]  BY <2>2 DEF EntryType
  <2> QED  BY <1>0, <1>1, <2>1, <2>3, <2>4, <2>5 DEF Penalised
<1>2. CASE ~(transport = "tcp" /\ Penalised(e)) /\ e.strikes + 1 < Threshold
  <2>1. Struck(e) = [e EXCEPT !.strikes = e.strikes + 1, !.idle = 0]  BY <1>2 DEF Struck
  <2>a. [e EXCEPT !.strikes = e.strikes + 1, !.idle = 0] \in EntryType
    <3>1. \A n \in Nat : [e EXCEPT !.strikes = n, !.idle = 0] \in EntryType  BY DEF EntryType
    <3>2. e.strikes + 1 \in Nat  BY <1>0
    <3> QED  BY <3>1, <3>2
  <2>2. Struck(e) \in EntryType  BY <2>a, <2>1
  <2>3. Struck(e).strikes = e.strikes + 1  BY <2>1 DEF EntryType
  <2>4. Struck(e).left = e.left  BY <2>1 DEF EntryType
  <2> QED  BY <1>0, <1>2, <2>2, <2>3, <2>4 DEF Penalised
<1>3. CASE ~(transport = "tcp" /\ Penalised(e)) /\ ~(e.strikes + 1 < Threshold)
  <2>1. Struck(e) = Sentence(e)  BY <1>3 DEF Struck
  <2> QED  BY <1>0, <1>3, <2>1, SentenceFacts
<1> QED  BY <1>1, <1>2, <1>3

LEMMA ClearedFacts ==
  ASSUME NEW e \in EntryType
  PROVE  /\ Cleared(e) \in EntryType /\ Cleared(e).strikes = 0 /\ ~Penalised(Cleared(e))
<1>1. CASE e = Absent  BY <1>1, AbsentFacts DEF Cleared
<1>2. CASE e # Absent
  <2>1. Cleared(e) = [e EXCEPT !.strikes = 0, !.level = 1, !.left = 0, !.idle = 0]
    BY <1>2 DEF Cleared
  <2>2. 1 \in 1..Len(Ladder)  BY BreakerAssumption
  <2>a. [e EXCEPT !.strikes = 0, !.level = 1, !.left = 0, !.idle = 0] \in EntryType
    BY <2>2 DEF EntryType
  <2>3. Cleared(e) \in EntryType  BY <2>a, <2>1
  <2>4. Cleared(e).strikes = 0  BY <2>1 DEF EntryType
  <2>5. Cleared(e).left = 0  BY <2>1 DEF EntryType
  <2> QED  BY <2>3, <2>4, <2>5 DEF Penalised
<1> QED  BY <1>1, <1>2

LEMMA SeenFacts ==
  ASSUME NEW e \in EntryType
  PROVE  /\ Seen(e) \in EntryType /\ Seen(e).strikes = e.strikes
         /\ Penalised(Seen(e)) <=> Penalised(e)
<1>1. CASE e = Absent  BY <1>1 DEF Seen
<1>2. CASE e # Absent
  <2>1. Seen(e) = [e EXCEPT !.idle = 0]  BY <1>2 DEF Seen
  <2>2. Seen(e) \in EntryType  BY <2>1 DEF EntryType
  <2>3. Seen(e).strikes = e.strikes  BY <2>1 DEF EntryType
  <2>4. Seen(e).left = e.left  BY <2>1 DEF EntryType
  <2> QED  BY <2>2, <2>3, <2>4 DEF Penalised
<1> QED  BY <1>1, <1>2

LEMMA ProbedFacts ==
  ASSUME NEW e \in EntryType
  PROVE  /\ [e EXCEPT !.probeAgo = 0] \in EntryType
         /\ [e EXCEPT !.probeAgo = 0].strikes = e.strikes
         /\ Penalised([e EXCEPT !.probeAgo = 0]) <=> Penalised(e)
<1>1. [e EXCEPT !.probeAgo = 0] \in EntryType  BY DEF EntryType
<1>2. [e EXCEPT !.probeAgo = 0].strikes = e.strikes  BY DEF EntryType
<1>3. [e EXCEPT !.probeAgo = 0].left = e.left  BY DEF EntryType
<1> QED  BY <1>1, <1>2, <1>3 DEF Penalised

LEMMA AgedFacts ==
  ASSUME NEW e \in EntryType
  PROVE  /\ Aged(e) \in EntryType /\ Aged(e).strikes = e.strikes
         /\ Penalised(Aged(e)) => Penalised(e)
<1>1. CASE e = Absent  BY <1>1 DEF Aged
<1>2. CASE e # Absent
  <2> DEFINE l == IF e.left > 0 THEN e.left - 1 ELSE 0
             p == IF e.probeAgo < ProbeInterval THEN e.probeAgo + 1 ELSE e.probeAgo
             i == IF e.idle <= EntryTTL THEN e.idle + 1 ELSE e.idle
  <2>1. Aged(e) = [e EXCEPT !.left = l, !.probeAgo = p, !.idle = i]  BY <1>2 DEF Aged
  <2>2. l \in Nat /\ p \in Nat /\ i \in Nat /\ (l > 0 => e.left > 0)
    <3>1. e.left \in Nat /\ e.probeAgo \in Nat /\ e.idle \in Nat  BY DEF EntryType
    <3>2. ProbeInterval \in Nat /\ EntryTTL \in Nat  BY BreakerAssumption
    <3> QED  BY <3>1, <3>2
  <2> HIDE DEF l, p, i
  <2>3. Aged(e) \in EntryType  BY <2>1, <2>2 DEF EntryType
  <2>4. Aged(e).strikes = e.strikes  BY <2>1 DEF EntryType
  <2>5. Aged(e).left = l  BY <2>1 DEF EntryType
  <2> QED  BY <2>2, <2>3, <2>4, <2>5 DEF Penalised
<1> QED  BY <1>1, <1>2

(***************************************************************************)
(* The invariant                                                           *)
(***************************************************************************)
LEMMA InitInv == BreakerInit => BreakerInv
<1> SUFFICES ASSUME BreakerInit PROVE BreakerInv  OBVIOUS
<1>1. BreakerTypeOK  BY AbsentFacts DEF BreakerInit, BreakerTypeOK, EntryType
<1>2. transport \in {"tcp", "udp"}  BY DEF BreakerInit
<1>3. Threshold \in Nat /\ Absent.strikes = 0  BY <1>2, AbsentFacts, Positive
<1>4. ASSUME NEW k \in Keys
      PROVE  entries[k].strikes <= evidence[k] /\ evidence[k] <= Threshold
  <2>1. entries[k] = Absent  BY DEF BreakerInit
  <2>2. evidence[k] = 0  BY DEF BreakerInit
  <2>3. entries[k].strikes = 0  BY <1>3, <2>1
  <2>4. 0 <= Threshold  BY <1>3
  <2> QED  BY <2>2, <2>3, <2>4
<1> QED  BY <1>1, <1>4 DEF BreakerInv, StrikesBacked

(* The four things a connection's end, a reset or a prune do to the table:  *)
(* each keeps the invariant and is a step of PauseSpec.                     *)
TableInv == /\ transport \in {"tcp", "udp"}
            /\ entries \in [Keys -> EntryType]
            /\ evidence \in [Keys -> Nat]
            /\ StrikesBacked

PausedNow == [k \in Keys |-> Penalised(entries[k])]

LEMMA StrikeStep ==
  ASSUME TableInv, NEW k \in Keys, strike(k), transport' = transport
  PROVE  TableInv' /\ Pause!Failure(k)
<1> DEFINE p == [j \in Keys |-> Pruned(entries[j])]
<1> DEFINE n == IF evidence[k] + 1 < Threshold THEN evidence[k] + 1 ELSE Threshold
<1>0. Threshold \in Nat \ {0} /\ Threshold' = Threshold
  BY Positive DEF TableInv, Threshold
<1>1. \A j \in Keys : /\ entries[j] \in EntryType /\ p[j] \in EntryType
                      /\ p[j].strikes <= entries[j].strikes
                      /\ Penalised(p[j]) <=> Penalised(entries[j])
  BY PrunedFacts DEF TableInv
<1>2. entries' = [p EXCEPT ![k] = Struck(p[k])]  BY DEF strike
<1>3. evidence' = [evidence EXCEPT ![k] = n]  BY DEF strike, Evidence
<1>4. /\ Struck(p[k]) \in EntryType
      /\ Struck(p[k]).strikes <= p[k].strikes + 1
      /\ p[k].strikes <= Threshold => Struck(p[k]).strikes <= Threshold
      /\ \/ Penalised(Struck(p[k])) <=> Penalised(p[k])
         \/ p[k].strikes + 1 >= Threshold /\ Penalised(Struck(p[k]))
  BY <1>1, StruckFacts DEF TableInv
<1>5. /\ evidence \in [Keys -> Nat] /\ n \in Nat
      /\ \A j \in Keys : entries[j].strikes <= evidence[j] /\ evidence[j] <= Threshold
  BY <1>0 DEF TableInv, StrikesBacked
<1>6. \A j \in Keys : entries[j].strikes \in Nat /\ p[j].strikes \in Nat
  BY <1>1 DEF EntryType
<1>7. Struck(p[k]).strikes \in Nat  BY <1>4 DEF EntryType
<1> HIDE DEF p, n
<1>8. entries' \in [Keys -> EntryType] /\ evidence' \in [Keys -> Nat]
  <2>1. p \in [Keys -> EntryType]  BY <1>1 DEF p
  <2> QED  BY <1>2, <1>3, <1>4, <1>5, <2>1
<1>9. \A j \in Keys : entries'[j].strikes <= evidence'[j] /\ evidence'[j] <= Threshold
  <2> SUFFICES ASSUME NEW j \in Keys
               PROVE  entries'[j].strikes <= evidence'[j] /\ evidence'[j] <= Threshold
    OBVIOUS
  <2>1. CASE j # k
    <3>1. entries'[j] = p[j] /\ evidence'[j] = evidence[j]
      BY <1>2, <1>3, <1>5, <2>1 DEF p
    <3> QED  BY <3>1, <1>0, <1>1, <1>5, <1>6
  <2>2. CASE j = k
    <3>1. entries'[k] = Struck(p[k]) /\ evidence'[k] = n
      BY <1>2, <1>3, <1>5 DEF p
    <3> QED  BY <2>2, <3>1, <1>0, <1>1, <1>4, <1>5, <1>6, <1>7 DEF n
  <2> QED  BY <2>1, <2>2
<1>10. TableInv'  BY <1>0, <1>8, <1>9 DEF TableInv, StrikesBacked
<1>11. evidence' = [evidence EXCEPT ![k] = IF @ < Threshold THEN @ + 1 ELSE @]
  <2>1. n = IF evidence[k] < Threshold THEN evidence[k] + 1 ELSE evidence[k]
    BY <1>0, <1>5 DEF n
  <2> QED  BY <1>3, <2>1
<1>12. \/ PausedNow' = PausedNow
       \/ evidence'[k] >= Threshold /\ PausedNow' = [PausedNow EXCEPT ![k] = TRUE]
  <2>1. \A j \in Keys \ {k} : Penalised(entries'[j]) <=> Penalised(entries[j])
    BY <1>1, <1>2 DEF p
  <2>2. entries'[k] = Struck(p[k])  BY <1>2 DEF p
  <2>3. CASE Penalised(Struck(p[k])) <=> Penalised(p[k])
    <3>1. \A j \in Keys : Penalised(entries'[j]) <=> Penalised(entries[j])
      BY <2>1, <2>2, <2>3, <1>1
    <3> QED  BY <3>1 DEF PausedNow, Penalised
  <2>4. CASE p[k].strikes + 1 >= Threshold /\ Penalised(Struck(p[k]))
    <3>1. evidence'[k] >= Threshold
      BY <2>4, <1>0, <1>1, <1>3, <1>5, <1>6 DEF n
    <3>2. PausedNow' = [PausedNow EXCEPT ![k] = TRUE]
      <4>1. \A j \in Keys : Penalised(entries'[j]) = IF j = k THEN TRUE ELSE Penalised(entries[j])
        <5>1. ASSUME NEW j \in Keys, j # k PROVE Penalised(entries'[j]) = Penalised(entries[j])
          BY <2>1, <5>1 DEF Penalised
        <5>2. Penalised(entries'[k]) = TRUE  BY <2>2, <2>4 DEF Penalised
        <5> QED  BY <5>1, <5>2, Zenon
      <4>2. [PausedNow EXCEPT ![k] = TRUE]
              = [j \in Keys |-> IF j = k THEN TRUE ELSE Penalised(entries[j])]
        BY Zenon DEF PausedNow
      <4>3. PausedNow' = [j \in Keys |-> Penalised(entries'[j])]
        BY Zenon DEF PausedNow, Penalised
      <4> QED  BY <4>1, <4>2, <4>3, Zenon
    <3> QED  BY <3>1, <3>2
  <2> QED  BY <2>3, <2>4, <1>4
<1> QED  BY <1>0, <1>10, <1>11, <1>12 DEF Pause!Failure, PausedNow

(* PausedNow after an update that sets one key and keeps the others.        *)
LEMMA PausedAt ==
  ASSUME NEW k \in Keys, NEW b \in BOOLEAN,
         Penalised(entries'[k]) = b,
         \A j \in Keys \ {k} : Penalised(entries'[j]) = Penalised(entries[j])
  PROVE  PausedNow' = [PausedNow EXCEPT ![k] = b]
<1>1. [PausedNow EXCEPT ![k] = b] = [j \in Keys |-> IF j = k THEN b ELSE Penalised(entries[j])]
  BY Zenon DEF PausedNow
<1>2. PausedNow' = [j \in Keys |-> Penalised(entries'[j])]
  BY Zenon DEF PausedNow, Penalised
<1>3. \A j \in Keys : Penalised(entries'[j]) = IF j = k THEN b ELSE Penalised(entries[j])
  BY Zenon
<1> QED  BY <1>1, <1>2, <1>3, Zenon

LEMMA CondemnStep ==
  ASSUME TableInv, NEW k \in Keys, condemn(k), transport' = transport
  PROVE  TableInv' /\ Pause!Verdict(k)
<1> DEFINE p == [j \in Keys |-> Pruned(entries[j])]
<1>0. Threshold \in Nat \ {0} /\ Threshold' = Threshold
  BY Positive DEF TableInv, Threshold
<1>1. \A j \in Keys : /\ entries[j] \in EntryType /\ p[j] \in EntryType
                      /\ p[j].strikes <= entries[j].strikes
                      /\ Penalised(p[j]) <=> Penalised(entries[j])
  BY PrunedFacts DEF TableInv
<1>2. entries' = [p EXCEPT ![k] = Sentence(p[k])]  BY DEF condemn
<1>3. evidence' = [evidence EXCEPT ![k] = Threshold]  BY <1>0 DEF condemn, Evidence
<1>4. /\ Sentence(p[k]) \in EntryType /\ Sentence(p[k]).strikes = 0
      /\ Penalised(Sentence(p[k]))
  BY <1>1, SentenceFacts DEF TableInv
<1>5. /\ evidence \in [Keys -> Nat]
      /\ \A j \in Keys : entries[j].strikes <= evidence[j] /\ evidence[j] <= Threshold
  BY DEF TableInv, StrikesBacked
<1>6. \A j \in Keys : entries[j].strikes \in Nat /\ p[j].strikes \in Nat
  BY <1>1 DEF EntryType
<1>7. p \in [Keys -> EntryType]  BY <1>1
<1> HIDE DEF p
<1>8. /\ entries'[k] = Sentence(p[k]) /\ evidence'[k] = Threshold
      /\ \A j \in Keys \ {k} : entries'[j] = p[j] /\ evidence'[j] = evidence[j]
  BY <1>2, <1>3, <1>5, <1>7
<1>9. entries' \in [Keys -> EntryType] /\ evidence' \in [Keys -> Nat]
  BY <1>0, <1>2, <1>3, <1>4, <1>5, <1>7
<1>10. ASSUME NEW j \in Keys
       PROVE  entries'[j].strikes <= evidence'[j] /\ evidence'[j] <= Threshold
  <2>1. CASE j = k  BY <2>1, <1>0, <1>4, <1>8
  <2>2. CASE j # k  BY <2>2, <1>0, <1>1, <1>5, <1>6, <1>8
  <2> QED  BY <2>1, <2>2
<1>11. TableInv'  BY <1>0, <1>9, <1>10 DEF TableInv, StrikesBacked
<1>12. Penalised(entries'[k]) = TRUE  BY <1>4, <1>8 DEF Penalised
<1>13. \A j \in Keys \ {k} : Penalised(entries'[j]) = Penalised(entries[j])
  BY <1>1, <1>8 DEF Penalised
<1>14. PausedNow' = [PausedNow EXCEPT ![k] = TRUE]  BY <1>12, <1>13, PausedAt
<1> QED  BY <1>3, <1>11, <1>14 DEF Pause!Verdict, PausedNow

LEMMA SuccessStep ==
  ASSUME TableInv, NEW k \in Keys, success(k), transport' = transport
  PROVE  TableInv' /\ Pause!Good(k)
<1>0. Threshold \in Nat \ {0} /\ Threshold' = Threshold
  BY Positive DEF TableInv, Threshold
<1>1. \A j \in Keys : entries[j] \in EntryType  BY DEF TableInv
<1>2. entries' = [entries EXCEPT ![k] = Cleared(entries[k])]  BY DEF success
<1>a. evidence' = [evidence EXCEPT ![k] = IF 0 < Threshold THEN 0 ELSE Threshold]
  BY DEF success, Evidence
<1>b. (IF 0 < Threshold THEN 0 ELSE Threshold) = 0  BY <1>0
<1>3. evidence' = [evidence EXCEPT ![k] = 0]  BY <1>a, <1>b
<1>4. /\ Cleared(entries[k]) \in EntryType /\ Cleared(entries[k]).strikes = 0
      /\ ~Penalised(Cleared(entries[k]))
  BY <1>1, ClearedFacts
<1>5. /\ evidence \in [Keys -> Nat] /\ entries \in [Keys -> EntryType]
      /\ \A j \in Keys : entries[j].strikes <= evidence[j] /\ evidence[j] <= Threshold
  BY DEF TableInv, StrikesBacked
<1>8. /\ entries'[k] = Cleared(entries[k]) /\ evidence'[k] = 0
      /\ \A j \in Keys \ {k} : entries'[j] = entries[j] /\ evidence'[j] = evidence[j]
  BY <1>2, <1>3, <1>5
<1>9. entries' \in [Keys -> EntryType] /\ evidence' \in [Keys -> Nat]
  BY <1>2, <1>3, <1>4, <1>5
<1>10. ASSUME NEW j \in Keys
       PROVE  entries'[j].strikes <= evidence'[j] /\ evidence'[j] <= Threshold
  <2>1. CASE j = k  BY <2>1, <1>0, <1>4, <1>8
  <2>2. CASE j # k  BY <2>2, <1>5, <1>8
  <2> QED  BY <2>1, <2>2
<1>11. TableInv'  BY <1>0, <1>9, <1>10 DEF TableInv, StrikesBacked
<1>12. Penalised(entries'[k]) = FALSE  BY <1>4, <1>8 DEF Penalised
<1>13. \A j \in Keys \ {k} : Penalised(entries'[j]) = Penalised(entries[j])
  BY <1>8 DEF Penalised
<1>14. PausedNow' = [PausedNow EXCEPT ![k] = FALSE]  BY <1>12, <1>13, PausedAt
<1> QED  BY <1>3, <1>11, <1>14 DEF Pause!Good, PausedNow

LEMMA ResetStep ==
  ASSUME TableInv, reset, transport' = transport
  PROVE  TableInv' /\ Pause!Forget
<1>0. Threshold \in Nat \ {0} /\ Threshold' = Threshold
  BY Positive DEF TableInv, Threshold
<1>1. \A k \in Keys : entries'[k] = Absent /\ evidence'[k] = 0  BY DEF reset
<1>2. entries' \in [Keys -> EntryType] /\ evidence' \in [Keys -> Nat]
  BY AbsentFacts DEF reset
<1>3. ASSUME NEW j \in Keys
      PROVE  entries'[j].strikes <= evidence'[j] /\ evidence'[j] <= Threshold
  <2>1. entries'[j].strikes = 0  BY <1>1, AbsentFacts
  <2>2. evidence'[j] = 0  BY <1>1
  <2> QED  BY <2>1, <2>2, <1>0
<1>4. TableInv'  BY <1>0, <1>2, <1>3 DEF TableInv, StrikesBacked
<1>5. \A k \in Keys : Penalised(entries'[k]) = FALSE  BY <1>1, AbsentFacts DEF Penalised
<1>6. PausedNow' = [k \in Keys |-> FALSE]
  <2>1. PausedNow' = [j \in Keys |-> Penalised(entries'[j])]
    BY Zenon DEF PausedNow, Penalised
  <2> QED  BY <1>5, <2>1, Zenon
<1> QED  BY <1>4, <1>6 DEF Pause!Forget, PausedNow, reset

(* Opening, refusing and the passage of time: strikes and evidence stay and *)
(* no penalty begins.                                                       *)
LEMMA QuietStep ==
  ASSUME TableInv, transport' = transport, evidence' = evidence,
         entries' \in [Keys -> EntryType],
         \A k \in Keys : /\ entries'[k].strikes = entries[k].strikes
                         /\ Penalised(entries'[k]) => Penalised(entries[k])
  PROVE  TableInv' /\ \E S \in SUBSET Keys : Pause!Lapse(S)
<1>0. Threshold' = Threshold  BY DEF Threshold
<1>1. TableInv'  BY <1>0 DEF TableInv, StrikesBacked
<1> DEFINE S == {k \in Keys : ~Penalised(entries'[k])}
<1>2. \A k \in Keys : Penalised(entries'[k]) = IF k \in S THEN FALSE ELSE Penalised(entries[k])
  <2>1. ASSUME NEW k \in Keys, k \in S PROVE Penalised(entries'[k]) = FALSE
    BY <2>1 DEF Penalised
  <2>2. ASSUME NEW k \in Keys, k \notin S PROVE Penalised(entries'[k]) = Penalised(entries[k])
    BY <2>2 DEF Penalised
  <2> QED  BY <2>1, <2>2, Zenon
<1>3. PausedNow' = [k \in Keys |-> Penalised(entries'[k])]
  BY Zenon DEF PausedNow, Penalised
<1>4. \A k \in Keys : PausedNow[k] = Penalised(entries[k])  BY Zenon DEF PausedNow
<1>5. PausedNow' = [k \in Keys |-> IF k \in S THEN FALSE ELSE PausedNow[k]]
  BY <1>2, <1>3, <1>4, Zenon
<1>6. Pause!Lapse(S)  BY <1>5, Zenon DEF Pause!Lapse, PausedNow
<1> QED  BY <1>1, <1>6

(* Where connections are: they only ever carry a known destination.         *)
FlightOK == flight \in [Conns -> {Idle} \cup [key : Keys, hope : BOOLEAN, got : BOOLEAN]]

LEMMA InvParts == BreakerInv <=> TableInv /\ FlightOK
BY DEF BreakerInv, TableInv, FlightOK, BreakerTypeOK, EntryType

LEMMA FlightStep ==
  ASSUME FlightOK, path \in [Keys -> BOOLEAN], [BreakerNext]_breakerVars
  PROVE  FlightOK' /\ (path \in [Keys -> BOOLEAN])'
<1>0. \A c \in Conns : flight[c] \in {Idle} \cup [key : Keys, hope : BOOLEAN, got : BOOLEAN]
  BY DEF FlightOK
<1>1. ASSUME NEW c \in Conns, NEW k \in Keys, Open(c, k) PROVE FlightOK' /\ path' = path
  BY <1>1 DEF Open, FlightOK
<1>2. ASSUME NEW c \in Conns, Answer(c) PROVE FlightOK' /\ path' = path
  <2>1. flight[c] \in [key : Keys, hope : BOOLEAN, got : BOOLEAN]
    BY <1>0, <1>2 DEF Answer, Idle
  <2> QED  BY <1>2, <2>1 DEF Answer, FlightOK
<1>3. ASSUME NEW c \in Conns, End(c) PROVE FlightOK' /\ path' = path
  BY <1>3 DEF End, FlightOK
<1>4. ASSUME NEW k \in Keys, PathChanges(k) PROVE FlightOK' /\ path' \in [Keys -> BOOLEAN]
  <2>1. ASSUME NEW c \in Conns, flight[c] # Idle
        PROVE  [flight[c] EXCEPT !.hope = FALSE] \in [key : Keys, hope : BOOLEAN, got : BOOLEAN]
    BY <1>0, <2>1
  <2>2. FlightOK'  BY <1>0, <1>4, <2>1 DEF PathChanges, FlightOK
  <2>3. path' \in [Keys -> BOOLEAN]  BY <1>4 DEF PathChanges
  <2> QED  BY <2>2, <2>3
<1>5. CASE \/ \E k \in Keys : Refuse(k)
           \/ networkEvent \/ watchSleep \/ RouteMoves \/ Tick
           \/ UNCHANGED breakerVars
  BY <1>5 DEF Refuse, networkEvent, watchSleep, RouteMoves, Tick, breakerVars, FlightOK
<1> QED  BY <1>1, <1>2, <1>3, <1>4, <1>5 DEF BreakerNext

(* Every step keeps the table's invariant and is a step of PauseSpec.       *)
LEMMA TableStep ==
  ASSUME TableInv, FlightOK, [BreakerNext]_breakerVars
  PROVE  TableInv' /\ [Pause!PauseNext]_(Pause!pauseVars)
<1>0. /\ entries \in [Keys -> EntryType]
      /\ \A k \in Keys : entries[k] \in EntryType
  BY DEF TableInv
<1>1. transport' = transport
  BY DEF BreakerNext, breakerVars, Open, Answer, End, Refuse, PathChanges, networkEvent,
         watchSleep, RouteMoves, Tick
<1>2. Threshold' = Threshold  BY <1>1 DEF Threshold
<1>3. CASE entries' = entries /\ evidence' = evidence
  <2>1. TableInv'  BY <1>1, <1>2, <1>3 DEF TableInv, StrikesBacked
  <2>2. PausedNow' = PausedNow  BY <1>3, Zenon DEF PausedNow, Penalised
  <2> QED  BY <1>2, <1>3, <2>1, <2>2 DEF Pause!pauseVars, PausedNow
<1>4. ASSUME NEW c \in Conns, NEW k \in Keys, Open(c, k)
      PROVE  TableInv' /\ \E S \in SUBSET Keys : Pause!Lapse(S)
  <2> DEFINE e == IF Penalised(entries[k]) THEN [Seen(entries[k]) EXCEPT !.probeAgo = 0]
                  ELSE Seen(entries[k])
  <2>1. entries' = [entries EXCEPT ![k] = e] /\ evidence' = evidence  BY <1>4 DEF Open
  <2>2. /\ e \in EntryType /\ e.strikes = entries[k].strikes
        /\ Penalised(e) <=> Penalised(entries[k])
    BY <1>0, SeenFacts, ProbedFacts
  <2> HIDE DEF e
  <2>3. entries' \in [Keys -> EntryType]  BY <1>0, <2>1, <2>2
  <2>4. \A j \in Keys : /\ entries'[j].strikes = entries[j].strikes
                        /\ Penalised(entries'[j]) => Penalised(entries[j])
    <3> SUFFICES ASSUME NEW j \in Keys
                 PROVE  /\ entries'[j].strikes = entries[j].strikes
                        /\ Penalised(entries'[j]) => Penalised(entries[j])
      OBVIOUS
    <3>1. CASE j = k
      <4>1. entries'[j] = e  BY <1>0, <2>1, <3>1
      <4> QED  BY <2>2, <3>1, <4>1
    <3>2. CASE j # k
      <4>1. entries'[j] = entries[j]  BY <1>0, <2>1, <3>2
      <4> QED  BY <4>1
    <3> QED  BY <3>1, <3>2
  <2> QED  BY <1>1, <2>1, <2>3, <2>4, QuietStep
<1>5. ASSUME NEW k \in Keys, Refuse(k)
      PROVE  TableInv' /\ \E S \in SUBSET Keys : Pause!Lapse(S)
  <2> DEFINE e == Seen(entries[k])
  <2>1. entries' = [entries EXCEPT ![k] = e] /\ evidence' = evidence  BY <1>5 DEF Refuse
  <2>2. /\ e \in EntryType /\ e.strikes = entries[k].strikes
        /\ Penalised(e) <=> Penalised(entries[k])
    BY <1>0, SeenFacts
  <2> HIDE DEF e
  <2>3. entries' \in [Keys -> EntryType]  BY <1>0, <2>1, <2>2
  <2>4. \A j \in Keys : /\ entries'[j].strikes = entries[j].strikes
                        /\ Penalised(entries'[j]) => Penalised(entries[j])
    <3> SUFFICES ASSUME NEW j \in Keys
                 PROVE  /\ entries'[j].strikes = entries[j].strikes
                        /\ Penalised(entries'[j]) => Penalised(entries[j])
      OBVIOUS
    <3>1. CASE j = k
      <4>1. entries'[j] = e  BY <1>0, <2>1, <3>1
      <4> QED  BY <2>2, <3>1, <4>1
    <3>2. CASE j # k
      <4>1. entries'[j] = entries[j]  BY <1>0, <2>1, <3>2
      <4> QED  BY <4>1
    <3> QED  BY <3>1, <3>2
  <2> QED  BY <1>1, <2>1, <2>3, <2>4, QuietStep
<1>6. ASSUME Tick PROVE TableInv' /\ \E S \in SUBSET Keys : Pause!Lapse(S)
  <2>1. \A k \in Keys : entries'[k] = Aged(entries[k])  BY <1>6 DEF Tick
  <2>2. evidence' = evidence  BY <1>6 DEF Tick
  <2>3. entries' \in [Keys -> EntryType]  BY <1>0, <1>6, AgedFacts DEF Tick
  <2>4. \A k \in Keys : /\ entries'[k].strikes = entries[k].strikes
                        /\ Penalised(entries'[k]) => Penalised(entries[k])
    BY <1>0, <2>1, AgedFacts
  <2> QED  BY <1>1, <2>2, <2>3, <2>4, QuietStep
<1>7. ASSUME NEW c \in Conns, End(c), ~(entries' = entries /\ evidence' = evidence)
      PROVE  TableInv' /\ \E k \in Keys : Pause!Failure(k) \/ Pause!Verdict(k) \/ Pause!Good(k)
  <2>1. flight[c].key \in Keys  BY <1>7 DEF End, FlightOK
  <2>2. success(flight[c].key) \/ strike(flight[c].key) \/ condemn(flight[c].key)
    BY <1>7 DEF End
  <2> QED  BY <1>1, <2>1, <2>2, SuccessStep, StrikeStep, CondemnStep
<1>8. ASSUME networkEvent \/ watchSleep, ~(entries' = entries /\ evidence' = evidence)
      PROVE  TableInv' /\ Pause!Forget
  <2>1. reset  BY <1>8 DEF networkEvent, watchSleep
  <2> QED  BY <1>1, <2>1, ResetStep
<1>9. CASE \/ \E c \in Conns : Answer(c)
           \/ \E k \in Keys : PathChanges(k)
           \/ RouteMoves \/ UNCHANGED breakerVars
  <2>1. entries' = entries /\ evidence' = evidence
    BY <1>9 DEF Answer, PathChanges, RouteMoves, breakerVars
  <2> QED  BY <1>3, <2>1
<1>10. ASSUME TableInv', Pause!PauseNext \/ (PausedNow' = PausedNow /\ evidence' = evidence)
       PROVE  TableInv' /\ [Pause!PauseNext]_(Pause!pauseVars)
  BY <1>2, <1>10 DEF Pause!pauseVars, PausedNow
<1>11. CASE \E c \in Conns, k \in Keys : Open(c, k)
  BY <1>2, <1>4, <1>10, <1>11 DEF Pause!PauseNext
<1>12. CASE \E k \in Keys : Refuse(k)  BY <1>2, <1>5, <1>10, <1>12 DEF Pause!PauseNext
<1>13. CASE Tick  BY <1>2, <1>6, <1>10, <1>13 DEF Pause!PauseNext
<1>14. CASE \E c \in Conns : End(c)
  BY <1>2, <1>3, <1>7, <1>10, <1>14 DEF Pause!PauseNext
<1>15. CASE networkEvent \/ watchSleep
  BY <1>2, <1>3, <1>8, <1>10, <1>15 DEF Pause!PauseNext
<1> QED  BY <1>9, <1>11, <1>12, <1>13, <1>14, <1>15 DEF BreakerNext

LEMMA InitRefines == BreakerInit => Pause!PauseInit
<1> SUFFICES ASSUME BreakerInit PROVE Pause!PauseInit  OBVIOUS
<1>1. Threshold \in Nat \ {0}  BY Positive DEF BreakerInit
<1>2. ASSUME NEW k \in Keys PROVE Penalised(entries[k]) = FALSE
  <2>1. entries[k] = Absent  BY DEF BreakerInit
  <2> QED  BY <2>1, AbsentFacts DEF Penalised
<1>3. [k \in Keys |-> Penalised(entries[k])] = [k \in Keys |-> FALSE]  BY <1>2, Zenon
<1>4. evidence = [k \in Keys |-> 0]  BY DEF BreakerInit
<1> QED  BY <1>1, <1>3, <1>4 DEF Pause!PauseInit

(* Both brakes implement PauseSpec: whatever the connections' order of      *)
(* opening and ending, the prunes, resets and clock, a destination is       *)
(* refused only on the evidence the thresholds demand.                      *)
THEOREM BrakeRefinesPause == BreakerSpec => BrakeIsFair
<1> DEFINE I == BreakerInv /\ path \in [Keys -> BOOLEAN]
<1>1. BreakerInit => I  BY InitInv DEF BreakerInit
<1>2. I /\ [BreakerNext]_breakerVars => I'
  <2>1. TableInv' /\ FlightOK' => BreakerInv'
    BY DEF BreakerInv, TableInv, FlightOK, BreakerTypeOK, EntryType
  <2> QED  BY <2>1, InvParts, FlightStep, TableStep
<1>3. I /\ [BreakerNext]_breakerVars => [Pause!PauseNext]_(Pause!pauseVars)
  BY InvParts, TableStep
<1>4. BreakerInit => Pause!PauseInit  BY InitRefines
<1> QED
  BY <1>1, <1>2, <1>3, <1>4, PTL
     DEF BreakerSpec, BrakeIsFair, Pause!PauseSpecification
=============================================================================
