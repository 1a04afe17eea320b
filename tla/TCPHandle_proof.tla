-------------------------- MODULE TCPHandle_proof --------------------------
(***************************************************************************)
(* Proofs about TCPHandle, for any binding, any number of rounds, hedges,   *)
(* gate slots and chunks: no slot and no socket is leaked, nobody pays for  *)
(* another's failure, and what was sent is delivered and billed once.       *)
(*                                                                         *)
(* The invariant has a part for each of the three processes.  Dialling      *)
(* knows which attempts may hold a socket: only members the pass has        *)
(* reached, one attempt each, and none that has been refused.  Carrying     *)
(* knows that the done channel holds one entry per copy that ended, and     *)
(* that every error has a fault behind it.  Coupled says which of the two   *)
(* runs when, from where handle is.                                         *)
(***************************************************************************)
EXTENDS TCPHandle, TLAPS

Outcomes == {"nothing", "refused", "failed"}
Attempts == {"none"} \cup Running \cup Results

DialTypes ==
    /\ dpc \in {"idle", "opening", "round", "race", "serial", "won", "after",
                "backoff", "done"}
    /\ result \in {"none", "clientGone", "refused", "nothing", "carried"}
    /\ next \in 0..N /\ used \in 0..N
    /\ attempt \in [Members -> Attempts]
    /\ said \in [Members -> Outcomes]
    /\ sock \subseteq Members /\ failed \subseteq Members
    /\ refused \subseteq Members /\ blamed \subseteq Members

\* Attempts and sockets: before and between races there are none; during one,
\* only members it has launched have an attempt, and an attempt past its dial
\* has a socket; the carrier is no attempt any more.
Attempted ==
    /\ dpc \notin {"race", "won", "done"} => sock = {} /\ InFlight = {}
    /\ dpc = "race" => \A m \in Members : m > next => attempt[m] = "none"
    /\ \A m \in Members : attempt[m] \in {"waiting", "answered"} => m \in sock
    /\ \A m \in sock : m = used \/ attempt[m] \in {"waiting", "answered"}
    /\ dpc \notin {"won", "done"} => used = 0
    /\ dpc = "won" => used # 0
    /\ used # 0 => attempt[used] = "none"

\* The refusals of a race are the last word of members it is done with.
Refusals ==
    /\ dpc = "race" => \A m \in refused : /\ said[m] = "refused"
                                          /\ m <= next /\ attempt[m] = "none"
    /\ dpc = "done" <=> result # "none"
    /\ dpc # "done" => blamed = {}
    /\ result = "carried" => used # 0
    /\ result = "refused" => \A m \in Members : said[m] = "refused"

Dialling == DialTypes /\ Attempted /\ Refusals

CopyStates == {"arm", "read", "note", "write", "stamp", "ended"}
EndedCopies == (IF copy["up"] = "ended" THEN 1 ELSE 0)
               + (IF copy["down"] = "ended" THEN 1 ELSE 0)

SpliceTypes ==
    /\ spc \in {"idle", "copy", "final", "judge", "unwind", "done"}
    /\ copy \in [Dirs -> CopyStates]
    /\ counted \in [Dirs -> Nat] /\ flushed \in [Dirs -> Nat]
    /\ billed \in [Dirs -> Nat] /\ sent \in Nat
    /\ poked \in [Dirs -> BOOLEAN]
    /\ doneQ \in Seq([dir : Dirs, err : BOOLEAN]) /\ taken \in Nat

\* Before the splice nothing has happened to it.
Unstarted ==
    spc = "idle" =>
        /\ copy = [d \in Dirs |-> "arm"] /\ doneQ = <<>> /\ taken = 0
        /\ counted = Zero /\ flushed = Zero /\ billed = Zero /\ sent = 0
        /\ ~ahead /\ ~fault /\ ~tracked

\* One entry in the done channel for each copy that ended, and the collector
\* lets the splice end only when it has read both.
Collected ==
    /\ Len(doneQ) = EndedCopies /\ taken <= Len(doneQ)
    /\ spc \in {"idle", "copy"} => taken < 2
    /\ spc \notin {"idle", "copy"} => taken = 2

\* Without a fault no copy ends in an error and none leaves a reply behind.
Faultless ==
    ~fault =>
        /\ ~shut /\ \A d \in Dirs : ~poked[d]
        /\ \A i \in DOMAIN doneQ : ~doneQ[i].err
        /\ copy["down"] = "ended" => ~ahead

\* The bill is what was flushed and the opening.
Billed ==
    /\ \A d \in Dirs : /\ billed[d] = flushed[d] + (IF d = "up" THEN sent ELSE 0)
                       /\ flushed[d] <= counted[d]
    /\ spc \in {"judge", "unwind", "done"} => flushed = counted

Carrying == SpliceTypes /\ Unstarted /\ Collected /\ Faultless /\ Billed
            /\ (spc = "idle" => ~victim)

\* Where handle is decides who runs.
Coupled ==
    /\ hpc \in {"new", "gate", "dial", "splice", "unwind", "closed"}
    /\ hpc \in {"new", "gate"} => dpc = "idle"
    /\ hpc = "dial" => dpc # "idle"
    /\ hpc = "closed" => dpc \in {"idle", "done"}
    /\ hpc \in {"splice", "unwind"} => dpc = "done" /\ result = "carried"
    /\ hpc \in {"new", "gate", "dial"} => spc = "idle"
    /\ hpc = "splice" => spc \in {"copy", "final", "judge"}
    /\ hpc = "unwind" => spc \in {"unwind", "done"}
    /\ hpc = "closed" => spc \in {"idle", "done"}
    /\ hpc \notin {"unwind", "closed"} => judged = "nothing"
    /\ judged = "noData" => spc \in {"unwind", "done"}
    /\ slots \in Nat /\ others \in Nat
    /\ dpc \in {"won", "done"} /\ used # 0 /\ hpc # "closed" => used \in sock

Inv == Dialling /\ Carrying /\ Coupled /\ SlotOnlyWhileDialling /\ BlameIsFair

-----------------------------------------------------------------------------
(* Dialling.                                                                *)

\* What a step of dialBinding or of an attempt keeps for handle.
DialFrame ==
    /\ dpc' = "idle" <=> dpc = "idle"
    /\ dpc = "done" => dpc' = "done" /\ result' = result
    /\ used' # used => used = 0 /\ blamed' = {} /\ used' \in sock'
    /\ used # 0 /\ used \in sock => used \in sock'
    /\ blamed' = blamed \/ (used' # 0 /\ used' \notin blamed')

\* The attempts, and the drainer after them.
LEMMA AttemptKeeps ==
  ASSUME Dialling, AttemptNext
  PROVE  Dialling' /\ DialFrame
<1> USE DialAssumption DEF Members
<1>1. ASSUME NEW m \in Members, DialFails(m)  PROVE Dialling' /\ DialFrame
  <2>1. DialTypes'
    BY <1>1 DEF Dialling, DialTypes, Attempts, Outcomes, Running, Results, DialFails, Ended
  <2>2. Attempted'
    BY <1>1 DEF Dialling, DialTypes, Attempted, InFlight, Attempts, Running, Results,
                DialFails, Ended
  <2>3. Refusals'
    BY <1>1 DEF Dialling, DialTypes, Attempted, Refusals, InFlight, Attempts, Outcomes,
              Running, Results, DialFails, Ended
  <2>4. DialFrame
    BY <1>1 DEF Dialling, DialTypes, Attempted, Refusals, DialFrame, DialFails, Ended
  <2> QED  BY <2>1, <2>2, <2>3, <2>4 DEF Dialling
<1>2. ASSUME NEW m \in Members, DialOpens(m)  PROVE Dialling' /\ DialFrame
  <2>1. DialTypes'
    BY <1>2 DEF Dialling, DialTypes, Attempts, Outcomes, Running, Results, DialOpens, Ended
  <2>2. Attempted'
    BY <1>2 DEF Dialling, DialTypes, Attempted, InFlight, Attempts, Running, Results,
                DialOpens, Ended
  <2>3. Refusals'
    BY <1>2 DEF Dialling, DialTypes, Attempted, Refusals, InFlight, Attempts, Outcomes,
              Running, Results, DialOpens, Ended
  <2>4. DialFrame
    BY <1>2 DEF Dialling, DialTypes, Attempted, Refusals, DialFrame, DialOpens, Ended
  <2> QED  BY <2>1, <2>2, <2>3, <2>4 DEF Dialling
<1>3. ASSUME NEW m \in Members, Answers(m)  PROVE Dialling' /\ DialFrame
  <2>1. DialTypes'
    BY <1>3 DEF Dialling, DialTypes, Attempts, Outcomes, Running, Results, Answers, Ended
  <2>2. Attempted'
    BY <1>3 DEF Dialling, DialTypes, Attempted, InFlight, Attempts, Running, Results,
                Answers, Ended
  <2>3. Refusals'
    BY <1>3 DEF Dialling, DialTypes, Attempted, Refusals, InFlight, Attempts, Outcomes,
              Running, Results, Answers, Ended
  <2>4. DialFrame
    BY <1>3 DEF Dialling, DialTypes, Attempted, Refusals, DialFrame, Answers, Ended
  <2> QED  BY <2>1, <2>2, <2>3, <2>4 DEF Dialling
<1>4. ASSUME NEW m \in Members, Refuses(m)  PROVE Dialling' /\ DialFrame
  <2>1. DialTypes'
    BY <1>4 DEF Dialling, DialTypes, Attempts, Outcomes, Running, Results, Refuses, Ended
  <2>2. Attempted'
    BY <1>4 DEF Dialling, DialTypes, Attempted, InFlight, Attempts, Running, Results,
                Refuses, Ended
  <2>3. Refusals'
    BY <1>4 DEF Dialling, DialTypes, Attempted, Refusals, InFlight, Attempts, Outcomes,
              Running, Results, Refuses, Ended
  <2>4. DialFrame
    BY <1>4 DEF Dialling, DialTypes, Attempted, Refusals, DialFrame, Refuses, Ended
  <2> QED  BY <2>1, <2>2, <2>3, <2>4 DEF Dialling
<1>5. ASSUME NEW m \in Members, GoesSilent(m)  PROVE Dialling' /\ DialFrame
  <2>1. DialTypes'
    BY <1>5 DEF Dialling, DialTypes, Attempts, Outcomes, Running, Results, GoesSilent, Ended
  <2>2. Attempted'
    BY <1>5 DEF Dialling, DialTypes, Attempted, InFlight, Attempts, Running, Results,
                GoesSilent, Ended
  <2>3. Refusals'
    BY <1>5 DEF Dialling, DialTypes, Attempted, Refusals, InFlight, Attempts, Outcomes,
              Running, Results, GoesSilent, Ended
  <2>4. DialFrame
    BY <1>5 DEF Dialling, DialTypes, Attempted, Refusals, DialFrame, GoesSilent, Ended
  <2> QED  BY <2>1, <2>2, <2>3, <2>4 DEF Dialling
<1>6. ASSUME NEW m \in Members, Drain(m)  PROVE Dialling' /\ DialFrame
  <2>1. DialTypes'
    BY <1>6 DEF Dialling, DialTypes, Attempts, Outcomes, Running, Results, Drain
  <2>2. Attempted'
    BY <1>6 DEF Dialling, DialTypes, Attempted, InFlight, Attempts, Running, Results, Drain
  <2>3. Refusals'
    BY <1>6 DEF Dialling, DialTypes, Attempted, Refusals, InFlight, Attempts, Outcomes,
              Running, Results, Drain
  <2>4. DialFrame
    BY <1>6 DEF Dialling, DialTypes, Attempted, Refusals, DialFrame, Results, Drain
  <2> QED  BY <2>1, <2>2, <2>3, <2>4 DEF Dialling
<1> QED  BY <1>1, <1>2, <1>3, <1>4, <1>5, <1>6 DEF AttemptNext, AttemptStep

\* dialBinding's own goroutine and the race loop.
LEMMA DialKeeps ==
  ASSUME Dialling, DialStep
  PROVE  Dialling' /\ DialFrame
<1> USE DialAssumption DEF Members
<1>1. CASE ReadOpening
  <2>1. DialTypes'
    BY <1>1 DEF Dialling, DialTypes, Attempts, Outcomes, Running, Results, ReadOpening,
                GiveUp
  <2>2. Attempted'
    BY <1>1 DEF Dialling, DialTypes, Attempted, InFlight, Attempts, Running, Results,
                ReadOpening, GiveUp
  <2>3. Refusals'
    BY <1>1 DEF Dialling, DialTypes, Attempted, Refusals, InFlight, Attempts, Outcomes,
              Running, Results, ReadOpening, GiveUp
  <2>4. DialFrame
    BY <1>1 DEF Dialling, DialTypes, Attempted, Refusals, DialFrame, ReadOpening, GiveUp
  <2> QED  BY <2>1, <2>2, <2>3, <2>4 DEF Dialling
<1>2. CASE StartRound
  <2>1. DialTypes'
    BY <1>2 DEF Dialling, DialTypes, Attempts, Outcomes, Running, Results, StartRound,
                FreshRefusals
  <2>2. Attempted'
    BY <1>2 DEF Dialling, DialTypes, Attempted, InFlight, Attempts, Running, Results,
                StartRound, FreshRefusals
  <2>3. Refusals'
    BY <1>2 DEF Dialling, DialTypes, Attempted, Refusals, InFlight, Attempts, Outcomes,
              Running, Results, StartRound, FreshRefusals
  <2>4. DialFrame
    BY <1>2 DEF Dialling, DialTypes, Attempted, Refusals, DialFrame, StartRound,
                FreshRefusals
  <2> QED  BY <2>1, <2>2, <2>3, <2>4 DEF Dialling
<1>3. CASE RaceExpires
  <2>1. DialTypes'
    BY <1>3 DEF Dialling, DialTypes, Attempts, Outcomes, Running, Results, RaceExpires,
                GiveUp
  <2>2. Attempted'
    BY <1>3 DEF Dialling, DialTypes, Attempted, InFlight, Attempts, Running, Results,
                RaceExpires, GiveUp
  <2>3. Refusals'
    BY <1>3 DEF Dialling, DialTypes, Attempted, Refusals, InFlight, Attempts, Outcomes,
              Running, Results, RaceExpires, GiveUp
  <2>4. DialFrame
    BY <1>3 DEF Dialling, DialTypes, Attempted, Refusals, DialFrame, RaceExpires, GiveUp
  <2> QED  BY <2>1, <2>2, <2>3, <2>4 DEF Dialling
<1>4. CASE RoundOver
  <2>1. DialTypes'
    BY <1>4 DEF Dialling, DialTypes, Attempts, Outcomes, Running, Results, RoundOver, GiveUp
  <2>2. Attempted'
    BY <1>4 DEF Dialling, DialTypes, Attempted, InFlight, Attempts, Running, Results,
                RoundOver, GiveUp
  <2>3. Refusals'
    BY <1>4 DEF Dialling, DialTypes, Attempted, Refusals, InFlight, Attempts, Outcomes,
              Running, Results, RoundOver, GiveUp
  <2>4. DialFrame
    BY <1>4 DEF Dialling, DialTypes, Attempted, Refusals, DialFrame, RoundOver, GiveUp
  <2> QED  BY <2>1, <2>2, <2>3, <2>4 DEF Dialling
<1>5. CASE SerialStep
  <2>0. next \in 0..N /\ dpc = "serial" /\ sock = {} /\ used = 0 /\ failed \subseteq Members
    BY <1>5 DEF Dialling, DialTypes, Attempted, SerialStep
  <2>a. UNCHANGED <<attempt, refused, said, blamed, result>>
    BY <1>5 DEF SerialStep
  <2>b. \/ dpc' = "after" /\ UNCHANGED <<next, failed, sock, used>>
        \/ /\ next < N /\ used' = next + 1 /\ sock' = sock \cup {next + 1}
           /\ dpc' = "won" /\ UNCHANGED <<next, failed>>
        \/ /\ next < N /\ failed' = failed \cup {next + 1} /\ next' = next + 1
           /\ UNCHANGED <<dpc, sock, used>>
    BY <1>5 DEF SerialStep
  <2>1. DialTypes'
    <3>1. next < N => next + 1 \in Members /\ next + 1 \in 0..N  BY <2>0
    <3> QED  BY <2>0, <2>a, <2>b, <3>1, Zenon DEF Dialling, DialTypes
  <2>2. Attempted'
    <3>1. InFlight = {} /\ InFlight' = {}  BY <2>0, <2>a DEF Dialling, Attempted, InFlight
    <3>2. \A m \in Members : attempt'[m] = "none"  BY <3>1 DEF InFlight
    <3>3. next < N => next + 1 \in Members /\ next + 1 # 0  BY <2>0
    <3> QED  BY <2>0, <2>b, <3>1, <3>2, <3>3 DEF Attempted
  <2>3. Refusals'  BY <2>0, <2>a, <2>b DEF Dialling, Refusals
  <2>4. DialFrame
    <3>1. next < N => next + 1 # 0  BY <2>0
    <3>2. blamed' = {}  BY <2>0, <2>a DEF Dialling, Refusals
    <3> QED  BY <2>0, <2>a, <2>b, <3>1, <3>2 DEF DialFrame
  <2> QED  BY <2>1, <2>2, <2>3, <2>4 DEF Dialling
<1>6. CASE Win
  <2>1. DialTypes'
    BY <1>6 DEF Dialling, DialTypes, Attempts, Outcomes, Running, Results, Win, Blameworthy
  <2>2. Attempted'
    BY <1>6 DEF Dialling, DialTypes, Attempted, InFlight, Attempts, Running, Results,
                Win, Blameworthy
  <2>3. Refusals'
    BY <1>6 DEF Dialling, DialTypes, Attempted, Refusals, InFlight, Attempts, Outcomes,
              Running, Results, Win, Blameworthy
  <2>4. DialFrame
    BY <1>6 DEF Dialling, DialTypes, Attempted, Refusals, DialFrame, Win, Blameworthy
  <2> QED  BY <2>1, <2>2, <2>3, <2>4 DEF Dialling
<1>7. CASE AfterRound
  <2>1. DialTypes'
    BY <1>7 DEF Dialling, DialTypes, Attempts, Outcomes, Running, Results, AfterRound,
                GiveUp
  <2>2. Attempted'
    BY <1>7 DEF Dialling, DialTypes, Attempted, InFlight, Attempts, Running, Results,
                AfterRound, GiveUp
  <2>3. Refusals'
    BY <1>7 DEF Dialling, DialTypes, Attempted, Refusals, InFlight, Attempts, Outcomes,
              Running, Results, AfterRound, GiveUp
  <2>4. DialFrame
    BY <1>7 DEF Dialling, DialTypes, Attempted, Refusals, DialFrame, AfterRound, GiveUp
  <2> QED  BY <2>1, <2>2, <2>3, <2>4 DEF Dialling
<1>8. CASE BackOff
  <2>1. DialTypes'
    BY <1>8 DEF Dialling, DialTypes, Attempts, Outcomes, Running, Results, BackOff, GiveUp
  <2>2. Attempted'
    BY <1>8 DEF Dialling, DialTypes, Attempted, InFlight, Attempts, Running, Results,
                BackOff, GiveUp
  <2>3. Refusals'
    BY <1>8 DEF Dialling, DialTypes, Attempted, Refusals, InFlight, Attempts, Outcomes,
              Running, Results, BackOff, GiveUp
  <2>4. DialFrame
    BY <1>8 DEF Dialling, DialTypes, Attempted, Refusals, DialFrame, BackOff, GiveUp
  <2> QED  BY <2>1, <2>2, <2>3, <2>4 DEF Dialling
<1>9. ASSUME NEW m \in Members, ReceiveAnswer(m)  PROVE Dialling' /\ DialFrame
  <2>1. DialTypes'
    BY <1>9 DEF Dialling, DialTypes, Attempts, Outcomes, Running, Results, ReceiveAnswer
  <2>2. Attempted'
    BY <1>9 DEF Dialling, DialTypes, Attempted, InFlight, Attempts, Running, Results,
                ReceiveAnswer
  <2>3. Refusals'
    BY <1>9 DEF Dialling, DialTypes, Attempted, Refusals, InFlight, Attempts, Outcomes,
              Running, Results, ReceiveAnswer
  <2>4. DialFrame
    BY <1>9 DEF Dialling, DialTypes, Attempted, Refusals, DialFrame, ReceiveAnswer
  <2> QED  BY <2>1, <2>2, <2>3, <2>4 DEF Dialling
<1>10. ASSUME NEW m \in Members, ReceiveFailure(m)  PROVE Dialling' /\ DialFrame
  <2>1. DialTypes'
    BY <1>10 DEF Dialling, DialTypes, Attempts, Outcomes, Running, Results, ReceiveFailure
  <2>2. Attempted'
    BY <1>10 DEF Dialling, DialTypes, Attempted, InFlight, Attempts, Running, Results,
                 ReceiveFailure
  <2>3. Refusals'
    BY <1>10 DEF Dialling, DialTypes, Attempted, Refusals, InFlight, Attempts, Outcomes,
              Running, Results, ReceiveFailure
  <2>4. DialFrame
    BY <1>10 DEF Dialling, DialTypes, Attempted, Refusals, DialFrame, ReceiveFailure
  <2> QED  BY <2>1, <2>2, <2>3, <2>4 DEF Dialling
<1> QED  BY <1>1, <1>2, <1>3, <1>4, <1>5, <1>6, <1>7, <1>8, <1>9, <1>10 DEF DialStep

\* The timers.
LEMMA TimerKeeps ==
  ASSUME Dialling, Hedge \/ Expire
  PROVE  Dialling' /\ DialFrame
<1> USE DialAssumption DEF Members
<1>1. CASE Hedge
  <2>1. DialTypes'
    BY <1>1 DEF Dialling, DialTypes, Attempts, Outcomes, Running, Results, Hedge,
                Launched, MayHedge
  <2>2. Attempted'
    BY <1>1 DEF Dialling, DialTypes, Attempted, InFlight, Attempts, Running, Results,
                Hedge, Launched, MayHedge
  <2>3. Refusals'
    BY <1>1 DEF Dialling, DialTypes, Attempted, Refusals, InFlight, Attempts, Outcomes,
              Running, Results, Hedge, Launched, MayHedge
  <2>4. DialFrame
    BY <1>1 DEF Dialling, DialTypes, Attempted, Refusals, DialFrame, Hedge, Launched,
                MayHedge
  <2> QED  BY <2>1, <2>2, <2>3, <2>4 DEF Dialling
<1>2. CASE Expire
  <2>1. DialTypes'
    BY <1>2 DEF Dialling, DialTypes, Attempts, Outcomes, Running, Results, Expire
  <2>2. Attempted'
    BY <1>2 DEF Dialling, DialTypes, Attempted, InFlight, Attempts, Running, Results, Expire
  <2>3. Refusals'
    BY <1>2 DEF Dialling, DialTypes, Attempted, Refusals, InFlight, Attempts, Outcomes,
              Running, Results, Expire
  <2>4. DialFrame
    BY <1>2 DEF Dialling, DialTypes, Attempted, Refusals, DialFrame, Expire
  <2> QED  BY <2>1, <2>2, <2>3, <2>4 DEF Dialling
<1> QED  BY <1>1, <1>2

-----------------------------------------------------------------------------
(* Carrying.                                                                *)

\* What a step of the splice keeps for handle.
SpliceFrame ==
    /\ spc = "idle" => spc' = "idle"
    /\ spc \in {"copy", "final", "judge"} => spc' \in {"copy", "final", "judge"}
    /\ spc \in {"unwind", "done"} => spc' \in {spc, "done"} /\ counted' = counted

\* A copy that has not ended keeps the splice going.
LEMMA StillCopying ==
  ASSUME Carrying, NEW d \in Dirs, copy[d] # "ended"
  PROVE  spc \in {"idle", "copy"} /\ (copy[d] # "arm" => spc = "copy")
<1>1. EndedCopies < 2  BY DEF EndedCopies, Dirs
<1>2. spc \in {"idle", "copy"}
  <2>1. Len(doneQ) \in Nat /\ taken \in Nat  BY DEF Carrying, SpliceTypes
  <2>2. Len(doneQ) = EndedCopies /\ taken <= Len(doneQ)  BY DEF Carrying, Collected
  <2>3. taken # 2  BY <1>1, <2>1, <2>2
  <2> QED  BY <2>3 DEF Carrying, Collected
<1>3. spc = "idle" => copy[d] = "arm"  BY DEF Carrying, Unstarted
<1> QED  BY <1>2, <1>3

\* A copy ends: by an error only after a fault, and without one only when no
\* reply is left behind.
LEMMA FinishKeeps ==
  ASSUME Carrying, NEW d \in Dirs, NEW err \in BOOLEAN, copy[d] # "ended",
         spc = "copy", Finish(d, err), fault => fault',
         err => fault', d = "down" /\ ahead => fault'
  PROVE  Carrying' /\ SpliceFrame
<1>0. /\ copy' = [copy EXCEPT ![d] = "ended"]
      /\ doneQ' = Append(doneQ, [dir |-> d, err |-> err])
      /\ UNCHANGED <<spc, ahead, counted, poked, taken, flushed, billed, sent,
                     tracked, victim, shut>>
  BY DEF Finish, Goto, billVars, staleVars
<1>1. SpliceTypes'
  <2>1. copy' \in [Dirs -> CopyStates]  BY <1>0 DEF Carrying, SpliceTypes, CopyStates
  <2>2. doneQ' \in Seq([dir : Dirs, err : BOOLEAN])  BY <1>0 DEF Carrying, SpliceTypes
  <2> QED  BY <1>0, <2>1, <2>2 DEF Carrying, SpliceTypes
<1>2. Collected'
  <2>1. EndedCopies' = EndedCopies + 1
    BY <1>0 DEF Carrying, SpliceTypes, EndedCopies, Dirs
  <2>2. Len(doneQ') = Len(doneQ) + 1  BY <1>0 DEF Carrying, SpliceTypes
  <2>3. taken \in Nat /\ Len(doneQ) \in Nat  BY DEF Carrying, SpliceTypes
  <2> QED  BY <1>0, <2>1, <2>2, <2>3 DEF Carrying, Collected
<1>3. Faultless'
  <2> SUFFICES ASSUME ~fault'
               PROVE  /\ ~shut' /\ \A e \in Dirs : ~poked'[e]
                      /\ \A i \in DOMAIN doneQ' : ~doneQ'[i].err
                      /\ copy'["down"] = "ended" => ~ahead'
    BY DEF Faultless
  <2>1. ~fault /\ ~err  OBVIOUS
  <2>2. ~shut' /\ \A e \in Dirs : ~poked'[e]  BY <1>0, <2>1 DEF Carrying, Faultless
  <2>3. \A i \in DOMAIN doneQ' : ~doneQ'[i].err
    <3> SUFFICES ASSUME NEW i \in DOMAIN doneQ' PROVE ~doneQ'[i].err  OBVIOUS
    <3>1. doneQ \in Seq([dir : Dirs, err : BOOLEAN])  BY DEF Carrying, SpliceTypes
    <3>2. i \in 1..(Len(doneQ) + 1)  BY <1>0, <3>1
    <3>3. CASE i = Len(doneQ) + 1
      <4> DEFINE e == [dir |-> d, err |-> err]
      <4>1. e.err = err /\ doneQ' = Append(doneQ, e)  BY <1>0
      <4> HIDE DEF e
      <4>2. doneQ'[i] = e  BY <3>1, <3>3, <4>1
      <4> QED  BY <2>1, <4>1, <4>2
    <3>4. CASE i \in 1..Len(doneQ)
      <4>1. doneQ'[i] = doneQ[i]  BY <1>0, <3>1, <3>4
      <4>2. i \in DOMAIN doneQ  BY <3>1, <3>4
      <4> QED  BY <2>1, <4>1, <4>2 DEF Carrying, Faultless
    <3> QED  BY <3>1, <3>2, <3>3, <3>4
  <2>4. copy'["down"] = "ended" => ~ahead'
    BY <1>0, <2>1 DEF Carrying, SpliceTypes, Faultless, Dirs
  <2> QED  BY <2>2, <2>3, <2>4
<1>4. Billed'  BY <1>0 DEF Carrying, Billed
<1>5. Unstarted' /\ (spc' = "idle" => ~victim')  BY <1>0 DEF Unstarted
<1>6. SpliceFrame  BY <1>0 DEF SpliceFrame
<1> QED  BY <1>1, <1>2, <1>3, <1>4, <1>5, <1>6 DEF Carrying

\* The six ways a copy ends.
LEMMA EndsKeep ==
  ASSUME Carrying, NEW d \in Dirs,
         \/ SourceEnds(d) \/ SourceResets(d) \/ ShutReadEnds(d)
         \/ WriteFails(d) \/ IdleExpires(d) \/ PokedReadEnds(d)
  PROVE  Carrying' /\ SpliceFrame
<1>1. CASE SourceEnds(d)
  BY <1>1, FinishKeeps, Zenon DEF SourceEnds, Blocked
<1>2. CASE SourceResets(d)
  BY <1>2, FinishKeeps, Zenon DEF SourceResets, Blocked
<1>3. CASE ShutReadEnds(d)
  <2>1. fault  BY <1>3 DEF Carrying, Faultless, ShutReadEnds
  <2> QED  BY <1>3, <2>1, FinishKeeps, Zenon DEF ShutReadEnds, Blocked
<1>4. CASE WriteFails(d)
  <2>1. spc = "copy"  BY <1>4, StillCopying DEF WriteFails
  <2> QED  BY <1>4, <2>1, FinishKeeps, Zenon DEF WriteFails
<1>5. CASE IdleExpires(d)
  BY <1>5, FinishKeeps, Zenon DEF IdleExpires, Blocked
<1>6. CASE PokedReadEnds(d)
  <2>1. fault  BY <1>6 DEF Carrying, Faultless, PokedReadEnds
  <2> QED  BY <1>6, <2>1, FinishKeeps, Zenon DEF PokedReadEnds, Blocked
<1> QED  BY <1>1, <1>2, <1>3, <1>4, <1>5, <1>6

\* A copy moves on within its loop.
LEMMA MoveKeeps ==
  ASSUME Carrying, NEW d \in Dirs, NEW at \in CopyStates \ {"ended"},
         spc = "copy", copy[d] # "ended",
         copy' = [copy EXCEPT ![d] = at],
         UNCHANGED <<spc, doneQ, taken, flushed, billed, sent, fault, shut, tracked, victim>>,
         counted' \in [Dirs -> Nat], \A e \in Dirs : counted[e] <= counted'[e],
         poked' \in [Dirs -> BOOLEAN], \A e \in Dirs : poked'[e] => poked[e],
         ahead' => ahead
  PROVE  Carrying' /\ SpliceFrame
<1>1. SpliceTypes'  BY Zenon DEF Carrying, SpliceTypes
<1>2. EndedCopies' = EndedCopies
  BY DEF Carrying, SpliceTypes, EndedCopies, Dirs
<1>3. Collected'  BY <1>2 DEF Carrying, Collected
<1>4. Faultless'
  <2>1. copy'["down"] = "ended" => copy["down"] = "ended"
    BY DEF Carrying, SpliceTypes, Dirs
  <2> QED  BY <2>1 DEF Carrying, Faultless
<1>5. Billed'
  <2>1. \A e \in Dirs : flushed[e] \in Nat /\ counted[e] \in Nat /\ counted'[e] \in Nat
    BY Zenon DEF Carrying, SpliceTypes
  <2> QED  BY <2>1 DEF Carrying, Billed
<1>6. Unstarted' /\ (spc' = "idle" => ~victim')  BY DEF Unstarted
<1>7. SpliceFrame  BY DEF SpliceFrame
<1> QED  BY <1>1, <1>3, <1>4, <1>5, <1>6, <1>7 DEF Carrying

LEMMA LoopKeeps ==
  ASSUME Carrying, NEW d \in Dirs,
         Arm(d) \/ ReadAhead \/ Read(d) \/ NoteReply \/ Write(d) \/ StampWrite
  PROVE  Carrying' /\ SpliceFrame
<1>0. /\ copy \in [Dirs -> CopyStates] /\ counted \in [Dirs -> Nat]
      /\ poked \in [Dirs -> BOOLEAN]
  BY DEF Carrying, SpliceTypes
<1>a. "up" \in Dirs /\ "down" \in Dirs  BY DEF Dirs
<1>b. \A e \in Dirs : counted[e] <= counted[e]  BY <1>0
<1> USE DEF Goto, endVars, billVars, staleVars, CopyStates
<1>1. CASE Arm(d)
  <2>1. poked' \in [Dirs -> BOOLEAN] /\ \A e \in Dirs : poked'[e] => poked[e]
    BY <1>0, <1>1 DEF Arm
  <2> QED  BY <1>0, <1>b, <1>1, <2>1, MoveKeeps, Zenon DEF Arm
<1>2. CASE ReadAhead
  BY <1>0, <1>a, <1>b, <1>2, MoveKeeps, Zenon DEF ReadAhead
<1>3. CASE Read(d)
  BY <1>0, <1>b, <1>3, MoveKeeps, Zenon DEF Read, Blocked
<1>4. CASE NoteReply
  <2>1. spc = "copy"  BY <1>4, <1>a, StillCopying DEF NoteReply
  <2> QED  BY <1>0, <1>a, <1>b, <1>4, <2>1, MoveKeeps, Zenon DEF NoteReply
<1>5. CASE Write(d)
  <2>1. spc = "copy"  BY <1>5, StillCopying DEF Write
  <2>2. CASE d = "up"
    BY <1>0, <1>b, <1>5, <2>1, <2>2, MoveKeeps DEF Write
  <2>3. CASE d # "up"
    <3>1. counted' = [counted EXCEPT ![d] = @ + 1]  BY <1>5, <2>3 DEF Write
    <3>2. counted' \in [Dirs -> Nat] /\ \A e \in Dirs : counted[e] <= counted'[e]
      BY <1>0, <3>1
    <3> QED  BY <1>0, <1>5, <2>1, <2>3, <3>2, MoveKeeps DEF Write
  <2> QED  BY <2>2, <2>3
<1>6. CASE StampWrite
  <2>1. spc = "copy"  BY <1>6, <1>a, StillCopying DEF StampWrite
  <2>2. counted' = [counted EXCEPT !["up"] = @ + 1]  BY <1>6 DEF StampWrite
  <2>3. counted' \in [Dirs -> Nat] /\ \A e \in Dirs : counted[e] <= counted'[e]
    BY <1>0, <1>a, <2>2
  <2> QED  BY <1>0, <1>a, <1>6, <2>1, <2>3, MoveKeeps, Zenon DEF StampWrite
<1> QED  BY <1>1, <1>2, <1>3, <1>4, <1>5, <1>6

\* The collector reads a result.
LEMMA CollectKeeps ==
  ASSUME Carrying, Collect
  PROVE  Carrying' /\ SpliceFrame
<1>0. /\ spc = "copy" /\ taken < Len(doneQ) /\ taken' = taken + 1
      /\ poked' = IF doneQ[taken + 1].err THEN [d \in Dirs |-> TRUE] ELSE poked
      /\ spc' = IF taken = 1 THEN "final" ELSE "copy"
      /\ UNCHANGED <<copy, ahead, counted, doneQ, flushed, billed, sent, tracked,
                     victim, shut, fault>>
  BY DEF Collect, billVars, staleVars
<1>1. /\ doneQ \in Seq([dir : Dirs, err : BOOLEAN]) /\ taken \in Nat
      /\ poked \in [Dirs -> BOOLEAN]
  BY DEF Carrying, SpliceTypes
<1>2. taken + 1 \in 1..Len(doneQ) /\ taken + 1 \in DOMAIN doneQ  BY <1>0, <1>1
<1>3. SpliceTypes'
  <2>1. poked' \in [Dirs -> BOOLEAN]  BY <1>0, <1>1
  <2>2. taken' \in Nat /\ spc' \in {"final", "copy"}  BY <1>0, <1>1
  <2> QED  BY <1>0, <1>1, <2>1, <2>2, Zenon DEF Carrying, SpliceTypes
<1>4. Collected'
  <2>1. EndedCopies' = EndedCopies  BY <1>0 DEF EndedCopies
  <2>2. taken < 2  BY <1>0 DEF Carrying, Collected
  <2>3. Len(doneQ') = EndedCopies' /\ taken' <= Len(doneQ')
    BY <1>0, <1>1, <1>2, <2>1 DEF Carrying, Collected
  <2>4. IF taken = 1 THEN taken' = 2 /\ spc' = "final" ELSE taken' < 2 /\ spc' = "copy"
    BY <1>0, <1>1, <2>2
  <2> QED  BY <2>3, <2>4 DEF Collected
<1>5. Faultless'
  <2>1. ~fault => ~doneQ[taken + 1].err  BY <1>2 DEF Carrying, Faultless
  <2>2. ~fault => poked' = poked  BY <1>0, <2>1
  <2> QED  BY <1>0, <2>2 DEF Carrying, Faultless
<1>6. Billed'  BY <1>0 DEF Carrying, Billed
<1>7. Unstarted' /\ (spc' = "idle" => ~victim')  BY <1>0 DEF Unstarted
<1>8. SpliceFrame  BY <1>0 DEF SpliceFrame
<1> QED  BY <1>3, <1>4, <1>5, <1>6, <1>7, <1>8 DEF Carrying

\* The flusher's ticks and the last flush.
LEMMA FlushKeeps ==
  ASSUME Carrying, Flush \/ FinalFlush
  PROVE  Carrying' /\ SpliceFrame
<1>0. /\ spc \in {"copy", "final"} /\ spc' \in {spc, "judge"}
      /\ spc' = spc \/ spc = "final"
      /\ billed' = [d \in Dirs |-> billed[d] + counted[d] - flushed[d]]
      /\ flushed' = counted
      /\ UNCHANGED <<copy, ahead, counted, poked, doneQ, taken, sent, tracked,
                     victim, shut, fault>>
  BY DEF Flush, FinalFlush, Bill, copyVars, endVars, staleVars
<1>1. \A d \in Dirs : /\ counted[d] \in Nat /\ flushed[d] \in Nat /\ sent \in Nat
                      /\ billed[d] = flushed[d] + (IF d = "up" THEN sent ELSE 0)
                      /\ flushed[d] <= counted[d]
  BY DEF Carrying, SpliceTypes, Billed
<1>2. \A d \in Dirs : /\ billed'[d] = counted[d] + (IF d = "up" THEN sent ELSE 0)
                      /\ billed'[d] \in Nat
  BY <1>0, <1>1
<1>3. SpliceTypes'
  <2>1. billed' \in [Dirs -> Nat]  BY <1>0, <1>2
  <2> QED  BY <1>0, <2>1 DEF Carrying, SpliceTypes
<1>4. Billed'  BY <1>0, <1>1, <1>2 DEF Billed
<1>5. Collected'
  <2>1. EndedCopies' = EndedCopies  BY <1>0 DEF EndedCopies
  <2> QED  BY <1>0, <2>1 DEF Carrying, Collected
<1>6. Faultless'  BY <1>0 DEF Carrying, Faultless
<1>7. Unstarted' /\ (spc' = "idle" => ~victim')  BY <1>0 DEF Unstarted
<1>8. SpliceFrame  BY <1>0 DEF SpliceFrame
<1> QED  BY <1>3, <1>4, <1>5, <1>6, <1>7, <1>8 DEF Carrying

\* The registry, its sweep and the passing of time move no bytes.
LEMMA RegistryKeeps ==
  ASSUME Carrying,
         MarkStale \/ SweepStep \/ Untrack \/ UntrackCount \/ Tick
  PROVE  Carrying' /\ SpliceFrame
<1>0. /\ spc # "idle" /\ (spc' = spc \/ (spc = "unwind" /\ spc' = "done"))
      /\ fault => fault'
      /\ shut' = shut \/ fault'
      /\ UNCHANGED <<copy, ahead, counted, poked, doneQ, taken, flushed, billed, sent>>
  <2>1. CASE MarkStale
    BY <2>1 DEF MarkStale, Carrying, Unstarted, copyVars, endVars, billVars
  <2>2. CASE SweepPicks
    BY <2>2 DEF SweepPicks, Carrying, Unstarted, copyVars, endVars, billVars
  <2>3. CASE SweepCloses
    BY <2>3 DEF SweepCloses, Carrying, copyVars, endVars, billVars
  <2>4. CASE Untrack
    BY <2>4 DEF Untrack, copyVars, endVars, billVars
  <2>5. CASE UntrackCount
    BY <2>5 DEF UntrackCount, endVars, billVars
  <2>6. CASE Tick
    BY <2>6 DEF Tick, billVars, staleVars
  <2> QED  BY <2>1, <2>2, <2>3, <2>4, <2>5, <2>6 DEF SweepStep
<1>1. SpliceTypes'  BY <1>0 DEF Carrying, SpliceTypes
<1>2. Collected'
  <2>1. EndedCopies' = EndedCopies  BY <1>0 DEF EndedCopies
  <2> QED  BY <1>0, <2>1 DEF Carrying, Collected
<1>3. Faultless'  BY <1>0 DEF Carrying, Faultless
<1>4. Billed'  BY <1>0 DEF Carrying, Billed
<1>5. Unstarted' /\ (spc' = "idle" => ~victim')  BY <1>0 DEF Unstarted
<1>6. SpliceFrame  BY <1>0 DEF SpliceFrame, Carrying, SpliceTypes
<1> QED  BY <1>1, <1>2, <1>3, <1>4, <1>5, <1>6 DEF Carrying

-----------------------------------------------------------------------------
(* The whole connection.                                                    *)

LEMMA InitInv == Init => Inv
<1> SUFFICES ASSUME Init PROVE Inv  OBVIOUS
<1> USE DEF Init
<1>1. Dialling
  BY DialAssumption DEF DialInit, Dialling, DialTypes, Attempted, Refusals, InFlight,
     Members, Attempts, Outcomes
<1>2. Carrying
  <2> USE DEF SpliceInit, Zero
  <2>1. SpliceTypes  BY DEF SpliceTypes, CopyStates, Dirs
  <2>2. Collected  BY DEF Collected, EndedCopies, Dirs
  <2>3. Faultless  BY DEF Faultless, Dirs
  <2>4. Billed  BY DEF Billed, Dirs
  <2>5. Unstarted  BY DEF Unstarted
  <2> QED  BY <2>1, <2>2, <2>3, <2>4, <2>5 DEF Carrying
<1>3. Coupled  BY GateAssumption DEF Coupled, DialInit, SpliceInit
<1>4. SlotOnlyWhileDialling  BY GateAssumption DEF SlotOnlyWhileDialling
<1>5. BlameIsFair  BY DEF BlameIsFair, DialInit
<1> QED  BY <1>1, <1>2, <1>3, <1>4, <1>5 DEF Inv

\* A state function of unchanged variables is unchanged.
LEMMA DialStays ==
  ASSUME Dialling, UNCHANGED dialVars
  PROVE  Dialling'
BY DEF dialVars, Dialling, DialTypes, Attempted, Refusals, InFlight

LEMMA SpliceStays ==
  ASSUME Carrying, UNCHANGED spliceVars
  PROVE  Carrying'
BY Zenon DEF spliceVars, Carrying, SpliceTypes, Unstarted, Collected, EndedCopies,
             Faultless, Billed

\* Steps of the dialling alone.
LEMMA DialInvStep ==
  ASSUME Inv, DialStep \/ AttemptNext \/ Hedge \/ Expire,
         UNCHANGED <<spliceVars, handleVars>>
  PROVE  Inv'
<1>1. Dialling' /\ DialFrame  BY DialKeeps, AttemptKeeps, TimerKeeps DEF Inv
<1>2. Carrying'  BY SpliceStays DEF Inv
<1>3. UNCHANGED <<hpc, slots, others, judged, spc, counted>>  BY DEF handleVars, spliceVars
<1>4. Coupled'
  <2>1. dpc \in {"idle", "done"} => dpc' = dpc  BY <1>1 DEF DialFrame
  <2>2. dpc \notin {"won", "done"} => used = 0  BY DEF Inv, Dialling, Attempted
  <2>3. dpc' \in {"won", "done"} /\ used' # 0 /\ hpc' # "closed" => used' \in sock'
    <3> SUFFICES ASSUME used' # 0, hpc # "closed" PROVE used' \in sock'  BY <1>3
    <3>1. CASE used' # used  BY <1>1, <3>1 DEF DialFrame
    <3>2. CASE used' = used
      <4>1. used \in sock  BY <2>2, <3>2 DEF Inv, Coupled
      <4> QED  BY <1>1, <3>2, <4>1 DEF DialFrame
    <3> QED  BY <3>1, <3>2
  <2>4. /\ dpc' = "idle" <=> dpc = "idle"
        /\ dpc = "done" => result' = result
    BY <1>1 DEF DialFrame
  <2> QED  BY <1>3, <2>1, <2>3, <2>4 DEF Inv, Coupled
<1>5. SlotOnlyWhileDialling'  BY <1>3 DEF Inv, SlotOnlyWhileDialling
<1>6. BlameIsFair'
  <2> SUFFICES ASSUME NEW m \in blamed'
               PROVE  \/ used' \notin {0, m}
                      \/ m = used' /\ judged' = "noData" /\ counted'["down"] = 0
    BY DEF BlameIsFair
  <2>1. CASE blamed' = blamed /\ used' = used  BY <1>3, <2>1 DEF Inv, BlameIsFair
  <2>2. CASE blamed' # blamed  BY <1>1, <2>2 DEF DialFrame
  <2>3. CASE used' # used  BY <1>1, <2>3 DEF DialFrame
  <2> QED  BY <2>1, <2>2, <2>3
<1> QED  BY <1>1, <1>2, <1>4, <1>5, <1>6 DEF Inv

\* Steps of the splice alone.
LEMMA SpliceInvStep ==
  ASSUME Inv,
         \/ SpliceStep \/ SweepStep \/ MarkStale \/ Flush \/ Tick
         \/ \E d \in Dirs : CopyStep(d) \/ WriteReturns(d) \/ PeerStep(d),
         UNCHANGED <<dialVars, handleVars>>
  PROVE  Inv'
<1>1. Carrying' /\ SpliceFrame
  <2>1. CASE SpliceStep \/ SweepStep \/ MarkStale \/ Flush \/ Tick
    <3>1. "up" \in Dirs  BY DEF Dirs
    <3> QED  BY <2>1, <3>1, LoopKeeps, CollectKeeps, FlushKeeps, RegistryKeeps
             DEF SpliceStep, Inv
  <2>2. ASSUME NEW d \in Dirs, CopyStep(d) \/ WriteReturns(d) \/ PeerStep(d)
        PROVE  Carrying' /\ SpliceFrame
    BY <2>2, LoopKeeps, EndsKeep DEF CopyStep, WriteReturns, PeerStep, Inv
  <2> QED  BY <2>1, <2>2
<1>2. Dialling'  BY DialStays DEF Inv
<1>3. UNCHANGED <<hpc, slots, others, judged, dpc, used, sock, blamed, result>>
  BY DEF handleVars, dialVars
<1>4. Coupled'
  <2>1. /\ spc = "idle" => spc' = "idle"
        /\ spc \in {"copy", "final", "judge"} => spc' \in {"copy", "final", "judge"}
        /\ spc \in {"unwind", "done"} => spc' \in {spc, "done"}
    BY <1>1 DEF SpliceFrame
  <2> QED  BY <1>3, <2>1 DEF Inv, Coupled
<1>5. SlotOnlyWhileDialling'  BY <1>3 DEF Inv, SlotOnlyWhileDialling
<1>6. BlameIsFair'
  <2>1. judged = "noData" => counted' = counted  BY <1>1 DEF SpliceFrame, Inv, Coupled
  <2> QED  BY <1>3, <2>1 DEF Inv, BlameIsFair
<1> QED  BY <1>1, <1>2, <1>4, <1>5, <1>6 DEF Inv

\* Before dialling is over nobody has been blamed.
LEMMA NobodyBlamed ==
  ASSUME Inv, dpc # "done"
  PROVE  blamed = {}
BY DEF Inv, Dialling, Refusals

LEMMA AdmitInv ==
  ASSUME Inv, Admit \/ GateGivesUp
  PROVE  Inv'
<1>0. /\ hpc \in {"new", "gate"} /\ hpc' \in {"gate", "closed"}
      /\ hpc' = "gate" => judged' = judged
      /\ judged' # "noData" \/ judged' = judged
      /\ UNCHANGED <<slots, others, dialVars, spliceVars>>
  BY DEF Admit, GateGivesUp, Conclude
<1>1. Dialling' /\ Carrying'  BY <1>0, DialStays, SpliceStays DEF Inv
<1>2. UNCHANGED <<dpc, used, sock, blamed, result, spc>>  BY <1>0 DEF dialVars, spliceVars
<1>3. dpc = "idle" /\ spc = "idle" /\ judged = "nothing"  BY <1>0 DEF Inv, Coupled
<1>4. Coupled'  BY <1>0, <1>2, <1>3 DEF Inv, Coupled
<1>5. SlotOnlyWhileDialling'  BY <1>0 DEF Inv, SlotOnlyWhileDialling
<1>6. BlameIsFair'  BY <1>2, <1>3, NobodyBlamed DEF BlameIsFair
<1> QED  BY <1>1, <1>4, <1>5, <1>6 DEF Inv

LEMMA AcquireInv ==
  ASSUME Inv, Acquire
  PROVE  Inv'
<1>0. /\ hpc = "gate" /\ hpc' = "dial" /\ slots' = slots + 1 /\ dpc' = "opening"
      /\ UNCHANGED <<others, judged, next, attempt, sock, failed, refused, said,
                     used, blamed, result, spliceVars>>
  BY DEF Acquire
<1>1. dpc = "idle" /\ spc = "idle" /\ slots \in Nat /\ others \in Nat
  BY <1>0 DEF Inv, Coupled
<1>2. Dialling'
  BY <1>0, <1>1 DEF Inv, Dialling, DialTypes, Attempted, Refusals, InFlight
<1>3. Carrying' /\ spc' = spc  BY <1>0, SpliceStays DEF Inv, spliceVars
<1>4. Coupled'
  <2>1. slots' \in Nat /\ others' \in Nat  BY <1>0, <1>1
  <2>2. judged' = "nothing" /\ hpc' = "dial" /\ dpc' = "opening" /\ spc' = "idle"
    BY <1>0, <1>1, <1>3 DEF Inv, Coupled
  <2> QED  BY <2>1, <2>2 DEF Coupled
<1>5. SlotOnlyWhileDialling'  BY <1>0, <1>1 DEF Inv, SlotOnlyWhileDialling
<1>6. BlameIsFair'  BY <1>0, <1>1, NobodyBlamed DEF BlameIsFair
<1> QED  BY <1>2, <1>3, <1>4, <1>5, <1>6 DEF Inv

LEMMA OthersDialInv ==
  ASSUME Inv, OthersDial
  PROVE  Inv'
<1>0. /\ \/ slots' = slots + 1 /\ others' = others + 1
         \/ others > 0 /\ slots' = slots - 1 /\ others' = others - 1
      /\ UNCHANGED <<hpc, judged, dialVars, spliceVars>>
  BY DEF OthersDial
<1>1. Dialling' /\ Carrying'  BY <1>0, DialStays, SpliceStays DEF Inv
<1>2. UNCHANGED <<dpc, used, sock, blamed, result, spc, counted>>
  BY <1>0 DEF dialVars, spliceVars
<1>3. slots \in Nat /\ others \in Nat  BY DEF Inv, Coupled
<1>4. SlotOnlyWhileDialling' /\ slots' \in Nat /\ others' \in Nat
  <2>1. others' \in Nat /\ \A k \in {0, 1} : slots = others + k => slots' = others' + k
    <3>1. CASE slots' = slots + 1 /\ others' = others + 1  BY <1>3, <3>1
    <3>2. CASE others > 0 /\ slots' = slots - 1 /\ others' = others - 1  BY <1>3, <3>2
    <3> QED  BY <1>0, <3>1, <3>2
  <2>2. hpc' = hpc  BY <1>0
  <2>3. PICK k \in {0, 1} : slots = others + k /\ (k = 1 <=> hpc = "dial")
    BY DEF Inv, SlotOnlyWhileDialling
  <2>4. slots' = others' + k  BY <2>1, <2>3
  <2>5. slots' \in Nat
    <3>1. others' \in Nat /\ k \in Nat  BY <2>1
    <3>2. \A m, n \in Nat : m + n \in Nat  OBVIOUS
    <3>3. others' + k \in Nat  BY <3>1, <3>2, Zenon
    <3> QED  BY <2>4, <3>3, Zenon
  <2>6. k = (IF hpc' = "dial" THEN 1 ELSE 0)  BY <2>2, <2>3
  <2> QED  BY <2>1, <2>4, <2>5, <2>6 DEF SlotOnlyWhileDialling
<1>5. hpc' = hpc /\ judged' = judged  BY <1>0
<1>6. Coupled'  BY <1>2, <1>4, <1>5, Zenon DEF Inv, Coupled
<1>7. BlameIsFair'  BY <1>0, <1>2 DEF Inv, BlameIsFair
<1> QED  BY <1>1, <1>4, <1>6, <1>7 DEF Inv

\* The splice starts: from a state in which nothing has happened to it.
LEMMA StartKeeps ==
  ASSUME Carrying, spc = "idle", NEW n \in Nat, NEW readAhead \in BOOLEAN,
         StartSplice(n, readAhead)
  PROVE  Carrying'
<1>0. /\ spc' = "copy" /\ sent' = n /\ billed' = [billed EXCEPT !["up"] = n]
      /\ UNCHANGED <<copy, counted, poked, doneQ, taken, flushed, victim, shut, fault>>
  BY DEF StartSplice, endVars
<1>1. /\ copy = [d \in Dirs |-> "arm"] /\ doneQ = <<>> /\ taken = 0
      /\ counted = Zero /\ flushed = Zero /\ billed = Zero
  BY DEF Carrying, Unstarted
<1>2. SpliceTypes'
  <2>1. billed' \in [Dirs -> Nat]  BY <1>0, Zenon DEF Carrying, SpliceTypes
  <2> QED  BY <1>0, <2>1 DEF Carrying, SpliceTypes
<1>3. Collected'
  <2>1. EndedCopies' = EndedCopies  BY <1>0 DEF EndedCopies
  <2> QED  BY <1>0, <1>1, <2>1 DEF Carrying, Collected
<1>4. Faultless'
  <2>1. copy'["down"] # "ended"  BY <1>0, <1>1 DEF Dirs
  <2> QED  BY <1>0, <2>1 DEF Carrying, Faultless
<1>5. Billed'  BY <1>0, <1>1 DEF Billed, Zero, Dirs
<1>6. Unstarted' /\ (spc' = "idle" => ~victim')  BY <1>0 DEF Unstarted
<1> QED  BY <1>2, <1>3, <1>4, <1>5, <1>6 DEF Carrying

LEMMA DialledInv ==
  ASSUME Inv, Dialled
  PROVE  Inv'
<1>0. /\ hpc = "dial" /\ dpc = "done" /\ slots' = slots - 1
      /\ UNCHANGED <<others, dpc, attempt, sock, used, result>>
  BY DEF Dialled, Released
<1>1. spc = "idle" /\ judged = "nothing" /\ slots \in Nat /\ others \in Nat
  BY <1>0 DEF Inv, Coupled
<1>2. SlotOnlyWhileDialling' /\ slots' \in Nat
  <2>1. hpc' # "dial"  BY DEF Dialled, Conclude
  <2> QED  BY <1>0, <1>1, <2>1 DEF Inv, SlotOnlyWhileDialling
<1>3. CASE result = "carried"
  <2> DEFINE n == IF opening = "silent" THEN 0 ELSE 1
  <2>0. /\ hpc' = "splice" /\ judged' = judged /\ StartSplice(n, opening = "verify")
        /\ next' = 0 /\ failed' = {} /\ refused' = {} /\ blamed' = {}
        /\ said' = [m \in Members |-> "nothing"]
    BY <1>3 DEF Dialled
  <2>1. Carrying' /\ spc' = "copy"
    <3>1. n \in Nat /\ (opening = "verify") \in BOOLEAN  OBVIOUS
    <3> HIDE DEF n
    <3>2. Carrying'  BY <1>1, <2>0, <3>1, StartKeeps, Zenon DEF Inv
    <3> QED  BY <2>0, <3>2 DEF StartSplice
  <2>2. Dialling'
    <3>1. DialTypes'
      <4>1. said' \in [Members -> Outcomes] /\ next' \in 0..N
        BY <2>0, DialAssumption DEF Outcomes
      <4> QED  BY <1>0, <2>0, <4>1 DEF Inv, Dialling, DialTypes
    <3>2. Attempted'  BY <1>0 DEF Inv, Dialling, Attempted, InFlight
    <3>3. Refusals'  BY <1>0, <1>3 DEF Inv, Dialling, Refusals
    <3> QED  BY <3>1, <3>2, <3>3 DEF Dialling
  <2>3. Coupled'  BY <1>0, <1>1, <1>2, <1>3, <2>0, <2>1 DEF Inv, Coupled
  <2>4. BlameIsFair'  BY <2>0 DEF BlameIsFair
  <2> QED  BY <1>2, <2>1, <2>2, <2>3, <2>4 DEF Inv
<1>4. CASE result # "carried"
  <2>0. /\ hpc' = "closed"
        /\ judged' = CASE result = "clientGone" -> "clientGone"
                       [] result = "refused"    -> "condemned"
                       [] result = "nothing"    -> "struck"
        /\ UNCHANGED <<next, failed, refused, said, blamed, spliceVars>>
    BY <1>4, Zenon DEF Dialled, Conclude
  <2>1. Carrying' /\ spc' = spc  BY <2>0, SpliceStays DEF Inv, spliceVars
  <2>2. Dialling'
    BY <1>0, <2>0 DEF Inv, Dialling, DialTypes, Attempted, Refusals, InFlight
  <2>3. judged' # "noData"
    <3>1. result \in {"clientGone", "refused", "nothing"}
      BY <1>0, <1>4 DEF Inv, Dialling, DialTypes, Refusals
    <3> QED  BY <2>0, <3>1
  <2>4. Coupled'  BY <1>0, <1>1, <1>2, <2>0, <2>1, <2>3, Zenon DEF Inv, Coupled
  <2>5. BlameIsFair'  BY <1>0, <1>1, <2>0 DEF Inv, BlameIsFair
  <2> QED  BY <1>2, <2>1, <2>2, <2>4, <2>5 DEF Inv
<1> QED  BY <1>3, <1>4

LEMMA JudgeInv ==
  ASSUME Inv, Judge
  PROVE  Inv'
<1>0. /\ hpc = "splice" /\ spc = "judge" /\ spc' = "unwind" /\ hpc' = "unwind"
      /\ UNCHANGED <<slots, others, dpc, next, attempt, sock, failed, refused, said,
                     used, result, copy, ahead, counted, poked, doneQ, taken, flushed,
                     billed, sent, tracked, victim, shut, fault>>
  BY DEF Judge, endVars, billVars, staleVars
<1>1. \/ judged' # "noData" /\ blamed' = blamed
      \/ counted["down"] = 0 /\ judged' = "noData" /\ blamed' \in {blamed, blamed \cup {used}}
  BY DEF Judge
<1>2. dpc = "done" /\ judged = "nothing"  BY <1>0 DEF Inv, Coupled
<1>3. Dialling'
  <2>1. result = "carried"  BY <1>0 DEF Inv, Coupled
  <2>2. used \in Members
    BY <2>1, DialAssumption DEF Inv, Dialling, DialTypes, Refusals, Members
  <2>3. blamed' \subseteq Members  BY <1>1, <2>2, Zenon DEF Inv, Dialling, DialTypes
  <2> QED  BY <1>0, <1>2, <2>3 DEF Inv, Dialling, DialTypes, Attempted, Refusals, InFlight
<1>4. Carrying'
  <2>1. EndedCopies' = EndedCopies  BY <1>0 DEF EndedCopies
  <2> QED  BY <1>0, <2>1, Zenon DEF Inv, Carrying, SpliceTypes, Unstarted, Collected,
                                    Faultless, Billed
<1>5. Coupled'  BY <1>0, <1>2 DEF Inv, Coupled
<1>6. SlotOnlyWhileDialling'  BY <1>0 DEF Inv, SlotOnlyWhileDialling
<1>7. BlameIsFair'  BY <1>0, <1>1, <1>2 DEF Inv, BlameIsFair
<1> QED  BY <1>3, <1>4, <1>5, <1>6, <1>7 DEF Inv

LEMMA CloseInv ==
  ASSUME Inv, Close
  PROVE  Inv'
<1>0. /\ hpc = "unwind" /\ spc = "done" /\ hpc' = "closed" /\ sock' = sock \ {used}
      /\ UNCHANGED <<slots, others, judged, dpc, next, attempt, failed, refused, said,
                     used, blamed, result, spliceVars>>
  BY DEF Close
<1>1. dpc = "done"  BY <1>0 DEF Inv, Coupled
<1>2. Dialling'
  <2>1. \A m \in Members : attempt[m] \in {"waiting", "answered"} => m # used
    BY DEF Inv, Dialling, DialTypes, Attempted, Members
  <2> QED  BY <1>0, <1>1, <2>1, Zenon DEF Inv, Dialling, DialTypes, Attempted,
                                          Refusals, InFlight
<1>3. Carrying' /\ spc' = spc /\ counted' = counted  BY <1>0, SpliceStays DEF Inv,
                                                        spliceVars
<1>4. Coupled'  BY <1>0, <1>1, <1>3 DEF Inv, Coupled
<1>5. SlotOnlyWhileDialling'  BY <1>0 DEF Inv, SlotOnlyWhileDialling
<1>6. BlameIsFair'  BY <1>0, <1>3 DEF Inv, BlameIsFair
<1> QED  BY <1>2, <1>3, <1>4, <1>5, <1>6 DEF Inv

LEMMA NextInv == Inv /\ [Next]_vars => Inv'
<1> SUFFICES ASSUME Inv, [Next]_vars PROVE Inv'  OBVIOUS
<1>1. CASE HandleStep
  BY <1>1, AdmitInv, AcquireInv, DialledInv, JudgeInv, CloseInv DEF HandleStep
<1>2. CASE (DialStep \/ AttemptNext \/ Hedge \/ Expire) /\ UNCHANGED <<spliceVars, handleVars>>
  BY <1>2, DialInvStep
<1>3. CASE /\ \/ SpliceStep \/ SweepStep \/ MarkStale \/ Flush \/ Tick
              \/ \E d \in Dirs : CopyStep(d) \/ WriteReturns(d) \/ PeerStep(d)
           /\ UNCHANGED <<dialVars, handleVars>>
  BY <1>3, SpliceInvStep
<1>4. CASE OthersDial  BY <1>4, OthersDialInv
<1>5. CASE UNCHANGED vars
  <2>1. UNCHANGED <<dialVars, spliceVars, handleVars>>  BY <1>5 DEF vars
  <2>2. Dialling' /\ Carrying'  BY <2>1, DialStays, SpliceStays DEF Inv
  <2>3. UNCHANGED <<dpc, used, sock, blamed, result, spc, counted, hpc, slots, others, judged>>
    BY <2>1 DEF dialVars, spliceVars, handleVars
  <2> QED  BY <2>2, <2>3 DEF Inv, Coupled, SlotOnlyWhileDialling, BlameIsFair
<1> QED  BY <1>1, <1>2, <1>3, <1>4, <1>5 DEF Next, DaemonStep, TimePasses, WritesReturn

-----------------------------------------------------------------------------
LEMMA InvHolds == Spec => []Inv
BY InitInv, NextInv, PTL DEF Spec

\* No slot of the dial gate and no upstream socket is leaked, whatever the
\* attempts, the hedges, the drainer and other connections do (handle,
\* raceRound and the gate's release).
THEOREM NothingLeaks == Spec => []ResourcesAccounted
<1>1. Inv => ResourcesAccounted
  BY DEF Inv, Dialling, Attempted, Coupled, ResourcesAccounted, SocketsAccounted
<1> QED  BY <1>1, InvHolds, PTL

\* A destination is condemned only by a unanimous round, and a member is
\* blamed only for a failure of its own (dialBinding's verdicts and handle's).
THEOREM Fair == Spec => []VerdictsAreFair
<1>1. Inv => VerdictsAreFair
  BY DEF Inv, Dialling, Refusals, VerdictsAreFair, RefusalIsUnanimous
<1> QED  BY <1>1, InvHolds, PTL

\* What was sent is billed once, and without a fault all of it is delivered
\* (SpliceObserved, its flusher and idleCopy), for any number of chunks.
THEOREM Accounted == Spec => []BytesAreAccounted
<1>1. Inv => BytesAreAccounted
  <2> SUFFICES ASSUME Inv PROVE BytesAreAccounted  OBVIOUS
  <2> DEFINE moved == [d \in Dirs |-> counted[d] + (IF d = "up" THEN sent ELSE 0)]
  <2>1. /\ counted \in [Dirs -> Nat] /\ flushed \in [Dirs -> Nat]
        /\ billed \in [Dirs -> Nat] /\ sent \in Nat
    BY DEF Inv, Carrying, SpliceTypes
  <2>2. \A d \in Dirs : billed[d] <= moved[d]  BY <2>1 DEF Inv, Carrying, Billed
  <2>3. spc \in {"judge", "unwind", "done"} => billed = moved
    <3> SUFFICES ASSUME spc \in {"judge", "unwind", "done"} PROVE billed = moved
      OBVIOUS
    <3>1. \A d \in Dirs : billed[d] = moved[d]  BY DEF Inv, Carrying, Billed
    <3> QED  BY <2>1, <3>1
  <2>4. BilledExactly  BY <2>2, <2>3 DEF BilledExactly
  <2>5. CleanDelivery
    <3> SUFFICES ASSUME spc \in {"final", "judge", "unwind", "done"}, ~fault
                 PROVE  ~ahead /\ \A i \in DOMAIN doneQ : ~doneQ[i].err
      BY DEF CleanDelivery
    <3>1. copy["down"] = "ended"
      <4>1. "down" \in Dirs /\ spc \notin {"idle", "copy"}  BY DEF Dirs
      <4> QED  BY <4>1, StillCopying DEF Inv
    <3> QED  BY <3>1 DEF Inv, Carrying, Faultless
  <2> QED  BY <2>4, <2>5 DEF BytesAreAccounted
<1> QED  BY <1>1, InvHolds, PTL
=============================================================================
