---------------------------- MODULE DialBinding ----------------------------
(***************************************************************************)
(* One proxied TCP connection finding a member of its rule's binding that   *)
(* carries it: dialBinding, raceRound and serialRound of                    *)
(* daemon/proxytun.go.  A connection that opens with a verifiable hello is   *)
(* raced: every launched attempt is a goroutine of its own that dials,       *)
(* replays the hello and waits for a byte back, while the race loop reads    *)
(* results, a hedge timer and the connect deadline.  Attempts may outlive    *)
(* the race; a drainer closes what they return.                             *)
(*                                                                         *)
(* Members are numbered in launch order, so the ranking and diverseOrder     *)
(* are the numbering.  Bytes, names and durations are abstracted: an answer, *)
(* a close or a silence is what the model tells apart, and a timer may fire  *)
(* at any moment.                                                           *)
(***************************************************************************)
EXTENDS Naturals, FiniteSets

CONSTANTS N,                     \* members in the binding
          proxyDialMaxRounds,
          proxyHedgeMaxInFlight

ASSUME DialAssumption ==
    /\ N \in Nat \ {0}
    /\ proxyDialMaxRounds \in Nat \ {0}
    /\ proxyHedgeMaxInFlight \in Nat \ {0}

Members == 1..N

VARIABLES
    dpc,        \* where dialBinding is
    opening,    \* what the client said first: "unread", "verify", "plain", "silent"
    round,      \* the pass over the binding
    next,       \* how many members this pass has launched or walked
    attempt,    \* each member's attempt: none, running, or its result waiting
    sock,       \* members whose upstream socket is open for this connection
    cancelled,  \* the race's context was cancelled
    expired,    \* the connect deadline has passed
    failed,     \* members that failed this connection, over all rounds
    refused,    \* members whose exit closed on the hello, in this round
    said,       \* history: each member's last outcome in this round
    used,       \* the member that carries the connection, 0 for none
    blamed,     \* members noteUpstreamFailure was last called for
    result      \* what dialBinding returned

dialVars == <<dpc, opening, round, next, attempt, sock, cancelled, expired,
              failed, refused, said, used, blamed, result>>

Running == {"dialing", "waiting"}
Results == {"answered", "refused", "failed"}

\* Launched and not yet received: what raceRound counts in inFlight.
InFlight == {m \in Members : attempt[m] # "none"}

DialInit ==
    /\ dpc = "idle" /\ opening = "unread" /\ result = "none"
    /\ round = 0 /\ next = 0 /\ used = 0
    /\ attempt = [m \in Members |-> "none"]
    /\ said = [m \in Members |-> "nothing"]
    /\ sock = {} /\ failed = {} /\ refused = {} /\ blamed = {}
    /\ cancelled = FALSE /\ expired = FALSE

\* dialBinding returns r without an upstream.
GiveUp(r) == dpc' = "done" /\ result' = r

----------------------------------------------------------------------------
(* The opening bytes.  A client that closes before a byte is gone; one that  *)
(* stays silent, or sits on a port where servers speak first, is forwarded   *)
(* unverified.                                                              *)

ReadOpening ==
    /\ dpc = "opening"
    /\ \/ /\ GiveUp("clientGone")
          /\ UNCHANGED <<opening, round>>
       \/ /\ opening' \in {"verify", "plain", "silent"}
          /\ round' = 1 /\ dpc' = "round"
          /\ UNCHANGED result
    /\ UNCHANGED <<next, attempt, sock, cancelled, expired, failed, refused,
                   said, used, blamed>>

\* Refusals are counted per round; the mutation lets them add up.
RefusalsKept == refused
FreshRefusals == {}

StartRound ==
    /\ dpc = "round"
    /\ refused' = FreshRefusals /\ cancelled' = FALSE
    /\ said' = [m \in Members |-> "nothing"]
    /\ IF opening = "verify"
       THEN /\ dpc' = "race" /\ next' = 1
            /\ attempt' = [attempt EXCEPT ![1] = "dialing"]
       ELSE /\ dpc' = "serial" /\ next' = 0
            /\ UNCHANGED attempt
    /\ UNCHANGED <<opening, round, sock, expired, failed, used, blamed, result>>

----------------------------------------------------------------------------
(* One raced attempt: attemptVerified, with dialMember and primeUpstream.    *)

Ended(m, r, open) ==
    /\ attempt' = [attempt EXCEPT ![m] = r]
    /\ sock' = IF open THEN sock \cup {m} ELSE sock \ {m}
    /\ UNCHANGED <<dpc, opening, round, next, cancelled, expired, failed,
                   refused, said, used, blamed, result>>

DialFails(m) == attempt[m] = "dialing" /\ Ended(m, "failed", FALSE)

DialOpens(m) == attempt[m] = "dialing" /\ Ended(m, "waiting", TRUE)

\* The reply came and no cancellation had started: stop() reports true.
Answers(m) ==
    /\ attempt[m] = "waiting"
    /\ ~cancelled /\ ~expired
    /\ Ended(m, "answered", TRUE)

Refuses(m) == attempt[m] = "waiting" /\ Ended(m, "refused", FALSE)

\* No reply in time, a failed write, or the wait aborted by a cancellation.
GoesSilent(m) == attempt[m] = "waiting" /\ Ended(m, "failed", FALSE)

AttemptStep(m) ==
    DialFails(m) \/ DialOpens(m) \/ Answers(m) \/ Refuses(m) \/ GoesSilent(m)

----------------------------------------------------------------------------
(* The race loop.                                                          *)

Launched == [attempt EXCEPT ![next + 1] = "dialing"]

\* The first answer carries the connection and cancels the rest.
ReceiveAnswer(m) ==
    /\ dpc = "race" /\ attempt[m] = "answered"
    /\ attempt' = [attempt EXCEPT ![m] = "none"]
    /\ cancelled' = TRUE /\ used' = m /\ dpc' = "won"
    /\ UNCHANGED <<opening, round, next, sock, expired, failed, refused, said,
                   blamed, result>>

\* A failure starts the next member at once.
ReceiveFailure(m) ==
    /\ dpc = "race" /\ attempt[m] \in {"refused", "failed"}
    /\ failed' = failed \cup {m}
    /\ refused' = IF attempt[m] = "refused" THEN refused \cup {m} ELSE refused
    /\ said' = [said EXCEPT ![m] = attempt[m]]
    /\ attempt' = [i \in Members |->
                     CASE i = m -> "none"
                       [] i # m /\ i = next + 1 -> "dialing"
                       [] OTHER -> attempt[i]]
    /\ next' = IF next < N THEN next + 1 ELSE next
    /\ UNCHANGED <<dpc, opening, round, sock, cancelled, expired, used, blamed,
                   result>>

\* The bound on attempts of one connection in flight, and on members to start.
MayHedge == next < N /\ Cardinality(InFlight) < proxyHedgeMaxInFlight

Hedge ==
    /\ dpc = "race" /\ InFlight # {} /\ MayHedge
    /\ attempt' = Launched /\ next' = next + 1
    /\ UNCHANGED <<dpc, opening, round, sock, cancelled, expired, failed,
                   refused, said, used, blamed, result>>

RaceExpires ==
    /\ dpc = "race" /\ InFlight # {} /\ expired
    /\ cancelled' = TRUE /\ GiveUp("nothing")
    /\ UNCHANGED <<opening, round, next, attempt, sock, expired, failed,
                   refused, said, used, blamed>>

\* Nobody answered.  The destination is condemned only when every member was
\* refused in this round and one of them recently carried data (anyProven).
RoundOver ==
    /\ dpc = "race" /\ InFlight = {}
    /\ \/ refused = Members /\ GiveUp("refused")
       \/ dpc' = "after" /\ UNCHANGED result
    /\ UNCHANGED <<opening, round, next, attempt, sock, cancelled, expired,
                   failed, refused, said, used, blamed>>

\* As Drain, but a loser's connection is dropped without a close.
DrainForgets(m) ==
    /\ dpc # "race" /\ attempt[m] \in Results
    /\ attempt' = [attempt EXCEPT ![m] = "none"]
    /\ UNCHANGED <<dpc, opening, round, next, sock, cancelled, expired, failed,
                   refused, said, used, blamed, result>>

\* Results that land after the race is decided are closed as they arrive.
Drain(m) ==
    /\ dpc # "race" /\ attempt[m] \in Results
    /\ attempt' = [attempt EXCEPT ![m] = "none"]
    /\ sock' = sock \ {m}
    /\ UNCHANGED <<dpc, opening, round, next, cancelled, expired, failed,
                   refused, said, used, blamed, result>>

----------------------------------------------------------------------------
(* serialRound: the first member that can be dialled carries it unverified.  *)

SerialStep ==
    /\ dpc = "serial"
    /\ \/ /\ next = N /\ dpc' = "after"
          /\ UNCHANGED <<next, failed, sock, used>>
       \/ /\ next < N /\ ~expired
          /\ used' = next + 1 /\ sock' = sock \cup {next + 1}
          /\ dpc' = "won"
          /\ UNCHANGED <<next, failed>>
       \/ /\ next < N
          /\ failed' = failed \cup {next + 1} /\ next' = next + 1
          /\ UNCHANGED <<dpc, sock, used>>
    /\ UNCHANGED <<opening, round, attempt, cancelled, expired, refused, said,
                   blamed, result>>

----------------------------------------------------------------------------
(* The rounds.                                                             *)

\* Whom to blame once a member carries the connection: those that failed it,
\* but not the carrier for an earlier round; the mutation spares nobody.
BlameAll == failed
Blameworthy == failed \ {used}

Win ==
    /\ dpc = "won"
    /\ blamed' = Blameworthy
    /\ dpc' = "done" /\ result' = "carried"
    /\ UNCHANGED <<opening, round, next, attempt, sock, cancelled, expired,
                   failed, refused, said, used>>

\* After a lost round: out of time, out of rounds, or once more after a pause
\* the deadline may cut short.
AfterRound ==
    /\ dpc = "after"
    /\ \/ (expired \/ round = proxyDialMaxRounds) /\ GiveUp("nothing")
          /\ UNCHANGED round
       \/ /\ ~expired /\ round < proxyDialMaxRounds
          /\ dpc' = "backoff" /\ UNCHANGED <<round, result>>
    /\ UNCHANGED <<opening, next, attempt, sock, cancelled, expired, failed,
                   refused, said, used, blamed>>

BackOff ==
    /\ dpc = "backoff"
    /\ \/ expired /\ GiveUp("nothing") /\ UNCHANGED round
       \/ dpc' = "round" /\ round' = round + 1 /\ UNCHANGED result
    /\ UNCHANGED <<opening, next, attempt, sock, cancelled, expired, failed,
                   refused, said, used, blamed>>

\* proxyConnectDeadline passes.
Expire ==
    /\ dpc \notin {"idle", "done"} /\ ~expired
    /\ expired' = TRUE
    /\ UNCHANGED <<dpc, opening, round, next, attempt, sock, cancelled, failed,
                   refused, said, used, blamed, result>>

\* What dialBinding's own goroutine does next, the timers it waits for aside.
DialStep ==
    \/ ReadOpening \/ StartRound \/ RaceExpires \/ RoundOver \/ SerialStep
    \/ Win \/ AfterRound \/ BackOff
    \/ \E m \in Members : ReceiveAnswer(m) \/ ReceiveFailure(m)

AttemptNext == \E m \in Members : AttemptStep(m) \/ Drain(m)
=============================================================================
