------------------------------ MODULE ConnStats ------------------------------
(***************************************************************************)
(* The rolling connection statistics of the tunnel, daemon/connstats.go: a  *)
(* ring of one-minute buckets that the connection path adds to and the UI   *)
(* and the notifier sum.  A bucket is recycled when its slot comes round    *)
(* again, and only then, so the ring may hold minutes long past; a          *)
(* connection that is found dead is moved from the successes to the         *)
(* failures in the minute it is found so, which may be a later one.         *)
(*                                                                          *)
(* Every recorder holds the one mutex from its first line to its last and   *)
(* is one action.  Setup times are abstracted to the bin they fall in, the  *)
(* failure causes to the set Causes, and `history` is a ghost that          *)
(* remembers what was recorded and when.                                    *)
(***************************************************************************)
EXTENDS Integers, FiniteSets, FiniteSetsExt, Sequences, SequencesExt, Folds

CONSTANTS
  ConnStatsWindow, \* connStatsWindow: minutes the ring holds
  BoundedBins,     \* len(setupBinsMs): the bins with an upper bound
  Upstreams,       \* upstream names, as numbers in name order
  Causes,          \* causes a connection fails to be set up for
  MaxMinute,       \* bound: the last minute explored
  MaxEvents        \* bound: events recorded in one behaviour

VARIABLES
  minute,  \* now().Unix() / 60
  ring,    \* connStats.buckets, by minute % connStatsWindow
  history  \* ghost: the events recorded, oldest first, with their minute

statsVars == <<minute, ring, history>>

\* The open-ended bin is the last one.
Bins == 1 .. BoundedBins + 1
NoData == "no-data"
AllCauses == Causes \cup {NoData}
Slots == 0 .. ConnStatsWindow - 1

EmptyHist == [b \in Bins |-> 0]
NoCounts == [carried |-> 0, blamed |-> 0, noData |-> 0, setup |-> EmptyHist]

\* A statBucket as cur() makes it; `used` stands for its maps being non-nil.
FreshBucket(m) ==
  [minute |-> m, used |-> TRUE, conns |-> 0, ok |-> 0, hedges |-> 0,
   rebinds |-> 0, udpFlows |-> 0, udpSilent |-> 0,
   failed |-> [c \in AllCauses |-> 0], setup |-> EmptyHist,
   ups |-> [u \in Upstreams |-> NoCounts]]

\* The zero value a slot has before its first use.
ZeroBucket == [FreshBucket(0) EXCEPT !.used = FALSE]

StatsInit ==
  /\ minute = ConnStatsWindow
  /\ ring = [s \in Slots |-> ZeroBucket]
  /\ history = <<>>

(***************************************************************************)
(* The recorders.                                                          *)
(***************************************************************************)
\* cur without the recycling: the slot's old minute is added to.
curNotRecycled ==
  LET b == ring[minute % ConnStatsWindow]
  IN  IF b.used THEN b ELSE FreshBucket(minute)

\* cur: the bucket of the current minute, a stale one recycled.
cur ==
  LET b == ring[minute % ConnStatsWindow]
  IN  IF b.minute # minute THEN FreshBucket(minute) ELSE b

\* A recorder: the current bucket is replaced and the event remembered.
Recorded(b, event) ==
  /\ Len(history) < MaxEvents
  /\ ring' = [ring EXCEPT ![minute % ConnStatsWindow] = b]
  /\ history' = Append(history, event @@ [at |-> minute])
  /\ UNCHANGED minute

established(u, bin) ==
  Recorded([cur EXCEPT !.conns = @ + 1, !.ok = @ + 1, !.setup[bin] = @ + 1,
                       !.ups[u].carried = @ + 1, !.ups[u].setup[bin] = @ + 1],
           [what |-> "established", up |-> u, bin |-> bin])

failed(cause) ==
  Recorded([cur EXCEPT !.conns = @ + 1, !.failed[cause] = @ + 1],
           [what |-> "failed", cause |-> cause])

Events(what) == {i \in DOMAIN history : history[i].what = what}
EventsOf(what, u) == {i \in Events(what) : history[i].up = u}

\* A connection is found dead after it was counted as established, once.
noData(u) ==
  /\ Cardinality(EventsOf("noData", u)) < Cardinality(EventsOf("established", u))
  /\ Recorded([cur EXCEPT !.ok = @ - 1, !.failed[NoData] = @ + 1,
                          !.ups[u].noData = @ + 1],
              [what |-> "noData", up |-> u])

blamed(u) ==
  Recorded([cur EXCEPT !.ups[u].blamed = @ + 1], [what |-> "blamed", up |-> u])

hedged == Recorded([cur EXCEPT !.hedges = @ + 1], [what |-> "hedged"])

rebound == Recorded([cur EXCEPT !.rebinds = @ + 1], [what |-> "rebound"])

udpFlow(silent) ==
  Recorded([cur EXCEPT !.udpFlows = @ + 1,
                       !.udpSilent = @ + (IF silent THEN 1 ELSE 0)],
           [what |-> "udp", silent |-> silent])

StatsTick ==
  /\ minute < MaxMinute
  /\ minute' = minute + 1
  /\ UNCHANGED <<ring, history>>

StatsNext ==
  \/ \E u \in Upstreams, bin \in Bins : established(u, bin)
  \/ \E c \in Causes : failed(c)
  \/ \E u \in Upstreams : noData(u) \/ blamed(u)
  \/ hedged
  \/ rebound
  \/ \E silent \in BOOLEAN : udpFlow(silent)
  \/ StatsTick

StatsSpec == StatsInit /\ [][StatsNext]_statsVars

(***************************************************************************)
(* The snapshot.                                                           *)
(***************************************************************************)
\* The index of the first bin at which the running count reaches the
\* nearest rank of num/den; -1 with no samples.
quantile(h, num, den) ==
  LET total == MapThenSumSet(LAMBDA b : h[b], Bins)
      rank == (num * total + den - 1) \div den
      want == IF rank < 1 THEN 1 ELSE rank
      seen(i) == MapThenSumSet(LAMBDA b : h[b], 1 .. i)
  IN  IF total = 0 THEN -1 ELSE Min({i \in Bins : seen(i) >= want})

\* The buckets a snapshot counts, by slot.
CountedSlots ==
  {s \in Slots : ring[s].used /\ ring[s].minute >= minute - ConnStatsWindow + 1}

SumOver(value(_)) == MapThenSumSet(value, CountedSlots)

MergedSetup == [b \in Bins |-> SumOver(LAMBDA s : ring[s].setup[b])]

MergedUp(u) ==
  [carried |-> SumOver(LAMBDA s : ring[s].ups[u].carried),
   blamed |-> SumOver(LAMBDA s : ring[s].ups[u].blamed),
   noData |-> SumOver(LAMBDA s : ring[s].ups[u].noData),
   setup |-> [b \in Bins |-> SumOver(LAMBDA s : ring[s].ups[u].setup[b])]]

\* An upstream is listed once a recorder has asked for its counts.
ListedUps ==
  {u \in Upstreams : LET m == MergedUp(u) IN m.carried + m.blamed + m.noData > 0}

UpstreamRows ==
  LET row(u) == LET m == MergedUp(u)
                IN  [up |-> u, carried |-> m.carried, blamed |-> m.blamed,
                     noData |-> m.noData, p50 |-> quantile(m.setup, 1, 2)]
      before(r, q) == \/ r.carried > q.carried
                      \/ r.carried = q.carried /\ r.up < q.up
  IN  SetToSortSeq({row(u) : u \in ListedUps}, before)

snapshot ==
  LET oks == SumOver(LAMBDA s : ring[s].ok)
  IN  [conns |-> SumOver(LAMBDA s : ring[s].conns),
       ok |-> IF oks < 0 THEN 0 ELSE oks,
       hedges |-> SumOver(LAMBDA s : ring[s].hedges),
       rebinds |-> SumOver(LAMBDA s : ring[s].rebinds),
       udpFlows |-> SumOver(LAMBDA s : ring[s].udpFlows),
       udpSilent |-> SumOver(LAMBDA s : ring[s].udpSilent),
       failed |-> [c \in AllCauses |-> SumOver(LAMBDA s : ring[s].failed[c])],
       p50 |-> quantile(MergedSetup, 1, 2), p95 |-> quantile(MergedSetup, 19, 20),
       ups |-> UpstreamRows]

(***************************************************************************)
(* Properties.                                                             *)
(***************************************************************************)
Recent(ids) == {i \in ids : history[i].at > minute - ConnStatsWindow}

\* The nearest-rank quantile of a set of setup events: the least bin that
\* at least num/den of them do not exceed.
RankOf(ids, num, den) ==
  IF ids = {} THEN -1
  ELSE Min({b \in Bins :
              den * Cardinality({i \in ids : history[i].bin <= b})
                >= num * Cardinality(ids)})

\* WindowIsExact: whatever minutes passed between events and whatever
\* stale minutes the ring still holds, a snapshot is the tally of exactly
\* the events of the last connStatsWindow minutes.  A connection set up in
\* the window counts as a success or, once found dead, as a failure; one
\* found dead whose set-up has aged out can only lower the successes to 0.
\* The quantiles are the nearest-rank quantiles of the same events.
WindowIsExact ==
  LET Est == Recent(Events("established"))
      Dead == Recent(Events("noData"))
      Fail(c) == {i \in Recent(Events("failed")) : history[i].cause = c}
      Udp == Recent(Events("udp"))
      Of(ids, u) == {i \in ids : history[i].up = u}
      s == snapshot
  IN  /\ s.conns = Cardinality(Est) + Cardinality(Recent(Events("failed")))
      /\ s.ok = Max({0, Cardinality(Est) - Cardinality(Dead)})
      /\ \A c \in Causes : s.failed[c] = Cardinality(Fail(c))
      /\ s.failed[NoData] = Cardinality(Dead)
      /\ s.hedges = Cardinality(Recent(Events("hedged")))
      /\ s.rebinds = Cardinality(Recent(Events("rebound")))
      /\ s.udpFlows = Cardinality(Udp)
      /\ s.udpSilent = Cardinality({i \in Udp : history[i].silent})
      /\ s.p50 = RankOf(Est, 1, 2)
      /\ s.p95 = RankOf(Est, 19, 20)
      /\ \A i, j \in DOMAIN s.ups : i < j => s.ups[i].carried >= s.ups[j].carried
      /\ \A i \in DOMAIN s.ups :
           LET u == s.ups[i].up
           IN  /\ s.ups[i].carried = Cardinality(Of(Est, u))
               /\ s.ups[i].noData = Cardinality(Of(Dead, u))
               /\ s.ups[i].blamed = Cardinality(Of(Recent(Events("blamed")), u))
               /\ s.ups[i].p50 = RankOf(Of(Est, u), 1, 2)
==============================================================================
