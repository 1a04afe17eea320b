--------------------------- MODULE TrafficLedger ---------------------------
(***************************************************************************)
(* Usage accounting: the aggregator that buffers proxied byte counts        *)
(* (daemon/traffic.go), the store's table of per-minute rows with its       *)
(* retention sweep and hourly rollup (core/rules/store.go), the daemon's    *)
(* sweep ticker and the part of its shutdown that ends the two             *)
(* (daemon/main.go).                                                        *)
(*                                                                          *)
(* Domains, upstreams, directions and group attribution are abstracted to   *)
(* one key and one counter: rows of different keys never meet.  Time is     *)
(* the minute, an hour is Rollup minutes, and one step records one byte.    *)
(* `recorded` and `lost` are ghosts.                                        *)
(***************************************************************************)
EXTENDS Integers, FiniteSets, FiniteSetsExt

CONSTANTS
  Rollup,     \* TrafficRollup, in minutes
  RollupAge,  \* TrafficRollupAge
  Retention,  \* TrafficRetention
  MaxTime,    \* bound: the last minute explored
  MaxBytes    \* bound: bytes recorded in one behaviour

VARIABLES
  clock,     \* the current minute
  buf,       \* trafficAggregator.buf
  pending,   \* the buffer a drain has swapped out and not yet written
  rows,      \* traffic_stats: bytes by bucket_ts (0: no row)
  drainer,   \* Run: "idle", "writing" (a tick's drain), "final", "done"
  cancelled, \* the daemon's ctx is cancelled
  recorded,  \* ghost: bytes recorded, by minute
  lost,      \* ghost: bytes of failed writes, by minute
  late       \* ghost: bytes recorded after ctx was cancelled, by minute

trafficVars ==
  <<clock, buf, pending, rows, drainer, cancelled, recorded, lost, late>>

Minutes == 0 .. MaxTime
None == [m \in Minutes |-> 0]
Plus(f, g) == [m \in Minutes |-> f[m] + g[m]]
Total(f, ms) == MapThenSumSet(LAMBDA m : f[m], ms)
Hour(m) == (m \div Rollup) * Rollup

TrafficInit ==
  /\ clock = 0
  /\ buf = None /\ pending = None /\ rows = None
  /\ drainer = "idle" /\ cancelled = FALSE
  /\ recorded = None /\ lost = None /\ late = None

\* Record, called from the splice's flush callbacks.
TrafficRecord ==
  /\ Total(recorded, Minutes) < MaxBytes
  /\ buf' = [buf EXCEPT ![clock] = @ + 1]
  /\ recorded' = [recorded EXCEPT ![clock] = @ + 1]
  /\ late' = IF cancelled THEN [late EXCEPT ![clock] = @ + 1] ELSE late
  /\ UNCHANGED <<clock, pending, rows, drainer, cancelled, lost>>

\* drain up to the unlock: an empty buffer ends it there.
Drain(stage) ==
  /\ buf # None
  /\ pending' = buf
  /\ buf' = None
  /\ drainer' = stage
  /\ UNCHANGED <<clock, rows, cancelled, recorded, lost, late>>

DrainTick == drainer = "idle" /\ Drain("writing")

\* Run's ctx.Done branch: one drain more, with a context of its own.
DrainFinal ==
  /\ drainer = "idle" /\ cancelled
  /\ \/ Drain("final")
     \/ /\ buf = None
        /\ drainer' = "done"
        /\ UNCHANGED <<clock, buf, pending, rows, cancelled, recorded, lost, late>>

AfterWrite == IF drainer = "final" THEN "done" ELSE "idle"

\* AddTrafficBatch as one row per write and no transaction around them:
\* a failing write leaves what was written before it.
AddTrafficBatchTorn(ok) ==
  /\ drainer \in {"writing", "final"}
  /\ ok => drainer = "final" \/ ~cancelled
  /\ rows' = IF ok THEN Plus(rows, pending)
             ELSE [m \in Minutes |-> rows[m] + (IF m < clock THEN pending[m] ELSE 0)]
  /\ lost' = IF ok THEN lost ELSE Plus(lost, pending)
  /\ pending' = None
  /\ drainer' = AfterWrite
  /\ UNCHANGED <<clock, buf, cancelled, recorded, late>>

\* AddTrafficBatch: one transaction.  A tick's drain carries the daemon's
\* ctx, so once that is cancelled the write cannot commit; the drain only
\* logs an error, and what it had swapped out is gone.
AddTrafficBatch(ok) ==
  /\ drainer \in {"writing", "final"}
  /\ ok => drainer = "final" \/ ~cancelled
  /\ rows' = IF ok THEN Plus(rows, pending) ELSE rows
  /\ lost' = IF ok THEN lost ELSE Plus(lost, pending)
  /\ pending' = None
  /\ drainer' = AfterWrite
  /\ UNCHANGED <<clock, buf, cancelled, recorded, late>>

\* The rows after SweepTraffic and after CompactTraffic, at the given time.
SweepTraffic(t) == [m \in Minutes |-> IF m < t THEN 0 ELSE rows[m]]

Foldable(m, cutoff) == m < cutoff /\ m % Rollup # 0

CompactTraffic(f, t) ==
  LET cutoff == IF t < 0 THEN 0 ELSE Hour(t)
      source(h) == {m \in Minutes : Foldable(m, cutoff) /\ Hour(m) = h}
  IN  [m \in Minutes |->
         IF Foldable(m, cutoff) THEN 0
         ELSE IF m % Rollup = 0 THEN f[m] + Total(f, source(m))
         ELSE f[m]]

\* A tick of the sweeper: retention, and on some ticks the rollup.  Either
\* may fail, which is logged and leaves its rows as they were.
SweepTick ==
  /\ ~cancelled
  /\ \E swept \in {rows, SweepTraffic(clock - Retention)} :
       rows' \in {swept, CompactTraffic(swept, clock - RollupAge)}
  /\ UNCHANGED <<clock, buf, pending, drainer, cancelled, recorded, lost, late>>

\* main: SIGTERM cancels ctx before the tunnel is stopped.
CancelCtx ==
  /\ ~cancelled
  /\ cancelled' = TRUE
  /\ UNCHANGED <<clock, buf, pending, rows, drainer, recorded, lost, late>>

TrafficTick ==
  /\ clock < MaxTime
  /\ clock' = clock + 1
  /\ UNCHANGED <<buf, pending, rows, drainer, cancelled, recorded, lost, late>>

TrafficNext ==
  \/ TrafficRecord
  \/ DrainTick
  \/ DrainFinal
  \/ \E ok \in BOOLEAN : AddTrafficBatch(ok)
  \/ SweepTick
  \/ CancelCtx
  \/ TrafficTick

TrafficSpec == TrafficInit /\ [][TrafficNext]_trafficVars

(***************************************************************************)
(* Properties.                                                             *)
(***************************************************************************)
HourOf(h) == {m \in Minutes : Hour(m) = h}

\* TrafficBalances: for every hour not yet past the retention, the bytes
\* recorded in it are each in exactly one place (the buffer, a drain's
\* batch, the table, a batch whose write failed), whatever drains, failed
\* writes, late rows, sweeps and repeated rollups there were: nothing is
\* billed twice and a rollup moves no byte to another hour.  And once Run
\* has returned, the buffer holds only bytes recorded after the daemon's
\* ctx was cancelled.
TrafficBalances ==
  /\ \A h \in {Hour(m) : m \in Minutes} :
       h >= clock - Retention =>
         Total(recorded, HourOf(h))
           = Total(buf, HourOf(h)) + Total(pending, HourOf(h))
             + Total(rows, HourOf(h)) + Total(lost, HourOf(h))
  /\ drainer = "done" => \A m \in Minutes : buf[m] <= late[m]
=============================================================================
