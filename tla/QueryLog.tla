------------------------------ MODULE QueryLog ------------------------------
(***************************************************************************)
(* The query log written behind the DNS path: a bounded queue the resolver  *)
(* never waits on, one goroutine that batches it into the store             *)
(* (daemon/querylog.go), and the store's insert-and-trim transaction        *)
(* (core/rules/logbatch.go), up to the daemon's shutdown.                   *)
(*                                                                          *)
(* An entry is its number in the order Log was called.  `written`,          *)
(* `dropped` and `failed` are ghosts.                                       *)
(***************************************************************************)
EXTENDS Integers, Sequences, SequencesExt, FiniteSets

CONSTANTS
  QueryLogQueue,   \* queryLogQueue
  QueryLogFlushAt, \* queryLogFlushAt
  MaxLogEntries,   \* MaxLogEntries
  MaxLogged        \* bound: entries logged in one behaviour

VARIABLES
  logged,     \* entries logged so far
  ch,         \* storeLogSink.ch
  batch,      \* run's batch
  table,      \* log_entries, by id
  sink,       \* run: "loop", "drain" (ctx is done), "done"
  sigterm,    \* the number of entries logged when ctx was cancelled, or -1
  written, droppedSet, failedSet  \* ghosts: what became of each entry

logVars ==
  <<logged, ch, batch, table, sink, sigterm, written, droppedSet, failedSet>>

LogInit ==
  /\ logged = 0 /\ ch = <<>> /\ batch = <<>> /\ table = <<>>
  /\ sink = "loop" /\ sigterm = -1
  /\ written = <<>> /\ droppedSet = {} /\ failedSet = {}

\* Log: a send that never blocks.
LogQuery ==
  /\ logged < MaxLogged
  /\ logged' = logged + 1
  /\ IF Len(ch) < QueryLogQueue
     THEN ch' = Append(ch, logged + 1) /\ UNCHANGED droppedSet
     ELSE droppedSet' = droppedSet \cup {logged + 1} /\ UNCHANGED ch
  /\ UNCHANGED <<batch, table, sink, sigterm, written, failedSet>>

LastOf(s, n) == IF Len(s) <= n THEN s ELSE SubSeq(s, Len(s) - n + 1, Len(s))

\* LogBatch with the trim done before the insert.
LogBatchTrimFirst(entries) == LastOf(table, MaxLogEntries) \o entries

\* LogBatch: insert the newest MaxLogEntries of the batch, then trim the
\* table to MaxLogEntries, in one transaction.
LogBatch(entries) ==
  LastOf(table \o LastOf(entries, MaxLogEntries), MaxLogEntries)

\* flush of the entries b: a failing write is logged and its batch dropped.
Flush(b) ==
  /\ batch' = <<>>
  /\ \/ /\ b # <<>>
        /\ table' = LogBatch(b)
        /\ written' = written \o b
        /\ UNCHANGED failedSet
     \/ /\ b # <<>>
        /\ failedSet' = failedSet \cup ToSet(b)
        /\ UNCHANGED <<table, written>>
     \/ /\ b = <<>>
        /\ UNCHANGED <<table, written, failedSet>>

\* run: one entry taken from the queue, a full batch flushed.
TakeEntry ==
  /\ sink = "loop" /\ ch # <<>>
  /\ ch' = Tail(ch)
  /\ IF Len(batch) + 1 >= QueryLogFlushAt
     THEN Flush(Append(batch, Head(ch)))
     ELSE batch' = Append(batch, Head(ch)) /\ UNCHANGED <<table, written, failedSet>>
  /\ UNCHANGED <<logged, sink, sigterm, droppedSet>>

FlushTick ==
  /\ sink = "loop" /\ batch # <<>>
  /\ Flush(batch)
  /\ UNCHANGED <<logged, ch, sink, sigterm, droppedSet>>

\* main: the signal cancels ctx; DNS answers keep coming until the server
\* is shut down after it.
LogCancel ==
  /\ sigterm = -1
  /\ sigterm' = logged
  /\ UNCHANGED <<logged, ch, batch, table, sink, written, droppedSet, failedSet>>

SeeDone ==
  /\ sink = "loop" /\ sigterm # -1
  /\ sink' = "drain"
  /\ UNCHANGED <<logged, ch, batch, table, sigterm, written, droppedSet, failedSet>>

\* The ctx.Done branch: whatever is queued, then the last flush.
DrainQueue ==
  /\ sink = "drain"
  /\ \/ /\ ch # <<>>
        /\ ch' = Tail(ch)
        /\ batch' = Append(batch, Head(ch))
        /\ UNCHANGED <<table, sink, written, failedSet>>
     \/ /\ ch = <<>>
        /\ Flush(batch)
        /\ sink' = "done"
        /\ UNCHANGED ch
  /\ UNCHANGED <<logged, sigterm, droppedSet>>

LogNext ==
  LogQuery \/ TakeEntry \/ FlushTick \/ LogCancel \/ SeeDone \/ DrainQueue

LogSpec == LogInit /\ [][LogNext]_logVars

\* LogKeepsNewest: the stored log is, in the order the queries came, the
\* newest MaxLogEntries of what was written; every entry is in exactly one
\* of the queue, the batch, the written, a failed batch and the dropped;
\* and once the sink has returned, every entry logged before the signal
\* was written, unless its batch failed or the queue had been full.
LogKeepsNewest ==
  LET flow == written \o batch \o ch
  IN  /\ table = LastOf(written, MaxLogEntries)
      /\ \A i, j \in DOMAIN flow : i < j => flow[i] < flow[j]
      /\ ToSet(flow) \cap (droppedSet \cup failedSet) = {}
      /\ droppedSet \cap failedSet = {}
      /\ ToSet(flow) \cup droppedSet \cup failedSet = 1 .. logged
      /\ sink = "done" =>
           (1 .. sigterm) \subseteq ToSet(written) \cup droppedSet \cup failedSet
=============================================================================
