------------------------------ MODULE GeoUpdate ------------------------------
(***************************************************************************)
(* The geo-data updater (core/geo/update.go) for one file: fetch, verify,   *)
(* rotate, place, record; Rollback; what geo.meta remembers and SyncMeta     *)
(* repairs at start; the in-memory DB it reloads (core/geo/geo.go); and the  *)
(* daemon's hourly check and IPC handlers (daemon/geo_update.go and          *)
(* geo_handlers.go).  u.mu admits one update or rollback at a time, so the   *)
(* interleavings that matter are with releases, with edits of the xray       *)
(* config, with failing calls and with the process dying between two calls.  *)
(*                                                                         *)
(* A file's content is a release or Torn; its checksum is the content        *)
(* itself.  kind tells a .dat (weekly, tags) from an .mmdb (monthly).        *)
(***************************************************************************)
EXTENDS Naturals

CONSTANTS
  RefTags,      \* the geosite/geoip tags an xray config may reference
  Catalogue,    \* what the sources of a .dat may offer: records [id, tags]
  MaxMonth,     \* the months of an .mmdb
  Interval,     \* DatInterval (mmdbRecheck) in ticks
  Backoff       \* failureBackoff in ticks

ASSUME CatalogueAssumption ==
  /\ \A r \in Catalogue : r \in [id : Nat \ {0}, tags : SUBSET RefTags]
  /\ MaxMonth \in Nat

VARIABLES
  kind,       \* "dat" or "mmdb", fixed
  disk,       \* [live, bak, tmp, swap]
  entry,      \* the file's entry of geo.meta
  db,         \* what the loaded DB reads for this file
  job,        \* [pc, req, err, did, rotated]: the holder of u.mu
  published,  \* what the source offers
  month,      \* the calendar's month, of an .mmdb
  required,   \* the tags the xray config references now
  calm,       \* environment: from now on nothing fails or changes outside
  faulted     \* ghost: a rename into place or a write of geo.meta has failed

geoVars == <<kind, disk, entry, db, job, published, month, required, calm, faulted>>

Months == [id : 1 .. MaxMonth, tags : {{}}]
Releases == Catalogue \cup Months
Absent == [id |-> 0, tags |-> {}]           \* no such file
Torn == [id |-> 0, tags |-> {"torn"}]     \* bytes that do not parse
Unloaded == [id |-> 0, tags |-> {"none"}] \* the DB before its first use

NoPrev == [source |-> "unknown", sum |-> Absent]
NoEntry == [has |-> FALSE, source |-> "none", sum |-> Absent, checked |-> FALSE,
            age |-> Interval, wait |-> 0, prev |-> NoPrev]
Idle == [pc |-> "idle", req |-> {}, err |-> FALSE, did |-> FALSE, rotated |-> FALSE]

GeoInit ==
  /\ kind \in {"dat", "mmdb"}
  /\ \E r \in IF kind = "dat" THEN Catalogue ELSE {m \in Months : m.id = 1} :
       /\ published = r
       /\ disk = [live |-> IF kind = "dat" THEN r ELSE Absent, bak |-> Absent, tmp |-> Absent,
                  swap |-> Absent]
  /\ entry = NoEntry /\ db = Unloaded /\ job = [Idle EXCEPT !.pc = "down"]
  /\ month = 1 /\ required = {} /\ calm = FALSE /\ faulted = FALSE

Busy == job.pc \notin {"idle", "down"}
GoTo(pc) == job' = [job EXCEPT !.pc = pc]
DiskFault == ~calm /\ faulted' = TRUE
Failed == job' = [job EXCEPT !.pc = "record", !.err = TRUE]

(***************************************************************************)
(* What is due                                                             *)
(***************************************************************************)
(* The month recorded for an .mmdb; 0 when it was never fetched.            *)
Version(e) == IF e.source = "fetched" /\ e.sum \in Releases THEN e.sum.id ELSE 0

Due ==
  /\ entry.wait = 0
  /\ IF kind = "dat"
       THEN \/ disk.live = Absent \/ ~entry.has
            \/ (entry.source = "bundled" /\ ~entry.checked)
            \/ entry.age >= Interval
       ELSE /\ disk.live # Absent
            /\ Version(entry) < month /\ entry.age >= Interval

(* SyncMeta: a file geo.meta does not describe is taken for a bundled one.  *)
SyncMeta ==
  IF disk.live = Absent \/ (entry.has /\ entry.sum \in {Absent, disk.live}) THEN entry
  ELSE [NoEntry EXCEPT !.has = TRUE, !.source = "bundled", !.sum = disk.live]

Boot ==
  /\ job.pc = "down"
  /\ entry' = SyncMeta /\ job' = Idle
  /\ UNCHANGED <<kind, disk, db, published, month, required, calm, faulted>>

(***************************************************************************)
(* Update: RunDue at the hourly tick, geo.update's Start, EnsureMMDB        *)
(***************************************************************************)
Begin(wanted) ==
  /\ job.pc = "idle" /\ wanted
  /\ \/ job' = [Idle EXCEPT !.pc = "fetch", !.req = required]
     \/ /\ kind = "dat" /\ ~calm    \* no source, or the references cannot be read
        /\ job' = [Idle EXCEPT !.pc = "record", !.err = TRUE]
  /\ UNCHANGED <<kind, disk, entry, db, published, month, required, calm, faulted>>

RunDue == Begin(Due)
UpdateAsked == Begin(~calm)
EnsureMMDB == Begin(kind = "mmdb" /\ disk.live = Absent /\ entry.wait = 0)

(* touch: a successful check that found nothing newer.                       *)
touch ==
  \/ /\ entry' = [entry EXCEPT !.has = TRUE, !.checked = TRUE, !.age = 0]
     /\ GoTo("record") /\ UNCHANGED faulted
  \/ DiskFault /\ Failed /\ UNCHANGED entry

(* eachClient and download: no client gets it, the checksum differs, or      *)
(* something arrives (torn when the source publishes no checksum).           *)
Download(r) ==
  \/ ~calm /\ Failed /\ UNCHANGED <<disk, entry, faulted>>
  \/ /\ \E got \in {r} \cup (IF calm THEN {} ELSE {Torn}) : disk' = [disk EXCEPT !.tmp = got]
     /\ GoTo("verify") /\ UNCHANGED <<entry, faulted>>

Fetch ==
  /\ job.pc = "fetch"
  /\ IF kind = "dat" THEN Download(published)
     ELSE LET have == Version(entry)
          IN IF have >= month \/ (have # 0 /\ have >= month - 1 /\ published.id < month)
               THEN touch /\ UNCHANGED disk
               ELSE Download(published)
  /\ UNCHANGED <<kind, db, published, month, required, calm>>

(* The tags the loaded DB has; the first question loads it.                  *)
Loaded == IF db = Unloaded THEN disk.live ELSE db
TagsOf(c) == IF c \in Releases THEN c.tags ELSE {}
(* A plausible slip: the candidate and the file in use change places.       *)
missingTagsSwapped(c) == {t \in job.req : t \in TagsOf(c) /\ t \notin TagsOf(Loaded)}

missingTags(c) == {t \in job.req : t \notin TagsOf(c) /\ t \in TagsOf(Loaded)}
Usable(c) == c \in Releases /\ missingTags(c) = {}

Verify ==
  /\ job.pc = "verify"
  /\ IF ~Usable(disk.tmp) THEN Failed /\ UNCHANGED <<entry, faulted>>
     ELSE IF entry.has /\ entry.sum = disk.tmp THEN touch
     ELSE GoTo("rotate") /\ UNCHANGED <<entry, faulted>>
  /\ db' = Loaded
  /\ UNCHANGED <<kind, disk, published, month, required, calm>>

(* install: current -> .bak, then tmp -> file, then geo.meta.                *)
Rotate ==
  /\ job.pc = "rotate"
  /\ \/ ~calm /\ Failed /\ UNCHANGED disk
     \/ /\ disk' = IF disk.live = Absent THEN disk
                   ELSE [disk EXCEPT !.bak = disk.live, !.live = Absent]
        /\ job' = [job EXCEPT !.pc = "place", !.rotated = disk.live # Absent]
  /\ UNCHANGED <<kind, entry, db, published, month, required, calm, faulted>>

Place ==
  /\ job.pc = "place"
  /\ \/ /\ disk' = [disk EXCEPT !.live = disk.tmp, !.tmp = Absent]
        /\ GoTo("meta")
        /\ UNCHANGED faulted
     \/ DiskFault /\ disk' = [disk EXCEPT !.live = disk.bak, !.bak = Absent] /\ Failed
  /\ UNCHANGED <<kind, entry, db, published, month, required, calm>>

Provenance(e) == IF e.has THEN [source |-> e.source, sum |-> e.sum]
                 ELSE [source |-> "bundled", sum |-> Absent]
Installed ==
  [has |-> TRUE, source |-> "fetched", sum |-> disk.live, checked |-> TRUE, age |-> 0,
   wait |-> 0, prev |-> IF job.rotated THEN Provenance(entry) ELSE NoPrev]

WriteMeta ==
  /\ job.pc = "meta"
  /\ \/ /\ entry' = Installed /\ job' = [job EXCEPT !.pc = "record", !.did = TRUE]
        /\ UNCHANGED faulted
     \/ DiskFault /\ Failed /\ UNCHANGED entry
  /\ UNCHANGED <<kind, disk, db, published, month, required, calm>>

(* record, the deferred removal of .tmp, and installed.                      *)
record ==
  /\ job.pc = "record"
  /\ \/ /\ entry' = [entry EXCEPT !.has = TRUE, !.wait = IF job.err THEN Backoff ELSE 0]
        /\ UNCHANGED faulted
     \/ DiskFault /\ UNCHANGED entry
  /\ disk' = [disk EXCEPT !.tmp = Absent]
  /\ db' = IF job.did /\ ~job.err THEN disk.live ELSE db
  /\ job' = Idle
  /\ UNCHANGED <<kind, published, month, required, calm>>

(***************************************************************************)
(* Rollback: swap the file with its backup                                  *)
(***************************************************************************)
Rollback ==
  /\ job.pc = "idle" /\ ~calm /\ disk.bak # Absent
  /\ LET req == {t \in required : t \in TagsOf(Loaded)}
     IN disk.bak \in Releases /\ req \subseteq TagsOf(disk.bak)
  /\ job' = [Idle EXCEPT !.pc = "aside", !.req = required]
  /\ db' = Loaded
  /\ UNCHANGED <<kind, disk, entry, published, month, required, calm, faulted>>

Aside ==
  /\ job.pc = "aside"
  /\ \/ ~calm /\ job' = Idle /\ disk' = [disk EXCEPT !.swap = Absent]
     \/ /\ disk' = [disk EXCEPT !.swap = disk.live, !.live = Absent]
        /\ GoTo("restore")
  /\ UNCHANGED <<kind, entry, db, published, month, required, calm, faulted>>

Restore ==
  /\ job.pc = "restore"
  /\ \/ disk' = [disk EXCEPT !.live = disk.bak, !.bak = Absent] /\ GoTo("keep")
     \/ ~calm /\ disk' = [disk EXCEPT !.live = disk.swap, !.swap = Absent] /\ job' = Idle
  /\ UNCHANGED <<kind, entry, db, published, month, required, calm, faulted>>

Keep ==
  /\ job.pc = "keep"
  /\ disk' = IF disk.swap = Absent THEN disk
             ELSE [disk EXCEPT !.bak = disk.swap, !.swap = Absent]
  /\ GoTo("remeta")
  /\ UNCHANGED <<kind, entry, db, published, month, required, calm, faulted>>

(* Provenance goes back with the bytes; without any, it is read off the file. *)
RolledBack ==
  [entry EXCEPT !.has = TRUE, !.source = entry.prev.source,
                !.sum = IF entry.prev.sum = Absent THEN disk.live ELSE entry.prev.sum,
                !.prev = [source |-> entry.source, sum |-> entry.sum],
                !.checked = TRUE, !.age = 0, !.wait = 0]

RewriteMeta ==
  /\ job.pc = "remeta"
  /\ \/ entry' = RolledBack /\ UNCHANGED faulted
     \/ DiskFault /\ UNCHANGED entry
  /\ db' = disk.live /\ job' = Idle
  /\ UNCHANGED <<kind, disk, published, month, required, calm>>

(***************************************************************************)
(* Environment                                                             *)
(***************************************************************************)
(* The process dies; the files stay as the last call left them.  (A left-over *)
(* .tmp or .swap is never read: the next run truncates or removes it.)        *)
Die ==
  /\ job.pc # "down" /\ ~calm
  /\ job' = [Idle EXCEPT !.pc = "down"] /\ db' = Unloaded
  /\ disk' = [disk EXCEPT !.tmp = Absent, !.swap = Absent]
  /\ UNCHANGED <<kind, entry, published, month, required, calm, faulted>>

(* A new release; for a .dat also another source's.                          *)
Publish ==
  /\ ~calm
  /\ \E r \in IF kind = "dat" THEN Catalogue
             ELSE {m \in Months : published.id < m.id /\ m.id <= month} :
       r # published /\ published' = r
  /\ UNCHANGED <<kind, disk, entry, db, job, month, required, calm, faulted>>

EditConfig ==
  /\ kind = "dat" /\ ~calm
  /\ \E tags \in SUBSET RefTags : tags # required /\ required' = tags
  /\ UNCHANGED <<kind, disk, entry, db, job, published, month, calm, faulted>>

GeoTick ==
  /\ entry' = [entry EXCEPT !.age = IF @ < Interval THEN @ + 1 ELSE @,
                            !.wait = IF @ > 0 THEN @ - 1 ELSE 0]
  /\ entry' # entry
  /\ UNCHANGED <<kind, disk, db, job, published, month, required, calm, faulted>>

NextMonth ==
  /\ kind = "mmdb" /\ ~calm /\ month < MaxMonth /\ published.id = month
  /\ month' = month + 1
  /\ UNCHANGED <<kind, disk, entry, db, job, published, required, calm, faulted>>

CalmDown ==
  /\ ~calm /\ calm' = TRUE
  /\ UNCHANGED <<kind, disk, entry, db, job, published, month, required, faulted>>

JobStep ==
  \/ Fetch \/ Verify \/ Rotate \/ Place \/ WriteMeta \/ record
  \/ Aside \/ Restore \/ Keep \/ RewriteMeta

GeoNext ==
  \/ JobStep \/ Boot \/ RunDue \/ UpdateAsked \/ EnsureMMDB \/ Rollback
  \/ Die \/ Publish \/ EditConfig \/ GeoTick \/ NextMonth \/ CalmDown

(* The job's goroutine runs on, launchd restarts the daemon, the hourly      *)
(* check and the map's poll for the .mmdb come round, and time passes.       *)
GeoFairness ==
  /\ WF_geoVars(JobStep) /\ WF_geoVars(Boot) /\ WF_geoVars(RunDue \/ EnsureMMDB)
  /\ WF_geoVars(GeoTick)

(***************************************************************************)
(* Properties                                                              *)
(***************************************************************************)

(* What replaces the file parses and still lists every tag the xray config   *)
(* referenced when the run began and the file it replaces listed, for an     *)
(* update and for a rollback, after any sequence of crashes, releases and    *)
(* failed downloads (update.go:25-28 and 100-101).  The tags are compared    *)
(* with the DB's, which a failed write of geo.meta leaves behind the file.   *)
ReplacementIsSound ==
  /\ disk.live # Torn
  /\ job.pc = "meta" /\ job.rotated /\ ~faulted =>
       \A t \in job.req : t \in TagsOf(disk.bak) => t \in TagsOf(disk.live)
  /\ job.pc = "keep" /\ ~faulted =>
       \A t \in job.req : t \in TagsOf(disk.swap) => t \in TagsOf(disk.live)

(* A missing file is fetched again: once nothing fails any more, a source    *)
(* that offers it is enough (update.go:24 "keeps the four geo files fresh",  *)
(* NextDue and EnsureMMDB make a missing file due at once).                  *)
MissingIsRefetched == [](calm => <>(disk.live # Absent))
=============================================================================
