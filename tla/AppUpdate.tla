------------------------------ MODULE AppUpdate ------------------------------
(***************************************************************************)
(* The app updating itself: the resumable download of a release            *)
(* (app/update_download.go, app/app.go), the hand-off to the script that   *)
(* swaps the bundle (app/internal/installer/update.go), and the daemon's   *)
(* reminder while the app is closed (daemon/update_notify.go).             *)
(*                                                                         *)
(* An upload of a release is a number; a file is the sequence of uploads   *)
(* its blocks come from, so <<2, 2>> is upload 2 in full and <<1, 2>> has  *)
(* been spliced.  All uploads have the same length, the worst case for the *)
(* checks that only look at it.  Power can fail between any two steps.     *)
(* One swap script runs at a time.  Progress events are left out.          *)
(***************************************************************************)
EXTENDS Integers, Sequences

CONSTANTS
  ReleaseOf,       \* upload -> its release; upload 1 is the oldest
  Size,            \* blocks of an upload
  MaxAttempts,     \* updateMaxAttempts
  MaxFaults        \* bound on what goes wrong

Uploads  == DOMAIN ReleaseOf
Whole(u) == [i \in 1 .. Size |-> u]
WholeFiles == {Whole(u) : u \in Uploads}

VARIABLES
  host,      \* the release server: [strong, ranges, digests, sizes]; rigid
  served,    \* newest upload
  app,       \* what the app is doing
  target,    \* updTarget: [url, size, digest], 0 for unknown
  cache,     \* the update cache: [key, part, dmg, meta]
  body,      \* the response being read: [from, whole], whole for status 200
  attempt, corrupt,   \* fetchUpdate's counters
  script,    \* the swap script's next step, "none" without one
  bundle, aside,      \* the .app and the .app.old
  opened,    \* release for which the user answered "open"
  faults, good        \* faults so far; from now on nothing fails or changes

updVars == <<host, served, app, target, cache, body, attempt, corrupt, script,
             bundle, aside, opened, faults, good>>

NoFile   == << >>
NoMeta   == [url |-> 0, tag |-> 0]
NoBody   == [from |-> 0, whole |-> FALSE]
Fault    == ~ good /\ faults < MaxFaults /\ faults' = faults + 1
Fine     == UNCHANGED faults
DiskOnly == UNCHANGED <<host, served, target, script, bundle, aside, opened, good>>

(* What a request for a release's file gets: its newest upload.             *)
Current(url) == CHOOSE u \in Uploads : /\ ReleaseOf[u] = url /\ u <= served
                                       /\ \A v \in Uploads : ReleaseOf[v] = url /\ v <= served => v <= u
Running == bundle[1]
Newer(u, v) == ReleaseOf[u] > ReleaseOf[v]

-----------------------------------------------------------------------------
UpdInit ==
  /\ host \in [strong : BOOLEAN, ranges : BOOLEAN, digests : BOOLEAN, sizes : BOOLEAN]
  /\ served = 1 /\ app = "idle" /\ target = [url |-> 0, size |-> 0, digest |-> 0]
  /\ cache = [key |-> 0, part |-> NoFile, dmg |-> NoFile, meta |-> NoMeta]
  /\ body = NoBody /\ attempt = 0 /\ corrupt = 0 /\ script = "none"
  /\ bundle = Whole(1) /\ aside = NoFile /\ opened = 0 /\ faults = 0 /\ good = FALSE

(* CheckForUpdate, which also remembers what the release API says of the    *)
(* file; one made during a download counts for the next.                    *)
CheckForUpdate ==
  /\ app = "idle" /\ Newer(served, Running)
  /\ target' = [url |-> ReleaseOf[served], size |-> IF host.sizes THEN Size ELSE 0,
                digest |-> IF host.digests THEN served ELSE 0]
  /\ target' # target
  /\ UNCHANGED <<host, served, app, cache, body, attempt, corrupt, script, bundle, aside,
                 opened, faults, good>>

verifyUpdate(file) ==
  IF target.digest # 0 THEN file = Whole(target.digest)
  ELSE target.size > 0 => Len(file) = target.size

(* DownloadAndApplyUpdate up to fetchUpdate's loop: files of other releases *)
(* are pruned, a finished file that still verifies is used as it is.        *)
StartUpdate ==
  LET kept == IF cache.key = target.url THEN cache
              ELSE [key |-> target.url, part |-> NoFile, dmg |-> NoFile, meta |-> NoMeta]
      usable == kept.dmg # NoFile /\ kept.meta.url = target.url /\ verifyUpdate(kept.dmg)
  IN  /\ app = "idle" /\ target.url # 0 /\ script = "none"
      /\ cache' = IF usable THEN kept ELSE [kept EXCEPT !.dmg = NoFile]
      /\ app' = IF usable THEN "apply" ELSE "request"
      /\ attempt' = 1 /\ corrupt' = 0
      /\ UNCHANGED body /\ Fine /\ DiskOnly

(* ifRangeValidator: only a strong validator lets a download resume.        *)
ifRangeValidator(meta) == meta.url = target.url /\ meta.tag # 0

Offset ==
  LET n == IF ifRangeValidator(cache.meta) THEN Len(cache.part) ELSE 0
  IN  IF target.size > 0 /\ n > target.size THEN 0 ELSE n
Complete == target.size > 0 /\ Offset = target.size

(* What becomes of an attempt that failed: give up, or wait and try again.  *)
AfterFailure(permanent) ==
  app' = IF permanent \/ attempt >= MaxAttempts THEN "idle" ELSE "wait"

(* fetchOnce, up to saving the metadata of the response.                    *)
AlreadyComplete ==
  /\ app = "request" /\ Complete /\ app' = "verify"
  /\ UNCHANGED <<cache, body, attempt, corrupt>> /\ Fine /\ DiskOnly

Respond ==
  LET u == Current(target.url)
      range == Offset > 0 /\ host.ranges /\ cache.meta.tag = u
  IN  /\ app = "request" /\ ~ Complete /\ Fine
      /\ \/ /\ range /\ Offset = Size                                   \* 416
            /\ app' = "verify" /\ UNCHANGED <<cache, body>>
         \/ /\ ~ (range /\ Offset = Size)
            /\ body' = [from |-> u, whole |-> ~ range]
            /\ cache' = [cache EXCEPT !.meta = [url |-> target.url, tag |-> IF host.strong THEN u ELSE 0]]
            /\ app' = "open"
      /\ UNCHANGED <<attempt, corrupt>> /\ DiskOnly

(* The request fails, is answered with an error, or with a range that does  *)
(* not line up, which drops the partial file.                               *)
RequestFails ==
  /\ app = "request" /\ ~ Complete /\ Fault
  /\ \E permanent \in BOOLEAN, dropped \in BOOLEAN :
       /\ ~ (permanent /\ dropped) /\ (dropped => Offset > 0)
       /\ cache' = IF dropped THEN [cache EXCEPT !.part = NoFile] ELSE cache
       /\ AfterFailure(permanent)
  /\ UNCHANGED <<body, attempt, corrupt>> /\ DiskOnly

(* Opening the partial file: truncated for a whole body, else appended to.  *)
OpenPart ==
  /\ app = "open" /\ app' = "read"
  /\ cache' = IF body.whole THEN [cache EXCEPT !.part = NoFile] ELSE cache
  /\ UNCHANGED <<body, attempt, corrupt>> /\ Fine /\ DiskOnly

ReadBlock ==
  /\ app = "read" /\ Len(cache.part) < Size
  /\ cache' = [cache EXCEPT !.part = Append(@, body.from)]
  /\ UNCHANGED <<app, body, attempt, corrupt>> /\ Fine /\ DiskOnly

EndOfBody ==
  /\ app = "read" /\ Len(cache.part) = Size
  /\ app' = "verify" /\ body' = NoBody
  /\ UNCHANGED <<cache, attempt, corrupt>> /\ Fine /\ DiskOnly

(* The connection drops, or the watchdog ends a stall; the file stays.      *)
ReadFails ==
  /\ app = "read" /\ Len(cache.part) < Size /\ Fault
  /\ AfterFailure(FALSE) /\ body' = NoBody
  /\ UNCHANGED <<cache, attempt, corrupt>> /\ DiskOnly

(* A plausible slip: a partial file that fails verification is kept.        *)
VerifyKeepsPart ==
  /\ app = "verify" /\ Fine /\ body' = NoBody
  /\ \/ /\ verifyUpdate(cache.part)
        /\ cache' = [cache EXCEPT !.part = NoFile, !.dmg = cache.part]
        /\ app' = "apply" /\ UNCHANGED corrupt
     \/ /\ ~ verifyUpdate(cache.part) /\ UNCHANGED cache
        /\ corrupt' = corrupt + 1 /\ AfterFailure(corrupt + 1 >= 2)
  /\ UNCHANGED attempt /\ DiskOnly

(* fetchUpdate once fetchOnce has returned nil.                             *)
Verify ==
  /\ app = "verify" /\ Fine /\ body' = NoBody
  /\ \/ /\ verifyUpdate(cache.part)
        /\ cache' = [cache EXCEPT !.part = NoFile, !.dmg = cache.part]
        /\ app' = "apply" /\ UNCHANGED corrupt
     \/ /\ ~ verifyUpdate(cache.part)
        /\ cache' = [cache EXCEPT !.part = NoFile, !.meta = NoMeta]
        /\ corrupt' = corrupt + 1 /\ AfterFailure(corrupt + 1 >= 2)
  /\ UNCHANGED attempt /\ DiskOnly

Backoff ==
  /\ app = "wait" /\ app' = "request" /\ attempt' = attempt + 1
  /\ UNCHANGED <<cache, body, corrupt>> /\ Fine /\ DiskOnly

CancelUpdate ==
  /\ app \in {"request", "read", "wait"} /\ Fault
  /\ app' = "idle" /\ body' = NoBody
  /\ UNCHANGED <<cache, attempt, corrupt>> /\ DiskOnly

-----------------------------------------------------------------------------
(* A plausible slip: the image is not verified before it is applied.        *)
ImageIsPresent(file) == file # NoFile

(* hdiutil verify: the image's own checksums (external).                    *)
ImageIsSound(file) == file \in WholeFiles

ApplyAppUpdate ==
  /\ app = "apply"
  /\ \/ /\ ImageIsSound(cache.dmg) /\ Fine                      \* and the app quits
        /\ script' = "start" /\ app' = "off" /\ UNCHANGED cache
     \/ /\ IF ImageIsSound(cache.dmg) THEN Fault ELSE Fine      \* discardUpdate
        /\ cache' = [cache EXCEPT !.part = NoFile, !.dmg = NoFile, !.meta = NoMeta]
        /\ app' = "idle" /\ UNCHANGED script
  /\ UNCHANGED <<host, served, target, body, attempt, corrupt, bundle, aside, opened, good>>

(* swapScript, step by step.                                                *)
ScriptStep(from, to) ==
  /\ script = from /\ script' = to
  /\ UNCHANGED <<host, served, target, body, attempt, corrupt, opened, good>>

DropAside == ScriptStep("start", "move") /\ aside' = NoFile /\ Fine /\ UNCHANGED <<app, cache, bundle>>
MoveAside == ScriptStep("move", "copy") /\ aside' = bundle /\ bundle' = NoFile /\ Fine /\ UNCHANGED <<app, cache>>
MoveFails == ScriptStep("move", "none") /\ Fault /\ UNCHANGED <<app, cache, bundle, aside>>
CopyApp   == ScriptStep("copy", "tidy") /\ bundle' = cache.dmg /\ Fine /\ UNCHANGED <<app, cache, aside>>
CopyFails ==
  /\ ScriptStep("copy", "open") /\ Fault /\ bundle' = aside /\ aside' = NoFile
  /\ UNCHANGED <<app, cache>>
Tidy == ScriptStep("tidy", "forget") /\ aside' = NoFile /\ Fine /\ UNCHANGED <<app, cache, bundle>>
Forget ==
  /\ ScriptStep("forget", "open") /\ Fine
  /\ cache' = [cache EXCEPT !.dmg = NoFile, !.meta = NoMeta]
  /\ UNCHANGED <<app, bundle, aside>>

(* A new process knows no target.                                           *)
Launch ==
  /\ app = "off" /\ bundle \in WholeFiles /\ app' = "idle"
  /\ target' = [url |-> 0, size |-> 0, digest |-> 0]
  /\ UNCHANGED <<host, served, cache, body, attempt, corrupt, bundle, aside, faults, good>>

Reopen == script = "open" /\ script' = "none" /\ UNCHANGED opened /\ Launch
UserOpens == script = "none" /\ UNCHANGED <<script, opened>> /\ Launch

(* checkForUpdate of the daemon: asks while the app is closed, and not      *)
(* again about a release once the answer was to open it.  "Later" only      *)
(* snoozes, and changes nothing here.                                       *)
checkForUpdate ==
  /\ app = "off" /\ script = "none" /\ bundle \in WholeFiles
  /\ Newer(served, Running) /\ opened # ReleaseOf[served]
  /\ opened' = ReleaseOf[served] /\ UNCHANGED script /\ Launch

-----------------------------------------------------------------------------
Publish ==
  /\ ~ good /\ served + 1 \in Uploads /\ served' = served + 1
  /\ UNCHANGED <<host, app, target, cache, body, attempt, corrupt, script, bundle, aside,
                 opened, faults, good>>

(* Power fails: the app and the script are gone; a copy under way is left   *)
(* half done, and such a bundle does not start.                             *)
PowerFails ==
  /\ Fault /\ (app # "off" \/ script # "none")
  /\ app' = "off" /\ script' = "none" /\ body' = NoBody
  /\ bundle' \in IF script = "copy" THEN {NoFile, SubSeq(cache.dmg, 1, 1)} ELSE {bundle}
  /\ UNCHANGED <<host, served, target, cache, attempt, corrupt, aside, opened, good>>

Good ==
  /\ ~ good /\ good' = TRUE
  /\ UNCHANGED <<host, served, app, target, cache, body, attempt, corrupt, script, bundle,
                 aside, opened, faults>>

Downloading ==
  \/ AlreadyComplete \/ Respond \/ OpenPart \/ ReadBlock \/ EndOfBody \/ Verify \/ Backoff
Swapping == DropAside \/ MoveAside \/ CopyApp \/ Tidy \/ Forget \/ Reopen

UpdNext ==
  \/ CheckForUpdate \/ StartUpdate \/ Downloading \/ RequestFails \/ ReadFails \/ CancelUpdate
  \/ ApplyAppUpdate \/ Swapping \/ MoveFails \/ CopyFails \/ UserOpens \/ checkForUpdate
  \/ Publish \/ PowerFails \/ Good

(* The app checks for updates on a timer, also between failed downloads; a  *)
(* willing user opens it and starts the download again.                     *)
UpdFairness ==
  /\ WF_updVars(Downloading \/ ApplyAppUpdate \/ Swapping)
  /\ WF_updVars(UserOpens) /\ SF_updVars(CheckForUpdate) /\ WF_updVars(StartUpdate)

-----------------------------------------------------------------------------
(* Whatever was resumed, respliced by a change on the server or cut short   *)
(* by a power failure, a bundle that starts is one upload in full.  The     *)
(* digest catches a spliced file; without one only hdiutil's check does.    *)
BundleIsOneUpload ==
  Len(bundle) = Size => bundle \in WholeFiles

(* The swap is non-destructive: at every moment, also after a power         *)
(* failure, a whole app is in place or set aside.                           *)
AppSurvives == bundle \in WholeFiles \/ aside \in WholeFiles

(* No state of the cache blocks updating for good: once nothing fails and   *)
(* nothing new is published, a willing user ends up with the newest         *)
(* release, whatever is left in the cache, unless a power failure during    *)
(* the swap has left no app to open.                                        *)
UpdateArrives ==
  []<>(good /\ bundle \in WholeFiles => ReleaseOf[Running] = ReleaseOf[served])
=============================================================================
