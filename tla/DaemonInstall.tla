---------------------------- MODULE DaemonInstall ----------------------------
(***************************************************************************)
(* Installing and removing the daemon (app/internal/installer): the root    *)
(* scripts the app generates and runs through the authorization prompt,     *)
(* any of which may be refused, fail at a command (set -e ends it there)    *)
(* or die half way, and be run again over what is left.                     *)
(*                                                                          *)
(* One action is one command, or a run of commands that nothing observes    *)
(* apart.  Files are names; pf.conf is the count of each line em-wall owns  *)
(* plus the user's own lines; the daemon is up or down and, while it is     *)
(* up, may point the enabled network services at itself (SystemDNS models   *)
(* how).  A geo file is its publication date, 0 for none.                   *)
(***************************************************************************)
EXTENDS Integers, FiniteSets

CONSTANTS
  Services,   \* network services
  BundleDate, \* bundleTime(): the date of the embedded geo files
  MaxScripts  \* bound: scripts run in one behaviour

VARIABLES
  files,      \* installed files
  pf,         \* /etc/pf.conf: [user, rdr, note, anchor, load]
  geo,        \* publication date of each installed geo file
  downloaded, \* geo.meta: the files it records as downloads after BundleDate
  up,         \* the launchd job runs
  resolver,   \* first DNS server of each service: "user" or "local"
  enabled,    \* services that are not disabled
  script,     \* the script running: "none", "install", "uninstall"
  step,       \* its next command
  keep,       \* keepDownloadedGeo, taken before the install script starts
  outcome,    \* of the last script: "none", "ok", "failed"
  ran,        \* scripts started
  found,      \* ghost: geo dates when the script started
  missed      \* ghost: services whose reset by the sweep failed, or that
              \* were disabled when it passed them

installVars == <<files, pf, geo, downloaded, up, resolver, enabled, script,
                 step, keep, outcome, ran, found, missed>>

Geo == {"geoip", "geosite"}
\* The files a complete install has; the CLI is optional.
Required == {"em-walld", "xray", "pf.anchor", "plist"}
NoGeo == [g \in Geo |-> 0]

InstallInit ==
  /\ files = {} /\ geo = NoGeo /\ downloaded = {}
  /\ pf \in [user : {TRUE}, rdr : {0, 1}, note : {0}, anchor : {0}, load : {0}]
  /\ up = FALSE
  /\ resolver = [s \in Services |-> "user"]
  /\ enabled = Services
  /\ script = "none" /\ step = "none" /\ keep = {} /\ outcome = "none"
  /\ ran = 0 /\ found = NoGeo /\ missed = {}

(***************************************************************************)
(* The scripts' surroundings.                                              *)
(***************************************************************************)
\* The running daemon, asked to, points every enabled service at itself.
DaemonActivates ==
  /\ up
  /\ resolver' = [s \in Services |-> IF s \in enabled THEN "local" ELSE resolver[s]]
  /\ UNCHANGED <<files, pf, geo, downloaded, up, enabled, script, step, keep,
                 outcome, ran, found, missed>>

\* The running daemon replaces a geo file by a later publication.
DaemonUpdatesGeo(g) ==
  /\ up /\ geo[g] \in 1 .. BundleDate
  /\ geo' = [geo EXCEPT ![g] = BundleDate + 1]
  /\ downloaded' = downloaded \cup {g}
  /\ UNCHANGED <<files, pf, up, resolver, enabled, script, step, keep, outcome,
                 ran, found, missed>>

UserTogglesService(s) ==
  /\ script = "none"
  /\ enabled' = IF s \in enabled THEN enabled \ {s} ELSE enabled \cup {s}
  /\ UNCHANGED <<files, pf, geo, downloaded, up, resolver, script, step, keep,
                 outcome, ran, found, missed>>

(***************************************************************************)
(* Starting a script.                                                      *)
(***************************************************************************)
\* keepDownloadedGeo: the files geo.meta records as downloads newer than
\* the bundle, if they are there at all.
keepDownloadedGeo == {g \in downloaded : geo[g] > 0}

StartScript(what, first) ==
  /\ script = "none" /\ ran < MaxScripts
  /\ ran' = ran + 1
  /\ script' = what /\ step' = first /\ outcome' = "none"
  /\ found' = geo /\ missed' = {}

\* Install: resources extracted, the script written, the prompt accepted.
Install ==
  /\ StartScript("install", "binaries")
  /\ keep' = keepDownloadedGeo
  /\ UNCHANGED <<files, pf, geo, downloaded, up, resolver, enabled>>

\* App.Uninstall: the daemon is asked to restore DNS first, best-effort.
Uninstall ==
  /\ StartScript("uninstall", "bootout")
  /\ \/ UNCHANGED resolver
     \/ up /\ resolver' = [s \in Services |-> "user"]
  /\ UNCHANGED <<files, pf, geo, downloaded, up, enabled, keep>>

\* The prompt is cancelled, a command fails, or the script dies.
ScriptAborts ==
  /\ script # "none"
  /\ script' = "none" /\ step' = "none" /\ outcome' = "failed"
  /\ UNCHANGED <<files, pf, geo, downloaded, up, resolver, enabled, keep, ran,
                 found, missed>>

At(what, here, next) == script = what /\ step = here /\ step' = next

Finish(what, here) ==
  /\ script = what /\ step = here
  /\ script' = "none" /\ step' = "none" /\ outcome' = "ok"

(***************************************************************************)
(* installScript.                                                          *)
(***************************************************************************)
InstallBinaries ==
  /\ At("install", "binaries", "geo")
  /\ \E cli \in {{}, {"em-wall"}} :
       files' = files \cup {"em-walld", "xray"} \cup cli
  /\ UNCHANGED <<pf, geo, downloaded, up, resolver, enabled, script, keep,
                 outcome, ran, found, missed>>

InstallGeo ==
  /\ At("install", "geo", "anchor")
  /\ geo' = [g \in Geo |-> IF g \in keep THEN geo[g] ELSE BundleDate]
  /\ UNCHANGED <<files, pf, downloaded, up, resolver, enabled, script, keep,
                 outcome, ran, found, missed>>

\* The pf anchor file is left alone when it exists.  Then pf.conf: a file
\* that names the anchor is left as it is.
InstallAnchor ==
  /\ script = "install" /\ step = "anchor"
  /\ files' = files \cup {"pf.anchor"}
  /\ step' = IF pf.anchor > 0 THEN "plist" ELSE "strip"
  /\ UNCHANGED <<pf, geo, downloaded, up, resolver, enabled, script, keep,
                 outcome, ran, found, missed>>

\* The sed of both scripts: every line em-wall ever wrote.
Stripped == [pf EXCEPT !.rdr = 0, !.note = 0, !.anchor = 0, !.load = 0]

InstallStripsPF ==
  /\ At("install", "strip", "append")
  /\ pf' = Stripped
  /\ UNCHANGED <<files, geo, downloaded, up, resolver, enabled, script, keep,
                 outcome, ran, found, missed>>

\* The appended lines, one echo after the other.
InstallAppendsAnchor ==
  /\ At("install", "append", "load")
  /\ pf' = [pf EXCEPT !.note = @ + 1, !.anchor = @ + 1]
  /\ UNCHANGED <<files, geo, downloaded, up, resolver, enabled, script, keep,
                 outcome, ran, found, missed>>

InstallAppendsLoad ==
  /\ At("install", "load", "plist")
  /\ pf' = [pf EXCEPT !.load = @ + 1]
  /\ UNCHANGED <<files, geo, downloaded, up, resolver, enabled, script, keep,
                 outcome, ran, found, missed>>

InstallPlist ==
  /\ At("install", "plist", "restart")
  /\ files' = files \cup {"plist"}
  /\ UNCHANGED <<pf, geo, downloaded, up, resolver, enabled, script, keep,
                 outcome, ran, found, missed>>

\* launchctl bootout, which may have nothing to stop.
InstallBootout ==
  /\ At("install", "restart", "bootstrap")
  /\ up' = FALSE
  /\ UNCHANGED <<files, pf, geo, downloaded, resolver, enabled, script, keep,
                 outcome, ran, found, missed>>

\* launchctl bootstrap, enable and kickstart.
InstallBootstrap ==
  /\ Finish("install", "bootstrap")
  /\ up' = TRUE
  /\ UNCHANGED <<files, pf, geo, downloaded, resolver, enabled, keep, ran,
                 found, missed>>

(***************************************************************************)
(* uninstallScript.                                                        *)
(***************************************************************************)
\* uninstallScript removing the job's files and leaving the job to run.
UninstallKeepsJob ==
  /\ At("uninstall", "bootout", "remove")
  /\ UNCHANGED <<files, pf, geo, downloaded, up, resolver, enabled, script,
                 keep, outcome, ran, found, missed>>

UninstallBootout ==
  /\ At("uninstall", "bootout", "remove")
  /\ up' = FALSE
  /\ UNCHANGED <<files, pf, geo, downloaded, resolver, enabled, script, keep,
                 outcome, ran, found, missed>>

UninstallRemoves ==
  /\ At("uninstall", "remove", "strip")
  /\ files' = {} /\ geo' = NoGeo /\ downloaded' = {}
  /\ UNCHANGED <<pf, up, resolver, enabled, script, keep, outcome, ran, found,
                 missed>>

\* A pf.conf that names neither anchor is left as it is.
UninstallStripsPF ==
  /\ At("uninstall", "strip", "sweep")
  /\ pf' = IF pf.anchor > 0 \/ pf.rdr > 0 THEN Stripped ELSE pf
  /\ UNCHANGED <<files, geo, downloaded, up, resolver, enabled, script, keep,
                 outcome, ran, found, missed>>

\* The safety sweep: every enabled service that still asks the daemon is
\* reset, one after the other; a reset that fails is passed over.
UninstallSweeps ==
  /\ At("uninstall", "sweep", "purge")
  /\ \E fails \in SUBSET {s \in enabled : resolver[s] = "local"} :
       /\ resolver' = [s \in Services |->
                         IF s \in enabled \ fails THEN "user" ELSE resolver[s]]
       /\ missed' = fails \cup (Services \ enabled)
  /\ UNCHANGED <<files, pf, geo, downloaded, up, enabled, script, keep, outcome,
                 ran, found>>

\* The caches are flushed and, when asked to, the database and log removed.
UninstallPurges ==
  /\ Finish("uninstall", "purge")
  /\ UNCHANGED <<files, pf, geo, downloaded, up, resolver, enabled, keep, ran,
                 found, missed>>

InstallNext ==
  \/ DaemonActivates
  \/ \E g \in Geo : DaemonUpdatesGeo(g)
  \/ \E s \in Services : UserTogglesService(s)
  \/ Install \/ Uninstall \/ ScriptAborts
  \/ InstallBinaries \/ InstallGeo \/ InstallAnchor
  \/ InstallStripsPF \/ InstallAppendsAnchor \/ InstallAppendsLoad
  \/ InstallPlist \/ InstallBootout \/ InstallBootstrap
  \/ UninstallBootout \/ UninstallRemoves \/ UninstallStripsPF
  \/ UninstallSweeps \/ UninstallPurges

InstallSpec == InstallInit /\ [][InstallNext]_installVars

(***************************************************************************)
(* What the app sees.                                                      *)
(***************************************************************************)
\* Status.FullyInstalled over Probe.
FullyInstalled == {"em-walld", "plist"} \subseteq files /\ up

\* ScriptsCanBeRerun: whatever scripts were refused, failed or died before,
\* an install that ends well has every file in place, the anchor named in
\* pf.conf exactly once beside the user's own lines, the daemon running,
\* and no geo file older than the one it found; an uninstall that ends
\* well has left no file, no line of its own naming an anchor and no
\* running daemon, and the only services still asking the daemon are those
\* whose reset failed or that were disabled.
ScriptsCanBeRerun ==
  [][ /\ script = "install" /\ outcome' = "ok" =>
           /\ FullyInstalled' /\ Required \subseteq files'
           /\ pf'.user /\ pf'.anchor = 1
           /\ \A g \in Geo : geo'[g] >= found[g] /\ geo'[g] >= BundleDate
      /\ script = "uninstall" /\ outcome' = "ok" =>
           /\ files' = {} /\ ~up'
           /\ pf'.user /\ pf'.anchor = 0 /\ pf'.rdr = 0
           /\ \A s \in Services : resolver'[s] = "local" => s \in missed'
    ]_installVars

\* ReinstallRepairsPF: after an install that ends well pf.conf also loads
\* the anchor it names ("Idempotent - safe to re-run", the comment on
\* installScript).
ReinstallRepairsPF ==
  script = "none" /\ outcome = "ok" /\ up => pf.anchor = pf.load
==============================================================================
