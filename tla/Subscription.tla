---------------------------- MODULE Subscription ----------------------------
(***************************************************************************)
(* One xray subscription: its row, the pool of nodes its provider lists,   *)
(* the user's overrides (core/xray/subscription.go, strategy.go, fetch.go) *)
(* and the fetcher (daemon/subscriptions.go), with the handlers of         *)
(* daemon/handlers.go that touch them.                                     *)
(*                                                                         *)
(* Node.Active is derived: every writer follows its own statement with     *)
(* recomputeActive, three reads and one update per row that differs, none  *)
(* of them in a transaction with the others.  Each is a step here, and     *)
(* the scheduler, a refresh request and the user's handlers interleave.    *)
(* Telling xray about the new pool is module XraySupervisor; quota         *)
(* counters, latencies and the strategy column are left out.               *)
(***************************************************************************)
EXTENDS Integers, Sequences, FiniteSets, SequencesExt

CONSTANTS
  Nodes,          \* fingerprints of outbounds
  Served,         \* bodies the provider answers with, as lists of links
  Junk,           \* a line that is not a link
  Caps,           \* node caps the user sets
  MaxAsked,       \* bound on the user's requests
  ErrorRetry, RefreshInterval

Fetchers   == {"scheduler", "refresh"}
SubWorkers == Fetchers \cup {"editor"}
Rows       == [row : {"live"}, on : BOOLEAN, cap : Caps, failed : BOOLEAN,
               age : 0 .. RefreshInterval]
NotYet  == [row |-> "absent"]
Deleted == [row |-> "deleted"]

VARIABLES
  sub,        \* the subscription's row
  pool,       \* table xray_sub_nodes, in insertion order
  override,   \* fingerprint -> "none", "disabled" or "pinned"
  serving,    \* what the provider answers now
  work,       \* per worker: where it is
  asked,      \* number of requests the user made
  steady,     \* environment: from now on nothing fails and nobody edits
  clean,      \* history: recomputations that nothing has disturbed so far
  tainted     \* history: the last recomputation was disturbed or cut short

subVars == <<sub, pool, override, serving, work, asked, steady, clean, tainted>>

Live == sub.row = "live"
Rest == [at |-> "rest", got |-> << >>, on |-> FALSE, cap |-> 0,
         over |-> [n \in Nodes |-> "none"], todo |-> << >>]
WorkAt(w, at) == work[w].at = at
Go(w, at) == work' = [work EXCEPT ![w].at = at]

-----------------------------------------------------------------------------
(* ParseSubscriptionBody: bad lines are skipped, links to one outbound      *)
(* collapse to the first.                                                   *)
ParseSubscriptionBody(body) ==
  LET links == SelectSeq(body, LAMBDA l : l # Junk)
      first(i) == \A j \in 1 .. i - 1 : links[j] # links[i]
      kept == SetToSortSeq({i \in DOMAIN links : first(i)}, <)
  IN  [k \in DOMAIN kept |-> links[kept[k]]]

(* A plausible slip: pinned nodes count against the cap.                 *)
ActivationPinsCount(rows, over, on, cap) ==
  LET free(i) == on /\ over[rows[i].fp] # "disabled"
      ahead[i \in 0 .. Len(rows)] ==
        IF i = 0 THEN 0 ELSE ahead[i - 1] + IF free(i) /\ ahead[i - 1] < cap THEN 1 ELSE 0
  IN  [i \in DOMAIN rows |->
         \/ on /\ over[rows[i].fp] = "pinned"
         \/ free(i) /\ ahead[i - 1] < cap]

(* recomputeActive's loop: a pin is loaded outside the cap, the others in   *)
(* order until the cap is reached.                                          *)
Activation(rows, over, on, cap) ==
  LET free(i) == on /\ over[rows[i].fp] = "none"
      ahead[i \in 0 .. Len(rows)] ==
        IF i = 0 THEN 0 ELSE ahead[i - 1] + IF free(i) /\ ahead[i - 1] < cap THEN 1 ELSE 0
  IN  [i \in DOMAIN rows |->
         \/ on /\ over[rows[i].fp] = "pinned"
         \/ free(i) /\ ahead[i - 1] < cap]

subDue ==
  Live /\ sub.on /\ sub.age >= IF sub.failed THEN ErrorRetry ELSE RefreshInterval

-----------------------------------------------------------------------------
SubInit ==
  /\ sub \in {NotYet} \cup {[row |-> "live", on |-> on, cap |-> cap, failed |-> FALSE,
                             age |-> RefreshInterval] : on \in BOOLEAN, cap \in Caps}
  /\ pool = << >> /\ override = [n \in Nodes |-> "none"]
  /\ serving \in Served
  /\ work = [w \in SubWorkers |-> Rest] /\ asked = 0
  /\ steady = FALSE /\ clean = {} /\ tainted = FALSE

(* A statement of w that others' recomputations may already have missed.    *)
Disturbs(w) == clean' = clean \cap {w} /\ UNCHANGED tainted

(* Refresh, from the scheduler when due, from a request at any time.        *)
RefreshStarts(w) ==
  /\ WorkAt(w, "rest") /\ Live
  /\ IF w = "scheduler" THEN subDue /\ UNCHANGED asked
     ELSE ~ steady /\ asked < MaxAsked /\ asked' = asked + 1
  /\ Go(w, "fetch")
  /\ UNCHANGED <<sub, pool, override, serving, steady, clean, tainted>>

(* SetSubFetchResult; it finds no row once the subscription is deleted.     *)
SetSubFetchResult(failed) ==
  sub' = IF Live THEN [sub EXCEPT !.failed = failed, !.age = 0] ELSE sub

Body(w) == ParseSubscriptionBody(work[w].got)

fetchBody(w) ==
  /\ WorkAt(w, "fetch")
  /\ \/ work' = [work EXCEPT ![w].at = "replace", ![w].got = serving] /\ UNCHANGED sub
     \/ ~ steady /\ SetSubFetchResult(TRUE) /\ work' = [work EXCEPT ![w] = Rest]
  /\ UNCHANGED <<pool, override, serving, asked, steady, clean, tainted>>

(* Rows get new IDs, so updates others planned for the old ones find        *)
(* nothing.                                                                 *)
Replaced(w) ==
  [v \in SubWorkers |-> IF v = w THEN [work[w] EXCEPT !.at = "sub", !.got = << >>]
                        ELSE [work[v] EXCEPT !.todo = << >>]]

(* A plausible slip: a refresh does not recompute the flags of the new rows. *)
ReplaceNodesOnly(w) ==
  /\ WorkAt(w, "replace") /\ Body(w) # << >>
  /\ pool' = [i \in DOMAIN Body(w) |-> [fp |-> Body(w)[i], active |-> FALSE]]
  /\ work' = [Replaced(w) EXCEPT ![w].at = "report"] /\ Disturbs(w)
  /\ UNCHANGED <<sub, override, serving, asked, steady>>

ReplaceNodes(w) ==
  /\ WorkAt(w, "replace") /\ Body(w) # << >>
  /\ pool' = [i \in DOMAIN Body(w) |-> [fp |-> Body(w)[i], active |-> FALSE]]
  /\ work' = Replaced(w) /\ Disturbs(w)
  /\ UNCHANGED <<sub, override, serving, asked, steady>>

RefreshRejected(w) ==
  /\ WorkAt(w, "replace") /\ (Body(w) = << >> \/ ~ steady)
  /\ SetSubFetchResult(TRUE)
  /\ work' = [work EXCEPT ![w] = Rest]
  /\ UNCHANGED <<pool, override, serving, asked, steady, clean, tainted>>

-----------------------------------------------------------------------------
(* recomputeActive.                                                         *)
Recomputed(w, ok) ==
  /\ clean' = clean \ {w} /\ tainted' = ~ (ok /\ w \in clean)
  /\ IF w \in Fetchers THEN work' = [work EXCEPT ![w] = [Rest EXCEPT !.at = IF ok THEN "report" ELSE "complain"]]
     ELSE work' = [work EXCEPT ![w] = Rest]

ReadSub(w) ==
  /\ WorkAt(w, "sub")
  /\ \/ /\ Live /\ clean' = clean \cup {w} /\ UNCHANGED tainted
        /\ work' = [work EXCEPT ![w].at = "over", ![w].on = sub.on, ![w].cap = sub.cap]
     \/ (~ Live \/ ~ steady) /\ Recomputed(w, FALSE)
  /\ UNCHANGED <<sub, pool, override, serving, asked, steady>>

ReadOverrides(w) ==
  /\ WorkAt(w, "over")
  /\ work' = [work EXCEPT ![w].at = "nodes", ![w].over = override]
  /\ UNCHANGED <<sub, pool, override, serving, asked, steady, clean, tainted>>

ReadNodes(w) ==
  LET want == Activation(pool, work[w].over, work[w].on, work[w].cap)
      differ == SetToSortSeq({i \in DOMAIN pool : pool[i].active # want[i]}, <)
  IN  /\ WorkAt(w, "nodes")
      /\ work' = [work EXCEPT ![w] = [Rest EXCEPT !.at = "flags",
            !.todo = [k \in DOMAIN differ |-> [row |-> differ[k], active |-> want[differ[k]]]]]]
      /\ UNCHANGED <<sub, pool, override, serving, asked, steady, clean, tainted>>

WriteFlag(w) ==
  /\ WorkAt(w, "flags") /\ work[w].todo # << >>
  /\ \/ /\ pool' = [pool EXCEPT ![Head(work[w].todo).row].active = Head(work[w].todo).active]
        /\ work' = [work EXCEPT ![w].todo = Tail(@)] /\ Disturbs(w)
     \/ ~ steady /\ Recomputed(w, FALSE) /\ UNCHANGED pool
  /\ UNCHANGED <<sub, override, serving, asked, steady>>

FlagsDone(w) ==
  /\ WorkAt(w, "flags") /\ work[w].todo = << >> /\ Recomputed(w, TRUE)
  /\ UNCHANGED <<sub, pool, override, serving, asked, steady>>

ReportFetch(w) ==
  /\ WorkAt(w, "report") \/ WorkAt(w, "complain")
  /\ SetSubFetchResult(WorkAt(w, "complain"))
  /\ work' = [work EXCEPT ![w] = Rest]
  /\ UNCHANGED <<pool, override, serving, asked, steady, clean, tainted>>

-----------------------------------------------------------------------------
(* The user's handlers: one statement or transaction, then the recount.     *)
Edits == /\ WorkAt("editor", "rest") /\ ~ steady /\ asked < MaxAsked /\ asked' = asked + 1
         /\ UNCHANGED <<serving, steady>>

(* AddSub, and the background fetch it starts.                              *)
AddSub ==
  /\ Edits /\ sub = NotYet /\ WorkAt("refresh", "rest")
  /\ \E on \in BOOLEAN, cap \in Caps :
       sub' = [row |-> "live", on |-> on, cap |-> cap, failed |-> FALSE, age |-> RefreshInterval]
  /\ work' = [work EXCEPT !["refresh"].at = "fetch"]
  /\ UNCHANGED <<pool, override, clean, tainted>>

(* UpdateSub and SetSubEnabled.                                             *)
UpdateSub ==
  /\ Edits /\ Live
  /\ \E on \in BOOLEAN, cap \in Caps : sub' = [sub EXCEPT !.on = on, !.cap = cap]
  /\ Go("editor", "sub") /\ Disturbs("editor")
  /\ UNCHANGED <<pool, override>>

DeleteSub ==
  /\ Edits /\ Live
  /\ sub' = Deleted /\ pool' = << >> /\ override' = [n \in Nodes |-> "none"]
  /\ work' = [v \in SubWorkers |-> [work[v] EXCEPT !.todo = << >>]]
  /\ Disturbs("editor")

(* SetNodeDisabled, SetNodePinned and ClearPins, as what each makes of an   *)
(* override.                                                                *)
Disable(o) == "disabled"
Enable(o)  == IF o = "disabled" THEN "none" ELSE o
Pin(o)     == "pinned"
Unpin(o)   == IF o = "pinned" THEN "none" ELSE o

Overrule ==
  /\ Edits /\ sub # NotYet
  /\ \/ \E n \in Nodes :
          \E o \in {Disable(override[n]), Enable(override[n]), Pin(override[n]), Unpin(override[n])} :
             override' = [override EXCEPT ![n] = o]
     \/ override' = [n \in Nodes |-> Unpin(override[n])]
  /\ Go("editor", "sub") /\ Disturbs("editor")
  /\ UNCHANGED <<sub, pool>>

-----------------------------------------------------------------------------
ProviderChanges ==
  /\ ~ steady /\ \E body \in Served \ {serving} : serving' = body
  /\ UNCHANGED <<sub, pool, override, work, asked, steady, clean, tainted>>

SubTick ==
  /\ Live /\ sub.age < RefreshInterval /\ sub' = [sub EXCEPT !.age = @ + 1]
  /\ UNCHANGED <<pool, override, serving, work, asked, steady, clean, tainted>>

(* The daemon stops and starts again; the tables persist.                   *)
SubCrash ==
  /\ ~ steady /\ \E w \in SubWorkers : ~ WorkAt(w, "rest")
  /\ work' = [w \in SubWorkers |-> Rest] /\ clean' = {} /\ tainted' = TRUE
  /\ UNCHANGED <<sub, pool, override, serving, asked, steady>>

Steady ==
  /\ ~ steady /\ steady' = TRUE
  /\ UNCHANGED <<sub, pool, override, serving, work, asked, clean, tainted>>

SubStep(w) ==
  \/ fetchBody(w) \/ ReplaceNodes(w) \/ RefreshRejected(w)
  \/ ReadSub(w) \/ ReadOverrides(w) \/ ReadNodes(w) \/ WriteFlag(w) \/ FlagsDone(w)
  \/ ReportFetch(w)

SubNext ==
  \/ \E w \in Fetchers : RefreshStarts(w)
  \/ \E w \in SubWorkers : SubStep(w)
  \/ AddSub \/ UpdateSub \/ DeleteSub \/ Overrule
  \/ ProviderChanges \/ SubTick \/ SubCrash \/ Steady

(* Statements answer and requests time out, so every worker comes back to   *)
(* rest; the clock runs, and the scheduler attends to what is due.          *)
SubFairness ==
  /\ \A w \in SubWorkers : []<>WorkAt(w, "rest")
  /\ []<>(Live /\ sub.on => subDue) /\ []<>~ subDue

-----------------------------------------------------------------------------
(* Which nodes should be active: all pins, and of the nodes without an      *)
(* override the first ones, as many as the cap allows; none at all when     *)
(* the subscription is off.                                                 *)
ShouldBeActive(i) ==
  /\ Live /\ sub.on
  /\ \/ override[pool[i].fp] = "pinned"
     \/ /\ override[pool[i].fp] = "none"
        /\ Cardinality({j \in 1 .. i - 1 : override[pool[j].fp] = "none"}) < sub.cap
FlagsRight == \A i \in DOMAIN pool : pool[i].active <=> ShouldBeActive(i)

(* When all work has come to rest and the last recomputation ran through    *)
(* undisturbed, the active flags are those the row, the overrides and the   *)
(* pool call for, whatever happened before.                                 *)
ActiveIsDerived ==
  Live /\ ~ tainted /\ (\A w \in SubWorkers : WorkAt(w, "rest")) => FlagsRight

(* A disturbed recomputation does not last: while the subscription is on    *)
(* and its provider lists nodes, the flags come right again without the     *)
(* user, because every refresh ends in a recomputation.                     *)
FlagsRecover ==
  []<>(steady /\ Live /\ sub.on /\ ParseSubscriptionBody(serving) # << >> => FlagsRight /\ pool # << >>)

(* "DeleteSub removes a subscription and all of its nodes and overrides":   *)
(* afterwards none of its nodes is left.                                    *)
NothingOrphaned == sub = Deleted => pool = << >>
=============================================================================
