----------------------------- MODULE RuleGroups -----------------------------
(***************************************************************************)
(* Pattern groups and the rules made from them.  A group is a list of      *)
(* patterns; applying it inserts one rule per pattern, and from then on    *)
(* the rules live on their own.  Three things bring the two back           *)
(* together: the vendor feed of a dynamic group (daemon/dynamic_groups.go),*)
(* groups.sync for a group whose list has grown (daemon/groups_sync.go),   *)
(* and the bulk handlers of daemon/handlers.go.                            *)
(*                                                                         *)
(* One group is followed: a dynamic one, whose patterns are the cached     *)
(* feed or the seed, or a user's own (core/rules/customgroups.go).  A      *)
(* worker is the refresh scheduler, a "refresh now" request or a handler   *)
(* of the user; its SQL statements interleave with the others'.  What the  *)
(* engine and the kernel routes make of a changed rule table is module     *)
(* RuleEdits.                                                              *)
(***************************************************************************)
EXTENDS Integers, Sequences, FiniteSets, SequencesExt

CONSTANTS
  PatternOrder,   \* the patterns, in the order Store.List returns rules
  Ranges,         \* the address ranges among them (rules.IsIPRule)
  Seed,           \* Group.Patterns: what the group covers before a fetch
  Feeds,          \* the lists the vendor publishes
  Excluded,       \* prefixes of the exclusion feed and of Exclude
  Targets,        \* action and interface of a rule
  MaxRequests,    \* bound on the user's requests
  RetryAfter, Interval

Patterns   == Range(PatternOrder)
Refreshers == {"scheduler", "manual"}
Workers    == Refreshers \cup {"user"}
Shape      == [target : Targets, on : BOOLEAN]

VARIABLES
  groupKind,  \* "dynamic" or "custom"; never changes
  members,    \* the custom group's patterns ({} when there is no such group)
  stored,     \* table rules: pattern -> shape
  cached,     \* settings row of the dynamic group
  feed,       \* what the vendor publishes now
  job,        \* per worker: what it is doing
  requests,   \* number of requests the user made
  smooth,     \* environment: from now on nothing fails and nobody edits
  mixed       \* history: workers that met a failure since they listed the
              \* rules, or saw others change them

groupVars == <<groupKind, members, stored, cached, feed, job, requests, smooth, mixed>>

Cache == [pats : SUBSET Patterns, failed : BOOLEAN, age : 0 .. Interval + 1]
NeverFetched == [pats |-> {}, failed |-> FALSE, age |-> Interval + 1]

(* A job: the patterns it read before (old) and those it works towards     *)
(* (new), the shape it was asked for, and its SQL statements still to run. *)
Idle == [at |-> "idle", do |-> "none", old |-> {}, new |-> {}, todo |-> << >>]
JobAt(w, at) == job[w].at = at
Writers == {w \in Workers : job[w].at \in {"write", "done"}}

-----------------------------------------------------------------------------
(* A plausible slip: a wildcard does not cover its own bare name.        *)
ruleStrictlyCovered(rp, gp) ==
  rp = gp \/ (gp.wild /\ IsStrictPrefix(gp.labels, rp.labels))

(* Coverage.  A pattern is a wildcard flag and the labels of a name, top    *)
(* label first; an address range is one label.                              *)
ruleCoveredByGroupPattern(rp, gp) ==
  rp = gp \/ (gp.wild /\ IsPrefix(gp.labels, rp.labels))

ruleBelongsToGroup(p, pats) == \E gp \in pats : ruleCoveredByGroupPattern(p, gp)
groupPatternApplied(gp, have) == \E p \in have : ruleCoveredByGroupPattern(gp, p)
Belonging(have, pats) == {p \in have : ruleBelongsToGroup(p, pats)}
missingGroupPatterns(pats, have) ==
  IF Belonging(have, pats) = {} THEN {}
  ELSE {p \in pats : ~ groupPatternApplied(p, have)}

Ordered(S) == SelectSeq(PatternOrder, LAMBDA p : p \in S)

(* The most common shape among the group's rules; of equals, the one met    *)
(* first in the list.                                                       *)
groupRuleShape(pats, rows) ==
  LET mine  == Belonging(DOMAIN rows, pats)
      votes(s) == Cardinality({p \in mine : rows[p] = s})
      seen == [i \in 1 .. Cardinality(mine) |-> rows[Ordered(mine)[i]]]
      best == CHOOSE i \in DOMAIN seen :
                /\ \A j \in DOMAIN seen : votes(seen[j]) <= votes(seen[i])
                /\ \A j \in 1 .. i - 1 : votes(seen[j]) < votes(seen[i])
  IN  seen[best]

effectiveGroupPatterns == IF cached.pats # {} THEN cached.pats ELSE Seed
resolveGroupPatterns == IF groupKind = "dynamic" THEN effectiveGroupPatterns ELSE members

(* DynamicSource.Parse: an empty outcome is an error.                       *)
Parse(list) == list \ Excluded
Usable(list) == Parse(list) # {}

(* A feed lists address ranges, and rules of other kinds play no part in it; *)
(* the custom groups followed here hold names.                              *)
Universe == IF groupKind = "dynamic" THEN Ranges ELSE Patterns \ Ranges

-----------------------------------------------------------------------------
GroupInit ==
  /\ groupKind \in {"dynamic", "custom"}
  /\ members \in IF groupKind = "custom" THEN SUBSET Universe ELSE {{}}
  /\ stored \in UNION {[S -> Shape] : S \in SUBSET Universe}
  /\ cached = NeverFetched
  /\ feed \in IF groupKind = "dynamic" THEN Feeds ELSE {{}}
  /\ job = [w \in Workers |-> Idle] /\ requests = 0
  /\ smooth = FALSE /\ mixed = {}

Become(w, j) == job' = [job EXCEPT ![w] = j]
Finished(w) == Become(w, [job[w] EXCEPT !.at = "done", !.todo = << >>])

(* saveDynamicGroupCache; a write that fails is logged and forgotten.       *)
saveDynamicGroupCache(pats, failed) ==
  \/ cached' = [pats |-> pats, failed |-> failed, age |-> 0]
  \/ ~ smooth /\ cached' = cached

Due == \/ cached.pats = {}
       \/ cached.age >= IF cached.failed THEN RetryAfter ELSE Interval

Asked == ~ smooth /\ requests < MaxRequests /\ requests' = requests + 1

(* refreshDynamicGroup reads the row it may have to write back.             *)
Refresh(w) ==
  /\ groupKind = "dynamic" /\ JobAt(w, "idle")
  /\ IF w = "scheduler" THEN Due /\ UNCHANGED requests ELSE Asked
  /\ Become(w, [Idle EXCEPT !.at = "fetch", !.do = "refresh", !.old = cached.pats])
  /\ UNCHANGED <<groupKind, members, stored, cached, feed, smooth, mixed>>

(* A fetch that failed, directly and through every fallback, of either feed,*)
(* or a feed that yields nothing: the patterns read at the start stay.      *)
RefreshFails(w) ==
  /\ JobAt(w, "fetch") \/ JobAt(w, "exclude")
  /\ \/ ~ smooth
     \/ JobAt(w, "exclude") /\ ~ Usable(job[w].new)
  /\ saveDynamicGroupCache(job[w].old, TRUE)
  /\ Become(w, Idle) /\ mixed' = mixed \ {w}
  /\ UNCHANGED <<groupKind, members, stored, feed, requests, smooth>>

fetchFeed(w) ==
  /\ JobAt(w, "fetch")
  /\ Become(w, [job[w] EXCEPT !.at = "exclude", !.new = feed])
  /\ UNCHANGED <<groupKind, members, stored, cached, feed, requests, smooth, mixed>>

(* A plausible slip: a list that has not changed is not reconciled.          *)
RefreshSavesChanges(w) ==
  /\ JobAt(w, "exclude") /\ Usable(job[w].new)
  /\ saveDynamicGroupCache(Parse(job[w].new), FALSE)
  /\ Become(w, IF Parse(job[w].new) = job[w].old THEN Idle
               ELSE [job[w] EXCEPT !.at = "list", !.new = Parse(@),
                                   !.old = IF @ = {} THEN Seed ELSE @])
  /\ mixed' = mixed \ {w}
  /\ UNCHANGED <<groupKind, members, stored, feed, requests, smooth>>

(* The exclusion feed arrives: parse, cache, and reconcile from what the    *)
(* group covered before this fetch.                                         *)
RefreshSaves(w) ==
  /\ JobAt(w, "exclude") /\ Usable(job[w].new)
  /\ saveDynamicGroupCache(Parse(job[w].new), FALSE)
  /\ Become(w, [job[w] EXCEPT !.at = "list", !.new = Parse(@),
                              !.old = IF @ = {} THEN Seed ELSE @])
  /\ mixed' = mixed \ {w}
  /\ UNCHANGED <<groupKind, members, stored, feed, requests, smooth>>

-----------------------------------------------------------------------------
(* SQL statements.                                                          *)
Adds(S, shape) == [i \in 1 .. Cardinality(S) |-> [op |-> "add", pat |-> Ordered(S)[i], row |-> shape]]
Dels(S) == [i \in 1 .. Cardinality(S) |-> [op |-> "del", pat |-> Ordered(S)[i]]]
Puts(S, on) == [i \in 1 .. Cardinality(S) |->
  [op |-> "put", pat |-> Ordered(S)[i], row |-> [stored[Ordered(S)[i]] EXCEPT !.on = on]]]

(* reconcileDynamicGroupRules: the first member is the template; the rules  *)
(* of dropped prefixes go after the new ones are in.                        *)
reconcileDynamicGroupRules(w) ==
  LET mine == DOMAIN stored \cap (job[w].old \cup job[w].new)
  IN  IF mine = {} THEN << >>
      ELSE Adds(job[w].new \ mine, stored[Head(Ordered(mine))]) \o Dels(mine \ job[w].new)

(* syncGroup: the missing patterns, in the shape of the group's rules.      *)
syncGroup(w, target) ==
  LET missing == missingGroupPatterns(job[w].new, DOMAIN stored)
      shape   == groupRuleShape(job[w].new, stored)
  IN  IF missing = {} THEN << >>
      ELSE Adds(missing, IF target = "same" THEN shape ELSE [shape EXCEPT !.target = target])

(* The statements a worker will run, from the rules it lists.               *)
Plans(w) ==
  CASE job[w].do = "refresh" -> {reconcileDynamicGroupRules(w)}
    [] job[w].do = "apply"   -> {Adds(job[w].new, s) : s \in Shape}
    [] job[w].do = "sync"    -> {syncGroup(w, t) : t \in Targets \cup {"same"}}
    [] job[w].do = "delete"  -> {Dels(Belonging(DOMAIN stored, job[w].new))}
    [] job[w].do = "enable"  ->
         {Puts({p \in Belonging(DOMAIN stored, job[w].new) : stored[p].on # on}, on) : on \in BOOLEAN}

ListRules(w) ==
  /\ JobAt(w, "list")
  /\ \/ \E plan \in Plans(w) :
          Become(w, [job[w] EXCEPT !.at = "write", !.todo = plan]) /\ mixed' = mixed \ {w}
     \/ ~ smooth /\ Become(w, Idle) /\ mixed' = mixed \ {w}
  /\ UNCHANGED <<groupKind, members, stored, cached, feed, requests, smooth>>

Statement(w) == Head(job[w].todo)
Possible(s) == s.op = "add" <=> s.pat \notin DOMAIN stored
With(s) == [p \in DOMAIN stored \cup {s.pat} |-> IF p = s.pat THEN s.row ELSE stored[p]]
Without(s) == [p \in DOMAIN stored \ {s.pat} |-> stored[p]]

(* A deleted row's ID is never given again, so statements of others that    *)
(* name it find nothing from then on.                                       *)
Forget(jobs, w, s) ==
  [v \in Workers |->
     IF v = w \/ s.op # "del" THEN jobs[v]
     ELSE [jobs[v] EXCEPT !.todo = SelectSeq(@, LAMBDA c : c.op = "add" \/ c.pat # s.pat)]]

Write(w) ==
  /\ JobAt(w, "write") /\ job[w].todo # << >> /\ Possible(Statement(w))
  /\ stored' = IF Statement(w).op = "del" THEN Without(Statement(w)) ELSE With(Statement(w))
  /\ job' = [Forget(job, w, Statement(w)) EXCEPT ![w].todo = Tail(@)]
  /\ mixed' = mixed \cup (Writers \ {w})
  /\ UNCHANGED <<groupKind, members, cached, feed, requests, smooth>>

(* A duplicate pattern is skipped, and so is any other failure, except that *)
(* groups.apply and groups.sync give up where an insert fails.              *)
WriteFails(w) ==
  /\ JobAt(w, "write") /\ job[w].todo # << >>
  /\ \/ /\ ~ Possible(Statement(w)) /\ UNCHANGED mixed
        /\ Become(w, [job[w] EXCEPT !.todo = Tail(@)])
     \/ /\ ~ smooth /\ mixed' = mixed \cup {w}
        /\ IF job[w].do \in {"apply", "sync"} THEN Finished(w)
           ELSE Become(w, [job[w] EXCEPT !.todo = Tail(@)])
  /\ UNCHANGED <<groupKind, members, stored, cached, feed, requests, smooth>>

WriteEnds(w) ==
  /\ JobAt(w, "write") /\ job[w].todo = << >> /\ Finished(w)
  /\ UNCHANGED <<groupKind, members, stored, cached, feed, requests, smooth, mixed>>

Return(w) ==
  /\ JobAt(w, "done") /\ Become(w, Idle) /\ mixed' = mixed \ {w}
  /\ UNCHANGED <<groupKind, members, stored, cached, feed, requests, smooth>>

-----------------------------------------------------------------------------
(* The user: a bulk request on the group; single rules and the custom       *)
(* group's own definition change in one statement.                          *)
GroupRequest ==
  /\ Asked /\ JobAt("user", "idle")
  /\ \E do \in {"apply", "sync", "delete", "enable"} :
       Become("user", [Idle EXCEPT !.at = "list", !.do = do, !.new = resolveGroupPatterns])
  /\ UNCHANGED <<groupKind, members, stored, cached, feed, smooth, mixed>>

DeleteOneRule ==
  /\ Asked /\ JobAt("user", "idle")
  /\ \E p \in DOMAIN stored :
       stored' = Without([pat |-> p]) /\ job' = Forget(job, "user", [op |-> "del", pat |-> p])
  /\ mixed' = mixed \cup Writers
  /\ UNCHANGED <<groupKind, members, cached, feed, smooth>>

(* AddCustomGroup, UpdateCustomGroup, DeleteCustomGroup: one row, keyed.     *)
EditCustomGroup ==
  /\ Asked /\ JobAt("user", "idle") /\ groupKind = "custom"
  /\ \E pats \in SUBSET Universe : members' = pats
  /\ UNCHANGED <<groupKind, stored, cached, feed, job, smooth, mixed>>

-----------------------------------------------------------------------------
(* Surroundings.                                                            *)
VendorPublishes ==
  /\ groupKind = "dynamic" /\ ~ smooth
  /\ \E list \in Feeds \ {feed} : feed' = list
  /\ UNCHANGED <<groupKind, members, stored, cached, job, requests, smooth, mixed>>

GroupTick ==
  /\ groupKind = "dynamic" /\ cached.pats # {} /\ cached.age < Interval
  /\ cached' = [cached EXCEPT !.age = @ + 1]
  /\ UNCHANGED <<groupKind, members, stored, feed, job, requests, smooth, mixed>>

(* The daemon stops at any point and starts again; both tables persist.     *)
GroupCrash ==
  /\ ~ smooth /\ job # [w \in Workers |-> Idle]
  /\ job' = [w \in Workers |-> Idle] /\ mixed' = {}
  /\ UNCHANGED <<groupKind, members, stored, cached, feed, requests, smooth>>

Smooth ==
  /\ groupKind = "dynamic" /\ ~ smooth /\ smooth' = TRUE
  /\ UNCHANGED <<groupKind, members, stored, cached, feed, job, requests, mixed>>

WorkerStep(w) ==
  \/ Refresh(w) \/ RefreshFails(w) \/ fetchFeed(w) \/ RefreshSaves(w)
  \/ ListRules(w) \/ Write(w) \/ WriteFails(w) \/ WriteEnds(w) \/ Return(w)

GroupNext ==
  \/ \E w \in Refreshers : WorkerStep(w)
  \/ ListRules("user") \/ Write("user") \/ WriteFails("user") \/ WriteEnds("user") \/ Return("user")
  \/ GroupRequest \/ DeleteOneRule \/ EditCustomGroup
  \/ VendorPublishes \/ GroupTick \/ GroupCrash \/ Smooth

(* The scheduler's ticker fires, its requests time out, SQL answers.        *)
GroupFairness ==
  /\ \A w \in Refreshers : WF_groupVars(WorkerStep(w))
  /\ WF_groupVars(GroupTick)
  /\ WF_groupVars(ListRules("user") \/ Write("user") \/ WriteFails("user") \/ WriteEnds("user") \/ Return("user"))

-----------------------------------------------------------------------------
(* The names a pattern matches (rules.Match): its own, and with a wildcard  *)
(* every name below it.                                                     *)
Labels == UNION {Range(p.labels) : p \in Patterns}
NamesOf(p) ==
  {n \in UNION {[1 .. k -> Labels] : k \in 1 .. 3} :
     n = p.labels \/ (p.wild /\ IsPrefix(p.labels, n))}

(* ruleCoveredByGroupPattern compares spellings; it decides exactly whether *)
(* every name the rule can match is one the group pattern matches, which is *)
(* what groups.sync and the bulk handlers take it for.                      *)
CoverageIsInclusion ==
  \A rp, gp \in Patterns :
    ruleCoveredByGroupPattern(rp, gp) <=> NamesOf(rp) \subseteq NamesOf(gp)

(* What a worker that met no failure and was not disturbed leaves behind.   *)
(* A refresh of an applied group leaves a rule for each prefix the vendor   *)
(* lists and for none it dropped; of one that is not applied, no rule at    *)
(* all.  A sync leaves no name of an applied group uncovered.  groups.apply *)
(* leaves a rule per pattern, groups.deleteRules none that belongs.         *)
JobsKeepTheirWord ==
  \A w \in Workers : JobAt(w, "done") /\ w \notin mixed =>
    LET have == DOMAIN stored
    IN  CASE job[w].do = "refresh" ->
               have \cap (job[w].old \cup job[w].new) \in {{}, job[w].new}
          [] job[w].do = "sync" ->
               Belonging(have, job[w].new) # {} =>
                 \A p \in job[w].new : \E q \in have : NamesOf(p) \subseteq NamesOf(q)
          [] job[w].do = "apply" -> job[w].new \subseteq have
          [] job[w].do = "delete" -> Belonging(have, job[w].new) = {}
          [] OTHER -> TRUE

(* Whatever failed, raced or crashed before: once fetches succeed again,    *)
(* an applied dynamic group gets a rule for every prefix its vendor lists,  *)
(* without the user doing anything.                                         *)
CaughtUp ==
  Usable(feed) /\ DOMAIN stored \cap (effectiveGroupPatterns \cup Parse(feed)) # {}
    => Parse(feed) \subseteq DOMAIN stored
GroupCatchesUp == <>[](smooth => CaughtUp)

(* "On any failure the previous cache is kept": a failed refresh leaves the *)
(* patterns the row holds.                                                  *)
FailureKeepsCache ==
  [][\A w \in Refreshers : RefreshFails(w) => cached'.pats = cached.pats]_groupVars
=============================================================================
