------------------------------ MODULE MCTables ------------------------------
(***************************************************************************)
(* The tables that decide where a connection goes: which rule decides      *)
(* (RuleIndex, and RuleEdits where edits cross), the lease behind a        *)
(* synthetic address (FakeIPPool, here with concurrent handlers), the      *)
(* address's proxies (ProxyTable), the rows those names stand for          *)
(* (Outbounds), the links they are shared as (LinkCodec), the order in     *)
(* which a binding's members are dialled (DialOrder), and a query on its   *)
(* way to an answer (QueryPath).                                           *)
(*                                                                         *)
(* They share no state, so a behaviour is a behaviour of one of them:      *)
(* `scene` says which, and the others stay at rest.  Outbounds has two     *)
(* scenes, one with a row of every kind and one with two entries that dial *)
(* through each other.                                                     *)
(***************************************************************************)
EXTENDS FakeIPPool, ProxyTable, Outbounds, LinkCodec, DialOrder, QueryPath
CONSTANTS n1, n2, t1, t2, Block

VARIABLES
  scene,
  rs, i, exact, wild, ips, ip, j, best,
  entries, proxyRows, subRows, setRows, bound, expanded, cut, rewrote,
  ruleRows, cache, routes, mapped, calls, listed, edits, switchedOn, alone, decided

indexState == <<rs, i, exact, wild, ips, ip, j, best>>
dialState  == <<entries, proxyRows, subRows, setRows, bound, expanded, cut, rewrote>>
editState  == <<ruleRows, cache, routes, mapped, calls, listed, edits, switchedOn, alone, decided>>
tableVars  == <<scene, vars, proxyVars, outVars, linkVars, orderVars, queryVars, indexState,
                dialState, editState>>

\* Lists of two rules in either order, and of three, over a small name and
\* address space.
IndexNames    == {<<"com">>, <<"com", "a">>, <<"com", "a", "b">>}
IndexPrefixes == {<< >>, <<0>>, <<0, 1>>}
IndexPatterns == [kind : {"exact", "wild"}, body : IndexNames] \cup [kind : {"ip"}, body : IndexPrefixes]
IndexRules(n) == [id : {n}, pattern : IndexPatterns, enabled : BOOLEAN]
IndexLists    == {<<a, b>> : a \in IndexRules(1), b \in IndexRules(2)}
                 \cup {<<a, b>> : a \in IndexRules(2), b \in IndexRules(1)}
                 \cup {<<a, b, c>> : a \in IndexRules(2), b \in IndexRules(3), c \in IndexRules(1)}

Index == INSTANCE RuleIndex WITH
  Labels <- {"com", "a", "b"}, Names <- IndexNames, Bodies <- IndexPrefixes,
  Addresses <- {<<0, 0>>, <<0, 1>>, <<1, 1>>}, RuleLists <- IndexLists
ASSUME Index!IndexAssumption

\* Two entries, a third name to rename one to, and a subscription.
Dialers == INSTANCE Outbounds WITH
  xray <- entries, proxies <- proxyRows, subs <- subRows, sets <- setRows, binding <- bound,
  engine <- expanded, torn <- cut, rewired <- rewrote,
  XrayIds <- {1, 2}, ProxyIds <- {}, SetIds <- {}, BoundRules <- {}, EntryNames <- {n1, n2, "n3"}

\* Two names, two editors, writes that may fail; nobody asks for the names.
Edits == INSTANCE RuleEdits WITH
  rules <- ruleRows, table <- mapped, todo <- calls, query <- decided,
  DomainRules <- {1, 2}, IPRules <- {}, Dest <- <<"d1", "d2">>, Literal <- "utun4", Proxies <- {},
  Tun <- "tun", Editors <- {"e1", "e2"}, Resolvers <- {}, Requests <- {"delete", "bulk"},
  MaxEdits <- 3, WritesMayFail <- TRUE

\* The parameters a link may carry, in the combinations that meet in ParseLink.
LinkParameters ==
  {K \cup E : K \in SUBSET {"sni", "host", "path"},
              E \in {{}, {"fp", "alpn"}, {"pbk", "sid", "spx"}, {"headerType"}, {"serviceName"},
                     {"mode", "extra"}, {"flow", "encryption", "scy"}}}

\* Four members: healthy, on probation, unsure and suspected ones, sharing
\* ways in and out.
FourMembers == <<"m1", "m2", "m3", "m4">>
Stands(tier, rtt, rate, probation) == [tier |-> tier, rtt |-> rtt, rate |-> rate, probation |-> probation]
FiveStandings ==
  {Stands(0, 1, 0, FALSE), Stands(0, 3, 0, FALSE), Stands(1, 1, 0, TRUE),
   Stands(2, 0, 0, FALSE), Stands(3, 1, 1, TRUE)}
SharedWays ==
  {[m1 |-> {"r1"}, m2 |-> {"r2"}, m3 |-> {"r1"}, m4 |-> {"r3"}],
   [m1 |-> {"r1", "x1"}, m2 |-> {"r2", "x1"}, m3 |-> {"r2"}, m4 |-> {"r1", "x2"}]}

\* An upstream list of two servers, and one of a single server to swap it for.
TwoLists == [l \in Forwarders |-> IF l = "both" THEN 2 ELSE 1]

TableSymmetry == Permutations({n1, n2}) \cup Permutations({t1, t2})

-----------------------------------------------------------------------------
(* At rest: any one initial state.                                          *)
TableInit ==
  /\ scene \in {"proxies", "outbounds", "links", "order", "index", "leases", "dialers", "edits",
               "query"}
  /\ ProxyInit /\ OutInit /\ Dialers!OutInit
  /\ IF scene = "links" THEN LinkInit
     ELSE card = NoCard /\ origin = NoCard /\ left = {} /\ source = "user"
  /\ IF scene = "order" THEN OrderInit
     ELSE /\ standing = [m \in Names |-> Stands(0, 1, 0, FALSE)] /\ incumbent = "none"
          /\ shunned = {} /\ keysOf = [m \in Names |-> {}] /\ order = << >>
  /\ QueryInit
  /\ scene # "query" =>
       fakeOn /\ tunName /\ forwarder = "both"
  /\ rs \in IF scene = "index" THEN IndexLists ELSE {<< >>}
  /\ i = 1 /\ ips = << >> /\ ip = None /\ j = 1 /\ best = None
  /\ exact = [n \in IndexNames |-> None] /\ wild = [n \in IndexNames |-> None]
  /\ ruleRows = [r \in {1, 2} |-> [target |-> "utun4", enabled |-> TRUE]] /\ Edits!Init
  /\ Init /\ db = Nothing

OthersRest(mine) ==
  /\ UNCHANGED scene
  /\ mine # "proxies" => UNCHANGED proxyVars
  /\ mine # "outbounds" => UNCHANGED outVars
  /\ mine # "links" => UNCHANGED linkVars
  /\ mine # "order" => UNCHANGED orderVars
  /\ mine # "index" => UNCHANGED indexState
  /\ mine # "leases" => UNCHANGED vars
  /\ mine # "dialers" => UNCHANGED dialState
  /\ mine # "edits" => UNCHANGED editState
  /\ mine # "query" => UNCHANGED queryVars

TableNext ==
  \/ scene = "proxies" /\ ProxyNext /\ OthersRest("proxies")
  \/ scene = "outbounds" /\ OutNext /\ OthersRest("outbounds")
  \/ scene = "links" /\ LinkNext /\ OthersRest("links")
  \/ scene = "order" /\ OrderNext /\ OthersRest("order")
  \/ scene = "index" /\ Index!Next /\ OthersRest("index")
  \/ scene = "leases" /\ Next /\ OthersRest("leases")
  \/ scene = "dialers" /\ Dialers!OutNext /\ OthersRest("dialers")
  \/ scene = "edits" /\ Edits!Next /\ OthersRest("edits")
  \/ scene = "query" /\ QueryNext /\ OthersRest("query")

TableSpec == TableInit /\ [][TableNext]_tableVars

-----------------------------------------------------------------------------
(* Promises of the modules, see there.                                      *)

(* A query is decided by the right rule: the compiled index answers as the  *)
(* scan over the whole rule list would, and a list that crossing or failing *)
(* edits left out of date is replaced by the next edit.                     *)
DecisionsAreRight ==
  /\ scene = "index" => Index!LookupsAgree
  /\ scene = "edits" => Edits!StaleCacheHeals

(* Names keep their rows, no entry dials through itself, and a row that is  *)
(* shared as a link is the row that is read back from it.                   *)
OutboundsAreSound ==
  /\ IF scene = "dialers" THEN Dialers!NamesResolve /\ Dialers!DialersAcyclic ELSE NamesResolve
  /\ SharedLinkIsFaithful
=============================================================================
