---------------------------- MODULE SiteExplore ----------------------------
(***************************************************************************)
(* One site exploration (runtime/site_explore.py): the seed is fetched,    *)
(* the discovery tools read its links, the first candidates are fetched,   *)
(* all from one ledger, and what was seen becomes a Site Skill candidate   *)
(* if it can be replayed.  The fetch of one page is one step here, with    *)
(* the outcomes TargetWorkflow reaches as far as a site tells them apart.  *)
(* The record checks itself (result/site_explore.py): a run whose evidence *)
(* contradicts its stop reason raises instead of returning.                *)
(***************************************************************************)
EXTENDS Integers, FiniteSets, FiniteSetsExt

CONSTANTS
  Urls, Seed,
  Abroad,    \* URLs of another host, which the scope allows
  Redirects, \* pairs of URLs: where a URL may lead instead of to itself
  Finders,   \* discovery tools, numbered in the order of their ids
  Aware,     \* those that look for files (html_file_links)
  Capabilities, \* for each goal and kind of page, the discovery tools of each capability
             \* it asks for
  Acquirers, Preferred,
  Kinds,     \* for each goal, the kinds of pages: html (with words), empty (without), file
  Budget,    \* of the Request: requests, bytes and time are one resource here
  Tries,     \* max_tool_attempts_per_target
  Costs,     \* what a fetch or a discovery may spend
  Links,     \* the sets of URLs a page may name
  None

ASSUME SiteIsKnown ==
  /\ Seed \in Urls /\ Abroad \subseteq Urls \ {Seed} /\ Links \subseteq SUBSET Urls
  /\ None \notin Urls \cup {"tool", "recipe"}
ASSUME FindersAreRanked == Finders \subseteq Nat \ {0} /\ Aware \subseteq Finders
ASSUME LimitsArePositive == Budget \in Nat \ {0} /\ Tries \in Nat \ {0} /\ Costs \subseteq Nat
ASSUME PreferredIsKnown == Preferred \in Acquirers

VARIABLES
  goal,    \* require_file: a batch of sites may ask for a file of each
  at,      \* where run_site_explore is
  seed,    \* the run of the seed
  search,  \* what became of each discovery tool
  hits,    \* the candidates each reported
  found,   \* discovered
  visits,  \* the runs of the selected candidates
  stops,   \* what ended the search early: shared, tries, cancelled,
           \* and refused, when a file is required
  left,    \* what is left of the budget, below zero when overspent
  fetches, \* acquisition attempts at each URL
  others,  \* discovery and transform attempts at each URL
  base,    \* the attempts made at each URL before this exploration
  charged, \* _source_attempts, of a recovery
  barred,  \* rejection_code, of a recovery
  cut,     \* attempt_budget_exhausted, of a recovery
  explored \* the SiteExploreResult

ledger == <<left, fetches, others, base, charged, barred, cut>>
exploreVars == <<goal, at, seed, search, hits, found, visits, stops, ledger, explored>>

Host(u) == IF u \in Abroad THEN "abroad" ELSE "home"
Tried(u) == fetches[u] + others[u]
Own(u) == Tried(u) - base[u]
Recovering == \E u \in Urls : base[u] > 0

\* Mutant of SourceAllowance: the attempts of the replay are forgotten.
SourceAllowanceWhole == Tries

\* _remaining_source_attempts
SourceAllowance == IF base[Seed] > Tries THEN 0 ELSE Tries - base[Seed]

-----------------------------------------------------------------------------
(* The run of one page *)

\* How a run ended without its page.  "halted" is a cancellation read before a tool was
\* called, "overran" one of a call that had also spent too much; "mismatch" and
\* "unfunded" mark candidates no run was started for.
Stopped == {"halted", "cancelled", "overran"}
OutOfBudget == {"shared", "tries", "unfunded", "overran"}

Run(page, kind, by, code, tried) ==
  [page |-> page, kind |-> kind, by |-> by, code |-> code, tried |-> tried]
Failure(code, tried) == Run(None, "none", None, code, tried)

\* Runs that ended without it, with what they spent.
Failures(codes, tried, calls, costs) ==
  [run : [page : {None}, kind : {"none"}, by : {None}, code : codes, tried : {tried}],
   calls : calls, turns : {0}, cost : costs]

\* Whether a stored page is offered to a Transform, an attempt at the page it came from.
Transformable(u, kind, calls) ==
  /\ kind # "file" /\ calls < Tries - Own(u)
  /\ Recovering /\ u = Seed => charged + calls < SourceAllowance

\* A page is stored, of the URL it led to, by the preferred tool or, after it, another;
\* a Transform may fail, overspend or be cancelled, which leaves the page.
StoredRuns(u, first) ==
  {r \in [run : [page : {u} \cup {v \in Urls : <<u, v>> \in Redirects}, kind : Kinds[goal],
                 by : Acquirers, code : {"none", "cancelled"}, tried : {TRUE}],
          calls : 1..(Tries - Tried(u)), turns : 0..1, cost : Costs] :
     /\ (r.calls = 1) <=> (r.run.by = first)
     /\ r.turns = 1 => Transformable(u, r.run.kind, r.calls)
     /\ r.cost > left => r.turns = 1}

\* None is stored: nothing was called, or the last call failed, was refused or spent what
\* was left, or no tool or attempt remains, or the run was cancelled.
FailedRuns(u) ==
  LET tries == IF Tried(u) > Tries THEN 0 ELSE Tries - Tried(u) IN
  Failures({"refused", IF tries = 0 THEN "tries" ELSE "halted"}, FALSE, {0}, {0})
  \cup Failures({"tries"}, TRUE, {tries} \ {0}, {c \in Costs : c < left})
  \cup Failures({"halted"}, TRUE, 1..(tries - 1), {c \in Costs : c < left})
  \cup Failures({"technical", "refused", "cancelled"}, TRUE, 1..tries, {c \in Costs : c <= left})
  \cup Failures({"shared"}, TRUE, 1..tries, {c \in Costs : c >= left})
  \cup Failures({"overran"}, TRUE, 1..tries, {c \in Costs : c > left})

\* Everything the run of u may come to; a recovery that was refused calls no tool again.
Runs(u, first) ==
  IF barred THEN Failures({"refused", "halted"}, FALSE, {0}, {0})
  ELSE StoredRuns(u, first) \cup FailedRuns(u)

\* What a run does to the ledger.  A recovery takes note of a refusal, which a later
\* cancellation may hide, and of the Transform it withheld from its seed.
Charge(u, r) ==
  /\ left' = left - r.cost
  /\ fetches' = [fetches EXCEPT ![u] = @ + r.calls]
  /\ others' = IF r.turns = 0 THEN others ELSE [others EXCEPT ![r.run.page] = @ + 1]
  /\ charged' = IF Recovering /\ u = Seed THEN charged + r.calls + r.turns ELSE charged
  /\ IF Recovering /\ r.run.tried /\ r.run.page = None /\ r.run.code \in {"refused"} \cup Stopped
     THEN barred' \in {TRUE, r.run.code = "refused" \/ barred} ELSE UNCHANGED barred
  /\ cut' = (cut \/ (/\ Recovering /\ u = Seed /\ r.run.kind \in {"html", "empty"}
                     /\ r.calls < Tries - Own(u) /\ charged + r.calls >= SourceAllowance))
  /\ UNCHANGED base

-----------------------------------------------------------------------------
(* Seed and discovery *)

NothingExplored ==
  /\ seed = Failure("none", FALSE) /\ search = [f \in Finders |-> "absent"]
  /\ hits = [f \in Finders |-> {}] /\ found = {} /\ visits = [u \in {} |-> seed]
  /\ stops = {} /\ explored = None

RunSeed ==
  /\ at = "seed"
  /\ \E r \in Runs(Seed, Preferred) :
       /\ Charge(Seed, r) /\ seed' = r.run
       /\ at' = IF r.run.page = None \/ r.run.code = "cancelled" THEN "build" ELSE "offer"
  /\ UNCHANGED <<goal, search, hits, found, visits, stops, explored>>

\* The discovery tools that are eligible for the kind of page: for a file none, for a feed
\* those of two capabilities.  A recovery is offered, of each capability, as many as its
\* seed has attempts left.
OfferTools ==
  /\ at = "offer" /\ at' = "discover"
  /\ \E groups \in Capabilities[goal] : \E eligible \in SUBSET UNION groups :
       LET allowed(f) == Recovering => \A group \in groups : f \in group =>
             Cardinality({g \in eligible \cap group : g <= f}) <= SourceAllowance - charged IN
       /\ seed.kind = "file" => eligible = {}
       /\ search' = [f \in Finders |-> IF f \in eligible /\ allowed(f) THEN "todo" ELSE "absent"]
       /\ cut' = (cut \/ \E f \in eligible : ~allowed(f))
  /\ UNCHANGED <<goal, seed, hits, found, visits, stops, left, fetches, others, base, charged,
                 barred, explored>>

Succeeded == {f \in Finders : search[f] \in {"partial", "complete"}}
Todo == {f \in Finders : search[f] = "todo"}
AwareSucceeded == goal /\ Succeeded \cap Aware # {}

\* Tools run in the order of their ids, for a required file those aware of files first.
NextFinder ==
  LET first == IF goal /\ Todo \cap Aware # {} THEN Todo \cap Aware ELSE Todo IN
  CHOOSE f \in first : \A g \in first : f <= g

\* html_links is passed over once html_file_links succeeded.
PassedOver(f) == AwareSucceeded /\ f \notin Aware

\* A discovery counts as an attempt at the page it reads.  The seed of a recovery blocks
\* one too many, which then counts for nothing.
Blocked == Recovering /\ seed.page = Seed /\ charged >= SourceAllowance

Found(f, how, urls, cost) ==
  /\ search' = [search EXCEPT ![f] = how] /\ hits' = [hits EXCEPT ![f] = urls]
  /\ left' = left - cost
  /\ others' = [others EXCEPT ![seed.page] = @ + 1]
  /\ charged' = IF Recovering /\ seed.page = Seed THEN charged + 1 ELSE charged
  /\ IF how = "cancelled" THEN stops' = stops \cup {"cancelled"} /\ UNCHANGED found
     ELSE IF left' <= 0 THEN stops' = stops \cup {"shared"} /\ UNCHANGED found
     ELSE found' = found \cup (urls \ {seed.page}) /\ UNCHANGED stops
  /\ UNCHANGED cut

\* Links are only looked for while the budget lasts, and taken only if it still does.
Discover ==
  /\ at = "discover" /\ Todo # {} /\ stops = {}
  /\ LET f == NextFinder IN
     IF PassedOver(f)
     THEN /\ search' = [search EXCEPT ![f] = "passed"]
          /\ UNCHANGED <<hits, found, stops, left, others, charged, cut>>
     ELSE IF left <= 0 \/ Own(seed.page) >= Tries
     THEN /\ stops' = {IF left <= 0 THEN "shared" ELSE "tries"}
          /\ UNCHANGED <<search, hits, found, left, others, charged, cut>>
     ELSE IF Blocked
     THEN /\ search' = [search EXCEPT ![f] = "blocked"] /\ stops' = {"tries"} /\ cut' = TRUE
          /\ UNCHANGED <<hits, found, left, others, charged>>
     ELSE \E cost \in Costs \cup {0} :
            \/ \E how \in {"failed", "cancelled"} : Found(f, how, {}, cost)
            \/ \E how \in {"partial", "complete"}, urls \in Links : Found(f, how, urls, cost)
  /\ UNCHANGED <<goal, at, seed, visits, fetches, base, barred, explored>>

EndDiscovery ==
  /\ at = "discover" /\ (Todo = {} \/ stops # {}) /\ at' = "visit"
  /\ UNCHANGED <<goal, seed, search, hits, found, visits, stops, ledger, explored>>

-----------------------------------------------------------------------------
(* Candidates *)

Site == Host(seed.page)
Provenance(u) == CHOOSE f \in Succeeded : u \in hits[f] /\ \A g \in Succeeded : u \in hits[g] => f <= g

\* available_candidates: a required file is looked for where an aware tool points.
Available == IF AwareSucceeded THEN {u \in found : Provenance(u) \in Aware} ELSE found

Stored == {u \in DOMAIN visits : visits[u].page # None}
Good == {u \in Stored : Host(visits[u].page) = Site}

FileFound == \E u \in Stored : visits[u].kind = "file"

\* Two candidates that were fetched, or tried, are enough; a required file needs as many
\* as it takes.
Enough ==
  IF goal THEN FileFound ELSE Cardinality({u \in DOMAIN visits : visits[u].tried}) >= 2

ToVisit ==
  IF at # "visit" \/ Enough \/ stops \cap {"shared", "cancelled", "refused"} # {} THEN {}
  ELSE Available \ DOMAIN visits

Select(u, run) == visits' = [v \in DOMAIN visits \cup {u} |-> IF v = u THEN run ELSE visits[v]]

\* What the run of a candidate stops: a spent allowance of attempts ends only this
\* candidate, anything else the search, and so does, when a file is required, a refusal or
\* a page of another site.
StopsOf(run) ==
  IF goal /\ (run.code = "refused" \/ (run.page # None /\ Host(run.page) # Site))
  THEN {"refused"}
  ELSE {s \in {"shared", "tries"} : run.code = s} \cup {s \in {"cancelled"} : run.code \in Stopped}

Visit(u) ==
  /\ u \in ToVisit
  /\ IF Host(u) # Site
     THEN /\ Select(u, Failure("mismatch", FALSE))
          /\ stops' = stops \cup {s \in {"refused"} : goal} /\ UNCHANGED ledger
     ELSE IF left <= 0 \/ Own(u) >= Tries
     THEN /\ Select(u, Failure("unfunded", FALSE))
          /\ stops' = stops \cup {IF left <= 0 THEN "shared" ELSE "tries"} /\ UNCHANGED ledger
     ELSE \E r \in Runs(u, Preferred) :
            Charge(u, r) /\ Select(u, r.run) /\ stops' = stops \cup StopsOf(r.run)
  /\ UNCHANGED <<goal, at, seed, search, hits, found, explored>>

EndVisits ==
  /\ at = "visit" /\ ToVisit = {} /\ at' = "build"
  /\ UNCHANGED <<goal, seed, search, hits, found, visits, stops, ledger, explored>>

-----------------------------------------------------------------------------
(* The result *)

NoneOffered == \A f \in Finders : search[f] = "absent"
SomeFailed == \E f \in Finders : search[f] \in {"failed", "cancelled", "blocked"}

\* A required file may still be found if those aware of files failed and another saw all.
DiscoveryFailed ==
  IF goal /\ ~AwareSucceeded THEN ~ \E f \in Finders \ Aware : search[f] = "complete"
  ELSE NoneOffered \/ SomeFailed

Complete == ~DiscoveryFailed /\ Todo = {} /\ visits # [u \in {} |-> seed] /\ stops = {}

\* Mutant of Proven: a page of any tool counts.
ProvenByAny == Good

\* Only pages with words prove anything, and only those the tool of the seed fetched too.
Verified == \A u \in Good : visits[u].kind # "empty" /\ seed.kind # "empty"
Proven == {u \in Good : visits[u].by = seed.by}
Recipes == IF Complete /\ Verified /\ ~barred THEN {Provenance(u) : u \in Proven} ELSE {}

Outcome(status, stop, complete, recipe) ==
  [status |-> status, stop |-> stop, complete |-> complete, recipe |-> recipe]

\* The seed decides a run that got no further.
SeedOutcome ==
  IF seed.code \in Stopped THEN Outcome("partial", "cancelled", FALSE, None)
  ELSE IF seed.code \in {"shared", "tries"} THEN Outcome("partial", "budget_exhausted", FALSE, None)
  ELSE IF seed.tried THEN Outcome("failed", "acquisition_failed", FALSE, None)
  ELSE Outcome("rejected", "rejected", FALSE, None)

\* Mutant of StopReason: a candidate that used up its attempts does not count as spent.
StopReasonTriesForgotten ==
  IF "refused" \in stops THEN "rejected"
  ELSE IF "cancelled" \in stops THEN "cancelled"
  ELSE IF "shared" \in stops THEN "budget_exhausted"
  ELSE IF DiscoveryFailed \/ DOMAIN visits = {} THEN "discovery_failed"
  ELSE "acquisition_failed"

StopReason ==
  IF "refused" \in stops THEN "rejected"
  ELSE IF "cancelled" \in stops THEN "cancelled"
  ELSE IF stops # {} THEN "budget_exhausted"
  ELSE IF DiscoveryFailed \/ DOMAIN visits = {} THEN "discovery_failed"
  ELSE "acquisition_failed"

\* The codes of errors and attempts that a result holds against its stop reason.
BudgetIsNamed ==
  \/ seed.code \in OutOfBudget \/ stops \cap {"shared", "tries"} # {}
  \/ \E u \in DOMAIN visits : visits[u].code \in OutOfBudget

\* SiteExploreResult.__post_init__: a result that names a spent budget must stop for it,
\* one that stops for a failed discovery must show the failure, and one that completes in
\* spite of a failure must have a recipe that saw all.
Refuses(outcome) ==
  \/ outcome.stop # "budget_exhausted" /\ BudgetIsNamed
  \/ outcome.stop = "discovery_failed" /\ Available # {} /\ ~NoneOffered /\ ~SomeFailed
  \/ outcome.recipe # None /\ SomeFailed /\ search[outcome.recipe] # "complete"

Return(outcome) ==
  IF Refuses(outcome) THEN at' = "raised" /\ UNCHANGED explored
  ELSE at' = "explored" /\ explored' = outcome

Build ==
  /\ at = "build"
  /\ IF seed.page = None \/ seed.code = "cancelled" THEN Return(SeedOutcome)
     ELSE IF Recipes # {}
     THEN \E f \in Recipes : Return(Outcome("completed", "source_exhausted", TRUE, f))
     ELSE Return(Outcome(IF "refused" \in stops THEN "rejected" ELSE "partial", StopReason, Complete, None))
  /\ UNCHANGED <<goal, seed, search, hits, found, visits, stops, ledger>>

ExploreStep ==
  RunSeed \/ OfferTools \/ Discover \/ EndDiscovery \/ (\E u \in Urls : Visit(u)) \/ EndVisits \/ Build

=============================================================================
