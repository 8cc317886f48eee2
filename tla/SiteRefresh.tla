---------------------------- MODULE SiteRefresh ----------------------------
(***************************************************************************)
(* One site run of RuntimeService: an exploration, or a refresh of a known *)
(* site (runtime/site_refresh.py).  A refresh replays the recipe of its    *)
(* Site Skill: it fetches the recipe's page, runs the recipe's discovery   *)
(* tool and fetches every candidate, then compares what it has with the    *)
(* previous state.  A recipe that does not work any more is replaced by an *)
(* exploration of the first seed within what is left of the same budget.   *)
(***************************************************************************)
EXTENDS SiteExplore

CONSTANTS
  Previous, \* the sets of pages a previous state may hold
  Goals     \* whether a file may be required, or must be

ASSUME GoalsAreChoices == Goals \subseteq BOOLEAN

VARIABLES
  skill,  \* of a refresh: the recipe's page and discovery tool, and the acquisition tool
  known,  \* the URLs of the previous state
  pages,  \* the pages fetched so far
  failed, \* failed_by_url
  named,  \* the candidates of the recipe's discovery
  update, \* the kind of site_skill_update: None, tool or recipe
  report  \* the SiteRefreshResult

refreshVars == <<skill, known, pages, failed, named, update, report>>
vars == <<exploreVars, refreshVars>>

Refreshing == skill # None

\* A page the recipe starts from is the seed, or one it led to when the skill was made.
Skills == [source : {Seed} \cup {v \in Urls \ Abroad : <<Seed, v>> \in Redirects},
           finder : Finders, tool : Acquirers]

Init ==
  /\ NothingExplored /\ goal \in Goals
  /\ left = Budget /\ fetches = [u \in Urls |-> 0] /\ others = fetches /\ base = fetches
  /\ charged = 0 /\ barred = FALSE /\ cut = FALSE
  /\ pages = {} /\ failed = {} /\ named = {} /\ update = None /\ report = None
  /\ \/ at = "seed" /\ skill = None /\ known = {}
     \/ at = "source" /\ skill \in Skills /\ known \in Previous

-----------------------------------------------------------------------------
(* Results *)

\* _remaining_budgets: whether anything is left for another call at u.
MayCall(u) == left > 0 /\ Tried(u) < Tries

\* What a refresh ends with.  An overspent budget, or an error that names a spent one,
\* overrides the rest; a page of the previous state that is neither here nor failed is
\* missing only if the refresh is complete.
Report(complete, stop, spent) ==
  LET over == left' < 0 \/ spent
      whole == complete /\ ~over
      gone == known \ (pages' \cup failed') IN
  [complete |-> whole, stop |-> IF over THEN "budget_exhausted" ELSE stop,
   missing |-> IF whole THEN gone ELSE {}, unresolved |-> IF whole THEN {} ELSE gone]

Finish(complete, stop, spent) == at' = "done" /\ report' = Report(complete, stop, spent)

\* _terminal_stop_reason
TerminalStop(run) ==
  IF run.code \in Stopped THEN "cancelled"
  ELSE IF run.code \in OutOfBudget THEN "budget_exhausted"
  ELSE IF run.code = "refused" THEN "rejected" ELSE "acquisition_failed"

\* _preferred_tool_update: the skill's tool did not serve, another did.
ToolUpdate(run) == IF run.by # skill.tool THEN "tool" ELSE update

\* A run that a cancellation halts does not name the skill it ran under, which the
\* SiteRefreshResult of a replay does not accept.
Raise == at' = "raised" /\ UNCHANGED <<pages, failed, update, report>>

-----------------------------------------------------------------------------
(* Replay *)

ReplaySource ==
  /\ at = "source"
  /\ \E r \in Runs(skill.source, skill.tool) :
       /\ Charge(skill.source, r) /\ seed' = r.run
       /\ \/ r.run.code = "halted" /\ Raise
          \/ /\ r.run.page = None /\ r.run.code # "halted"
             /\ failed' = {u \in {skill.source} : r.run.tried}
             /\ UNCHANGED <<pages, update>> /\ Finish(FALSE, TerminalStop(r.run), FALSE)
          \/ /\ r.run.page \in Abroad
             /\ UNCHANGED <<pages, failed, update>> /\ Finish(FALSE, "rejected", FALSE)
          \/ /\ r.run.page \in Urls \ Abroad
             /\ pages' = {r.run.page} /\ update' = ToolUpdate(r.run) /\ UNCHANGED failed
             /\ IF left' <= 0 \/ fetches'[skill.source] + others'[skill.source] >= Tries
                THEN Finish(FALSE, "budget_exhausted", TRUE)
                ELSE at' = "rediscover" /\ UNCHANGED report
  /\ UNCHANGED <<goal, search, hits, found, visits, stops, explored, skill, known, named>>

\* The recipe's tool is gone, fails or names another source; or it is cancelled, or answers.
Rediscover ==
  /\ at = "rediscover"
  /\ others' = [others EXCEPT ![seed.page] = @ + 1]
  /\ UNCHANGED <<goal, seed, hits, visits, stops, fetches, base, charged, barred, cut, explored,
                 skill, known, pages, failed, update>>
  /\ \E cost \in Costs \cup {0} :
       /\ left' = left - cost
       /\ \/ at' = "recover" /\ UNCHANGED <<search, named, found, report>>
          \/ Finish(FALSE, "cancelled", FALSE) /\ UNCHANGED <<search, named, found>>
          \/ \E how \in {"partial", "complete"}, urls \in Links :
               /\ search' = [search EXCEPT ![skill.finder] = how]
               /\ named' = urls \ ({seed.page} \cup IF goal THEN {} ELSE Abroad) /\ found' = named'
               /\ at' = "revisit" /\ UNCHANGED report

\* A required file ends the replay with the candidate that is one.
Unvisited == IF goal /\ FileFound THEN {} ELSE found \ DOMAIN visits

\* Mutant of Visited: the replay goes on without a page whatever became of it.
VisitedGoesOn(u, r) ==
  \/ r.run.code = "halted" /\ Raise
  \/ /\ r.run.page = None /\ r.run.code # "halted"
     /\ failed' = failed \cup {v \in {u} : r.run.tried} /\ UNCHANGED <<at, pages, update, report>>
  \/ /\ r.run.page \in Abroad
     /\ update' = None /\ UNCHANGED <<pages, failed>> /\ Finish(FALSE, "rejected", FALSE)
  \/ /\ r.run.page \in Urls \ Abroad
     /\ pages' = pages \cup {r.run.page} /\ update' = ToolUpdate(r.run)
     /\ UNCHANGED <<at, failed, report>>

\* What the run of a candidate does to a replay: only a technical failure lets it go on
\* without the page; a page of another site, or a refusal, also takes back the update.
Visited(u, r) ==
  \/ r.run.code = "halted" /\ Raise
  \/ /\ r.run.page = None /\ r.run.code # "halted"
     /\ failed' = failed \cup {v \in {u} : r.run.tried} /\ UNCHANGED pages
     /\ update' = IF TerminalStop(r.run) = "rejected" THEN None ELSE update
     /\ IF r.run.code = "technical" THEN UNCHANGED <<at, report>>
        ELSE Finish(FALSE, TerminalStop(r.run), FALSE)
  \/ /\ r.run.page \in Abroad
     /\ update' = None /\ UNCHANGED <<pages, failed>> /\ Finish(FALSE, "rejected", FALSE)
  \/ /\ r.run.page \in Urls \ Abroad
     /\ pages' = pages \cup {r.run.page} /\ update' = ToolUpdate(r.run)
     /\ UNCHANGED <<at, failed, report>>

Revisit(u) ==
  /\ at = "revisit" /\ u \in Unvisited
  /\ UNCHANGED <<goal, seed, search, hits, found, stops, explored, skill, known, named>>
  /\ IF u \in Abroad
     THEN /\ update' = None /\ UNCHANGED <<visits, ledger, pages, failed>>
          /\ Finish(FALSE, "rejected", FALSE)
     ELSE IF ~MayCall(u)
     THEN /\ UNCHANGED <<visits, ledger, pages, failed, update>>
          /\ Finish(FALSE, "budget_exhausted", TRUE)
     ELSE \E r \in Runs(u, skill.tool) : Charge(u, r) /\ Select(u, r.run) /\ Visited(u, r)

FinishReplay ==
  /\ at = "revisit" /\ Unvisited = {}
  /\ UNCHANGED <<goal, seed, search, hits, found, visits, stops, ledger, explored, skill, known,
                 pages, failed, named, update>>
  /\ IF search[skill.finder] = "complete" THEN Finish(TRUE, "source_exhausted", FALSE)
     ELSE Finish(FALSE, "discovery_failed", FALSE)

-----------------------------------------------------------------------------
(* Recovery *)

\* The exploration of the first seed begins with the attempts made so far.
Recover ==
  /\ at = "recover" /\ update' = None
  /\ UNCHANGED <<goal, seed, search, hits, found, visits, stops, left, fetches, others, charged, barred,
                 cut, explored, skill, known, pages, failed, named>>
  /\ IF MayCall(Seed)
     THEN base' = [u \in Urls |-> Tried(u)] /\ at' = "seed" /\ UNCHANGED report
     ELSE Finish(FALSE, "budget_exhausted", TRUE) /\ UNCHANGED base

ExploredPages == ({seed.page} \cup {visits[u].page : u \in Good}) \ {None}
ExploredFailures == {u \in DOMAIN visits : visits[u].tried /\ visits[u].page = None}
                    \cup {u \in {Seed} : seed.tried /\ seed.page = None}

Mismatched ==
  \/ Site # "home"
  \/ \E u \in DOMAIN visits : visits[u].code = "mismatch" \/ u \in Stored \ Good

\* The candidates a discovery tool names on this site.
Expected(f) == hits[f] \ ({seed.page} \cup Abroad)

\* _recovery_coverage_error: the new recipe names all that was found, everything it names
\* was tried, and every page of the new state is one of them.
Replayable(f, now) ==
  /\ search[f] = "complete"
  /\ \A g \in Succeeded : Expected(g) \subseteq Expected(f)
  /\ Expected(f) \subseteq {Seed} \cup {u \in DOMAIN visits : visits[u].tried}
  /\ now \subseteq {seed.page} \cup {visits[u].page : u \in Expected(f) \cap Stored}

EndRecovery ==
  /\ at = "explored" /\ Refreshing
  /\ pages' = IF Site = "home" THEN pages \cup ExploredPages ELSE pages
  /\ failed' = ExploredFailures
  /\ UNCHANGED <<goal, seed, search, hits, found, visits, stops, ledger, explored, skill, known>>
  /\ LET spent == cut \/ explored.stop = "budget_exhausted"
         adopted == ~Mismatched /\ ~barred /\ explored.recipe # None /\ ~cut /\ left >= 0 IN
     /\ update' = IF adopted THEN "recipe" ELSE None
     /\ named' = IF adopted THEN Expected(explored.recipe) ELSE named
     /\ IF adopted
        THEN IF Replayable(explored.recipe, pages') THEN Finish(TRUE, "source_exhausted", spent)
             ELSE Finish(FALSE, "recovery_incomplete", spent)
        ELSE Finish(FALSE,
               IF Mismatched \/ barred THEN "rejected"
               ELSE IF explored.stop \in {"cancelled", "rejected"} THEN explored.stop
               ELSE "recovery_incomplete", spent)

Next ==
  \/ ExploreStep /\ UNCHANGED refreshVars
  \/ ReplaySource \/ Rediscover \/ (\E u \in Urls : Revisit(u)) \/ FinishReplay
  \/ Recover \/ EndRecovery

Spec == Init /\ [][Next]_vars

-----------------------------------------------------------------------------
(* Properties *)

\* The fetches of a URL: as a candidate, and as the page discovery read.
First == IF update = "recipe" THEN Seed ELSE skill.source
RunsOf(u) == {visits[v] : v \in {u} \cap DOMAIN visits} \cup {seed : v \in {u} \cap {First}}

\* What an absence means (SiteRefreshResult.missing): a page of the previous state is only
\* called missing by a refresh whose recipe's discovery was complete, that stayed inside
\* its budget and tried every page the discovery named; and one it named was fetched, and
\* led elsewhere.  A failure, a refusal, a cancellation or a spent budget, before or
\* within a recovery, leaves it unresolved or failed.  (A required file that was found
\* ends the replay without the other pages, which then count as missing all the same.)
MissingIsProven ==
  report # None /\ report.missing # {} =>
    /\ search[IF update = "recipe" THEN explored.recipe ELSE skill.finder] = "complete"
    /\ left >= 0 /\ (named \subseteq {First} \cup DOMAIN visits \/ (goal /\ FileFound))
    /\ \A u \in named : RunsOf(u) # {} => \E run \in RunsOf(u) : run.tried
    /\ \A u \in named : \A run \in RunsOf(u) :
         run.tried /\ run.page = None => run.code = "technical"
    /\ \A u \in named \cap report.missing : \A run \in RunsOf(u) :
         run.tried => run.page \notin {None, u}

\* A new Site Skill is only proposed on proof (create_candidate): a recipe if the tool
\* that fetched the seed also fetched a page, of the same site, that the recipe's
\* discovery named, and nothing stopped the exploration (a discovery tool may have failed
\* only if a file is required and the recipe's saw all); another tool if it fetched a page
\* where the skill's did not; and neither if a page was refused or led off the site.
SkillsAreProven ==
  /\ explored # None /\ explored.recipe # None =>
       /\ stops = {} /\ ~barred /\ Todo = {}
       /\ SomeFailed => goal /\ search[explored.recipe] = "complete"
       /\ \E u \in hits[explored.recipe] \cap DOMAIN visits :
            visits[u].by = seed.by /\ visits[u].page # None /\ Host(visits[u].page) = Host(seed.page)
  /\ report # None /\ update # None =>
       /\ report.stop # "rejected" /\ seed.page \notin Abroad
       /\ \A u \in DOMAIN visits :
            visits[u].page \notin Abroad /\ (visits[u].code = "refused" => ~visits[u].tried)
       /\ update = "recipe" => explored.recipe # None /\ left >= 0
       /\ update = "tool" => \E r \in {visits[u] : u \in DOMAIN visits} \cup {seed} :
                                r.page # None /\ r.by # skill.tool

\* max_tool_attempts_per_target: no URL is fetched more often, over a replay and the
\* recovery after it; and the seed of a recovery, if it leads nowhere else, is not
\* attempted more often by tools of any kind.
AttemptsAreLimited ==
  /\ \A u \in Urls : fetches[u] <= Tries
  /\ Recovering /\ seed.page = Seed /\ (\A u \in DOMAIN visits : visits[u].page # Seed) =>
       Tried(Seed) <= Tries

\* Without a cancellation every site run returns its evidence: its result never fails the
\* checks it makes on itself.  (If a file is required it may: when a refusal follows a
\* spent allowance, or no tool aware of files answered although another one did.)
RaisesOnlyWhenCancelled ==
  at = "raised" =>
    \/ "cancelled" \in stops \/ seed.code \in Stopped
    \/ goal /\ ({"refused", "tries"} \subseteq stops \/ (Succeeded # {} /\ ~AwareSucceeded))
    \/ \E u \in DOMAIN visits : visits[u].code \in Stopped

=============================================================================
