------------------------------ MODULE UrlFetch ------------------------------
(***************************************************************************)
(* One strict URL fetch, from its claim to its outcome: the url_fetches    *)
(* row and its hop and discovery tables (runtime/jobs.py), the resumable   *)
(* navigation loop (runtime/url_fetch.py) and the service code that drives *)
(* it (runtime/service.py).  The process may die between any two steps;    *)
(* the next one returns the row to the queue and resumes from the durable  *)
(* hops.  Cancellation requests come from other threads and processes.     *)
(* The web answers what it likes: each acquisition yields one of Answers   *)
(* at one of Costs.                                                        *)
(***************************************************************************)
EXTENDS Naturals, Sequences, FiniteSets, SequencesExt

CONSTANTS
  Urls, Seed,       \* the URLs of the site and the requested one
  Clients,          \* concurrent callers of cancel_url_fetch
  Answers,          \* [final, source, links]: what one acquisition finds
  Costs,            \* [requests, runtime, attempts]: what it spends
  MaxRequests, MaxRuntime, MaxAttempts, MaxHops, Follow,  \* the admitted request
  MaxCrashes,       \* bound on crashes
  MayRaise,         \* the workflow may raise
  MayLoseWrites,    \* a database write may raise
  None

\* Half seconds: an acquisition needs a whole second left, a discovery any time.
Second == 2

\* What a page offers: discovery fails on it, finds several targets, or one.
Links == {"failed", "many"} \cup Urls

ASSUME SeedIsAUrl == Seed \in Urls
ASSUME AnswersAreAnswers ==
  Answers \subseteq [final : Urls, source : {"none", "html", "file"}, links : Links, clean : BOOLEAN]
ASSUME CostsAreCosts ==
  Costs \subseteq [requests : Nat, runtime : Nat, attempts : 1..MaxAttempts]
ASSUME LimitsAreLimits ==
  /\ MaxRequests \in Nat \ {0} /\ MaxRuntime \in Nat /\ MaxAttempts \in Nat \ {0}
  /\ MaxHops \in Nat /\ MaxCrashes \in Nat /\ {Follow, MayRaise, MayLoseWrites} \subseteq BOOLEAN
ASSUME NoneIsNothing ==
  None \notin Nat \cup {"terminal_html", "multiple_navigation_targets", "navigation_loop",
                         "navigation_hop_limit"}

VARIABLES
  status,    \* url_fetches.status
  cancel,    \* cancel_requested_at, dated by the number of hops then durable
  hops,      \* url_fetch_hops: the checkpointed Results, in order
  finds,     \* url_fetch_discovery: the checkpointed navigation evidence
  outcome,   \* result_json (None as well for a failure code without a Result)
  granted,   \* url_fetch_artifact_grants: the contents its caller may read
  pc,        \* where the executing thread is; "lost" when it left the row running
  results, discovery, current, visited, stop,  \* the locals of run_url_fetch
  evidence,  \* the discovery being recorded
  asking,    \* the clients that read an unfinished, uncancelled row
  crashes

durable == <<status, cancel, hops, finds, outcome, granted>>
locals == <<pc, results, discovery, current, visited, stop, evidence>>
fetchVars == <<durable, locals, asking, crashes>>

Finished == status \notin {"submitted", "running"}

HopsOf(seq) == {seq[i] : i \in DOMAIN seq}

\* The sum of a sequence of amounts.
Total(amounts) ==
  LET total[i \in 0..Len(amounts)] == IF i = 0 THEN 0 ELSE total[i - 1] + amounts[i]
  IN total[Len(amounts)]

Requests(rs) == Total([i \in DOMAIN rs |-> rs[i].requests])
Runtime(rs, ds) ==
  Total([i \in DOMAIN rs |-> rs[i].runtime]) + Total([i \in DOMAIN ds |-> ds[i].runtime])
FindsOn(url, ds) == {i \in DOMAIN ds : ds[i].source = url}
AttemptsOn(url, hop, ds) == hop.attempts + Cardinality(FindsOn(url, ds))

NoTimeLeft(rs, ds) == Runtime(rs, ds) + Second > MaxRuntime
Exhausted(rs, ds) == Requests(rs) >= MaxRequests \/ NoTimeLeft(rs, ds)
DiscoveryExhausted(url, rs, ds) ==
  Runtime(rs, ds) >= MaxRuntime \/ AttemptsOn(url, Last(rs), ds) >= MaxAttempts

\* Every URL a completed hop was asked for or ended at.
Seen(rs) == UNION {{hop.requested, hop.final} : hop \in HopsOf(rs)}

\* Mutant of Verdict: loops are not noticed.
VerdictWithoutLoops(find, seen, rs) ==
  CASE find.links = "failed" -> "terminal_html"
    [] find.links = "many" -> "multiple_navigation_targets"
    [] find.links \in Urls /\ Len(rs) > MaxHops -> "navigation_hop_limit"
    [] OTHER -> None

\* The next step after evidence on the latest page: go on, or why not.
Verdict(find, seen, rs) ==
  CASE find.links = "failed" -> "terminal_html"
    [] find.links = "many" -> "multiple_navigation_targets"
    [] find.links \in seen -> "navigation_loop"
    [] find.links \notin seen /\ find.links \in Urls /\ Len(rs) > MaxHops -> "navigation_hop_limit"
    [] OTHER -> None

-----------------------------------------------------------------------------
(* The executing thread *)

Init ==
  /\ status = "submitted" /\ cancel = None
  /\ hops = <<>> /\ finds = <<>> /\ outcome = None /\ granted = {}
  /\ pc = "idle" /\ results = <<>> /\ discovery = <<>>
  /\ current = Seed /\ visited = {} /\ stop = None /\ evidence = None
  /\ asking = {} /\ crashes = 0

Claim ==
  /\ pc = "idle" /\ status = "submitted"
  /\ status' = "running" /\ pc' = "resume"
  /\ UNCHANGED <<cancel, hops, finds, outcome, granted, results, discovery, current,
                 visited, stop, evidence, asking, crashes>>

\* Mutant of Resume: the durable discoveries, and the time they took, are forgotten.
ResumeWithoutFinds ==
  /\ pc = "resume" /\ pc' = "loop"
  /\ results' = hops /\ discovery' = <<>> /\ visited' = Seen(hops)
  /\ LET page == IF hops = <<>> THEN Seed ELSE Last(hops).final
         known == /\ hops # <<>> /\ finds # <<>>
                  /\ Last(hops).source = "html" /\ Last(finds).source = page
         verdict == IF known THEN Verdict(Last(finds), Seen(hops), hops) ELSE None
     IN /\ stop' = verdict
        /\ current' = IF known /\ verdict = None THEN Last(finds).links ELSE page
  /\ UNCHANGED <<durable, evidence, asking, crashes>>

\* The durable prefix decides where to go on: at the page it ends with, or past
\* it when that page's evidence is durable too.
Resume ==
  /\ pc = "resume" /\ pc' = "loop"
  /\ results' = hops /\ discovery' = finds /\ visited' = Seen(hops)
  /\ LET page == IF hops = <<>> THEN Seed ELSE Last(hops).final
         known == /\ hops # <<>> /\ finds # <<>>
                  /\ Last(hops).source = "html" /\ Last(finds).source = page
         verdict == IF known THEN Verdict(Last(finds), Seen(hops), hops) ELSE None
     IN /\ stop' = verdict
        /\ current' = IF known /\ verdict = None THEN Last(finds).links ELSE page
  /\ UNCHANGED <<durable, evidence, asking, crashes>>

Halt(reason) == stop' = reason /\ pc' = "finish"

\* Mutant of Top: the cancellation flag is not polled.
TopUnpolled ==
  /\ pc = "loop"
  /\ IF stop # None THEN pc' = "finish" /\ UNCHANGED stop
     ELSE IF results # <<>> /\ current \in visited THEN pc' = "examine" /\ UNCHANGED stop
     ELSE IF Exhausted(results, discovery) THEN Halt("budget_exhausted")
     ELSE pc' = "acquire" /\ UNCHANGED stop
  /\ UNCHANGED <<durable, results, discovery, current, visited, evidence, asking, crashes>>

\* The top of the loop: a reason to stop, a cancellation, a page already acquired,
\* an exhausted budget, or one more acquisition.
Top ==
  /\ pc = "loop"
  /\ IF stop # None THEN pc' = "finish" /\ UNCHANGED stop
     ELSE IF cancel # None THEN Halt("cancelled")
     ELSE IF results # <<>> /\ current \in visited THEN pc' = "examine" /\ UNCHANGED stop
     ELSE IF Exhausted(results, discovery) THEN Halt("budget_exhausted")
     ELSE pc' = "acquire" /\ UNCHANGED stop
  /\ UNCHANGED <<durable, results, discovery, current, visited, evidence, asking, crashes>>

Hop(answer, cost) ==
  [requested |-> current, final |-> answer.final, source |-> answer.source, links |-> answer.links,
   clean |-> answer.clean, requests |-> cost.requests, runtime |-> cost.runtime,
   attempts |-> cost.attempts]

\* Mutant of Acquire: what a hop spent is compared with the whole budget.
AcquireAfresh ==
  /\ pc = "acquire" /\ pc' = "checkpoint"
  /\ \E answer \in Answers, cost \in Costs :
       /\ cost.requests > MaxRequests => answer.source = "none"
       /\ results' = Append(results, Hop(answer, cost))
  /\ UNCHANGED <<durable, discovery, current, visited, stop, evidence, asking, crashes>>

\* run_single_target_bounded under what the earlier hops left of the budget.  A tool
\* may report more than that: its attempt has failed then, no other is eligible, and
\* the hop, its usage included, is without a source, as it is when a cancellation is
\* seen during the acquisition.  (Runtime is free: Transform, which comes after the
\* comparison, may overrun it with the source kept.)
Acquire ==
  /\ pc = "acquire" /\ pc' = "checkpoint"
  /\ \E answer \in Answers, cost \in Costs :
       /\ cost.requests > MaxRequests - Requests(results) => answer.source = "none"
       /\ results' = Append(results, Hop(answer, cost))
  /\ UNCHANGED <<durable, discovery, current, visited, stop, evidence, asking, crashes>>

\* The workflow, the store or the repository raises instead; before the loop
\* nothing handles it, and the row stays running until a restart.
Raise ==
  /\ \/ MayRaise /\ pc \in {"acquire", "examine"} /\ pc' = "fail"
     \/ MayLoseWrites /\ pc \in {"loop", "checkpoint", "save", "finish"} /\ pc' = "fail"
     \/ MayLoseWrites /\ pc = "resume" /\ pc' = "lost"
  /\ UNCHANGED <<durable, results, discovery, current, visited, stop, evidence, asking, crashes>>

\* Mutant of Checkpoint: the hop is committed without its grants.
CheckpointUngranted ==
  /\ pc = "checkpoint"
  /\ status = "running" /\ Len(results) = Len(hops) + 1
  /\ hops' = Append(hops, Last(results))
  /\ pc' = "examine"
  /\ UNCHANGED <<status, cancel, finds, outcome, granted, results, discovery, current, visited,
                 stop, evidence, asking, crashes>>

\* One transaction: the hop and the grants of its artifacts.
Checkpoint ==
  /\ pc = "checkpoint"
  /\ status = "running" /\ Len(results) = Len(hops) + 1
  /\ hops' = Append(hops, Last(results))
  /\ granted' = granted \cup (IF Last(results).source = "none" THEN {} ELSE {Last(results)})
  /\ pc' = "examine"
  /\ UNCHANGED <<status, cancel, finds, outcome, results, discovery, current, visited,
                 stop, evidence, asking, crashes>>

\* The newest page, whether just acquired or resumed at: a terminal page, no
\* budget left for discovery, or discovery, whose tool may be unavailable.
Examine ==
  /\ pc = "examine"
  /\ LET hop == Last(results) IN
       IF hop.source = "none"
       THEN Halt("acquisition_failed") /\ UNCHANGED <<current, discovery, evidence>>
       ELSE /\ current' = hop.final
            /\ IF hop.source = "file" \/ ~ Follow
               THEN /\ Halt(IF hop.source = "file" THEN "terminal_file" ELSE "terminal_html")
                    /\ UNCHANGED <<discovery, evidence>>
               ELSE IF DiscoveryExhausted(hop.final, results, discovery)
               THEN Halt("budget_exhausted") /\ UNCHANGED <<discovery, evidence>>
               ELSE \E links \in {"failed", hop.links}, spent \in 1..Second :
                      LET find == [source |-> hop.final, links |-> links, runtime |-> spent]
                          new == discovery = <<>> \/ Last(discovery) # find
                      IN /\ evidence' = find
                         /\ discovery' = IF new THEN Append(discovery, find) ELSE discovery
                         /\ pc' = IF new THEN "save" ELSE "decide"
                         /\ UNCHANGED stop
  /\ UNCHANGED <<durable, results, visited, asking, crashes>>

Save ==
  /\ pc = "save"
  /\ status = "running" /\ Len(discovery) = Len(finds) + 1
  /\ finds' = Append(finds, Last(discovery))
  /\ pc' = "decide"
  /\ UNCHANGED <<status, cancel, hops, outcome, granted, results, discovery, current,
                 visited, stop, evidence, asking, crashes>>

\* Mutant of Decide: the requested URL of a redirected hop is not marked visited.
DecideByFinalUrl ==
  /\ pc = "decide"
  /\ LET verdict == Verdict(evidence, visited \cup {current}, results) IN
       IF verdict # None
       THEN Halt(verdict) /\ UNCHANGED <<current, visited>>
       ELSE /\ visited' = visited \cup {current}
            /\ current' = evidence.links
            /\ pc' = "loop" /\ UNCHANGED stop
  /\ UNCHANGED <<durable, results, discovery, evidence, asking, crashes>>

Decide ==
  /\ pc = "decide"
  /\ LET verdict == Verdict(evidence, visited \cup {current}, results) IN
       IF verdict # None
       THEN Halt(verdict) /\ UNCHANGED <<current, visited>>
       ELSE /\ visited' = visited \cup {Last(results).requested, current}
            /\ current' = evidence.links
            /\ pc' = "loop" /\ UNCHANGED stop
  /\ UNCHANGED <<durable, results, discovery, evidence, asking, crashes>>

Degraded == stop = "cancelled" \/ \E hop \in HopsOf(results) : ~ hop.clean

\* The status of one hop's Result.
StatusOf(hop) ==
  IF hop.source = "none" THEN "failed" ELSE IF hop.clean THEN "completed" ELSE "partial"

FinalStatus ==
  IF results = <<>> THEN "failed"
  ELSE IF Last(results).source # "none"
          /\ (Degraded \/ stop \in {"budget_exhausted", "navigation_hop_limit"})
  THEN "partial" ELSE StatusOf(Last(results))

Finish ==
  /\ pc = "finish" /\ status = "running"
  /\ status' = FinalStatus
  /\ outcome' = [stop |-> stop, hops |-> results, finds |-> discovery]
  /\ pc' = "idle"
  /\ UNCHANGED <<cancel, hops, finds, granted, results, discovery, current, visited, stop,
                 evidence, asking, crashes>>

\* execute_submitted_url_fetch turns any exception into a failure without a
\* Result; when that write raises too the row stays running until a restart.
Fail ==
  /\ pc = "fail"
  /\ \/ status' = "failed" /\ pc' = "idle"
     \/ MayLoseWrites /\ pc' = "lost" /\ UNCHANGED status
  /\ UNCHANGED <<cancel, hops, finds, outcome, granted, results, discovery, current, visited,
                 stop, evidence, asking, crashes>>

-----------------------------------------------------------------------------
(* The others *)

\* The process dies with its locals; the next server requeues the row before its
\* workers start.
Restart ==
  /\ crashes < MaxCrashes /\ crashes' = crashes + 1
  /\ ~ Finished
  /\ status' = "submitted" /\ pc' = "idle"
  /\ asking' = {}
  /\ results' = <<>> /\ discovery' = <<>> /\ current' = Seed /\ visited' = {}
  /\ stop' = None /\ evidence' = None
  /\ UNCHANGED <<cancel, hops, finds, outcome, granted>>

\* cancel_url_fetch reads the row before it takes the lock ...
Ask(c) ==
  /\ c \notin asking /\ ~ Finished /\ cancel = None
  /\ asking' = asking \cup {c}
  /\ UNCHANGED <<durable, locals, crashes>>

\* ... and then writes unless the fetch has finished.
Cancel(c) ==
  /\ c \in asking /\ asking' = asking \ {c}
  /\ cancel' = IF Finished THEN cancel ELSE Len(hops)
  /\ UNCHANGED <<status, hops, finds, outcome, granted, locals, crashes>>

Thread ==
  Claim \/ Resume \/ Top \/ Acquire \/ Checkpoint \/ Examine \/ Save \/ Decide \/ Finish \/ Fail

Next == Thread \/ Raise \/ Restart \/ \E c \in Clients : Ask(c) \/ Cancel(c)

Spec == Init /\ [][Next]_fetchVars

\* The thread that claimed the fetch keeps running, as threads of a live process do.
FairSpec == Spec /\ WF_fetchVars(Thread)

-----------------------------------------------------------------------------
(* Properties *)

\* No URL that a durable hop asked for or ended at is acquired again, however
\* often the process dies in between (run_url_fetch: "without repeating a durably
\* checkpointed hop").
NoHopTwice ==
  \A i, j \in DOMAIN hops : i < j => hops[j].requested \notin {hops[i].requested, hops[i].final}

\* All runs of one fetch share its hops, its tool attempts on each page, of which the
\* acquisition took one, and its requests.  Tools may spend more than they are given:
\* that ends the fetch, without a source from the hop that did it and, however the
\* process dies on the way, as a failure.
RunsShareTheBudget ==
  /\ Len(hops) <= MaxHops + 1
  /\ \A url \in Urls : Cardinality(FindsOn(url, finds)) < MaxAttempts
  /\ Requests(hops) > MaxRequests =>
       /\ Last(hops).source = "none"
       /\ Finished => status = "failed"

\* Whatever was overspent, and by whichever run, nothing begins that the request can no
\* longer pay for: a hop becomes durable only if what all runs had made durable before
\* it left a request and a whole second, and a discovery only if it left time.
NothingBeginsUnaffordable ==
  [][ /\ hops' # hops => /\ Requests(hops) < MaxRequests
                         /\ Runtime(hops, finds) + Second <= MaxRuntime
      /\ finds' # finds => Runtime(hops, finds) < MaxRuntime ]_fetchVars

\* An outcome with a Result contains every durable hop and discovery, of all runs,
\* and nothing else; its contents are readable by the caller.
OutcomeIsDurable ==
  outcome # None =>
    /\ outcome.hops = hops /\ outcome.finds = finds
    /\ \A hop \in HopsOf(outcome.hops) : hop.source # "none" => hop \in granted

\* A cancellation that is in the row lets at most the hop under way become durable,
\* across crashes too, and no Result of such a fetch claims success by navigating on.
CancelStopsAtTheNextHop == cancel # None => Len(hops) <= cancel + 1

\* Navigation terminates: whatever the pages link to, a fetch that was submitted is
\* at last left alone, and then it has ended, unless the write of its end was lost.
FetchEnds ==
  <>[](Finished \/ pc = "lost")
=============================================================================
