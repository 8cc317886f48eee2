----------------------------- MODULE Retrieval -----------------------------
(***************************************************************************)
(* The operations that run several targets under one authorization:        *)
(* RuntimeService.retrieve (runtime/service.py), a primary Request and its *)
(* alternates executed one after another as Jobs with one budget and one   *)
(* deadline, and run_agent_assisted_target (runtime/workflow.py), a target *)
(* whose failure lets an outside explorer propose one more acquisition     *)
(* within what the first one left.                                         *)
(***************************************************************************)
EXTENDS TargetWorkflow

CONSTANTS
  Budget,     \* what the primary Request grants, per resource
  Lesser,     \* a smaller grant an alternate may come with
  Tries,      \* max_tool_attempts_per_target of the primary Request
  Alternates  \* the number of alternates

ASSUME GrantsAreAmounts ==
  /\ Budget \in [Resources -> Nat \ {0}] /\ Lesser \in [Resources -> Nat \ {0}]
  /\ Tries \in Nat \ {0} /\ Alternates \in Nat

VARIABLES
  operation, \* "retrieve" or "assist"
  exact,     \* the one tool of an exact method, or all of them
  at,        \* where the operation is
  jobs,      \* the Results so far
  spent,     \* their usage
  calls,     \* their tool attempts
  late,      \* seconds left before the deadline
  outcome    \* what the caller is answered

opVars == <<operation, exact, jobs, spent, calls, outcome>>
vars == <<targetVars, opVars, at, late>>

Lower(a, b) == IF a <= b THEN a ELSE b

Init ==
  /\ TargetIdle
  /\ \E fit \in SUBSET Tools : request = [NoRequest EXCEPT !.fit = fit, !.unfit = Tools \ fit]
  /\ operation \in {"retrieve", "assist"}
  /\ exact \in IF operation = "assist" THEN {Tools} ELSE {Tools} \cup {{t} : t \in Tools}
  /\ at = "next" /\ jobs = <<>> /\ outcome = "none"
  /\ spent = [r \in Resources |-> 0] /\ calls = 0 /\ late = Budget["runtime"]

\* The Requests a caller may send: exploring or not, preferring the HTTP tool or the one
\* its Site Skill names, if that Skill may still be used.
Asked(limits, tries) ==
  [limits : {limits}, tries : {tries}, explore : BOOLEAN,
   preferred : request.fit \cup {"web_http"}, fit : {request.fit}, unfit : {request.unfit},
   only : {exact}, skilled : BOOLEAN]

-----------------------------------------------------------------------------
(* retrieve *)

\* Mutant of NextRequest: an alternate is granted the primary's budget again.
NextRequestFresh ==
  /\ operation = "retrieve" /\ at = "next"
  /\ late' \in 0..late
  /\ IF late' = 0
     THEN at' = "answer" /\ UNCHANGED targetVars
     ELSE /\ at' = "running"
          /\ \E r \in Asked([Budget EXCEPT !["runtime"] = late'], Tries - calls) : StartTarget(r)
  /\ UNCHANGED opVars

\* The next Request, within what its predecessors left and before the deadline.
NextRequest ==
  /\ operation = "retrieve" /\ at = "next"
  /\ late' \in 0..late
  /\ \E own \in IF jobs = <<>> THEN {Budget} ELSE {Budget, Lesser} :
       LET limits == [r \in Resources |->
             IF r = "runtime" THEN Lower(own[r], late') ELSE Lower(own[r], Budget[r] - spent[r])]
       IN  IF calls >= Tries \/ \E r \in Resources : limits[r] <= 0
           THEN at' = "answer" /\ UNCHANGED targetVars
           ELSE at' = "running" /\ \E r \in Asked(limits, Tries - calls) : StartTarget(r)
  /\ UNCHANGED opVars

\* retrieval_error_code: what is answered as a failure.
IsError(job) ==
  \/ job.status = "rejected"
  \/ job.codes \cap {"cancelled", "operational"} # {}
  \/ job.artifacts = {} /\ job.codes \cap {"limit", "closed"} # {}

\* _retrieval_allows_alternate
AllowsAlternate(job) == ~IsError(job) /\ "auth" \notin job.codes

\* The Result of the target that ended; a cancellation that nothing saw before the Job
\* is finalized replaces its errors (cancelled_result).
Ended(seen) ==
  IF seen /\ "cancelled" \notin errors
  THEN [status |-> IF stored = {} THEN "failed" ELSE "partial", artifacts |-> stored,
        codes |-> {attempts[i].code : i \in DOMAIN attempts} \cup {"cancelled"}]
  ELSE [status |-> Status, artifacts |-> stored, codes |-> ResultCodes]

Account(job) ==
  /\ LeaveTarget
  /\ jobs' = Append(jobs, job)
  /\ spent' = [r \in Resources |-> spent[r] + used[r]]
  /\ calls' = calls + Len(attempts)
  /\ UNCHANGED <<operation, exact, late>>

\* Mutant of JobEnds: any Job without an artifact lets its alternate run.
JobEndsAnyway ==
  /\ operation = "retrieve" /\ at = "running" /\ phase = "done"
  /\ Account(Ended(cancel))
  /\ at' = IF stored # {} \/ Len(jobs) = Alternates THEN "answer" ELSE "next"
  /\ UNCHANGED outcome

\* A Job has ended: the next alternate runs only if nothing was stored and the site, not
\* an authority, a budget or the machinery, refused.
JobEnds ==
  /\ operation = "retrieve" /\ at = "running" /\ phase = "done"
  /\ LET job == Ended(cancel) IN
     /\ Account(job)
     /\ at' = IF job.artifacts # {} \/ ~AllowsAlternate(job)
                 \/ exact # Tools \/ Len(jobs) = Alternates
              THEN "answer" ELSE "next"
  /\ UNCHANGED outcome

\* The workflow raises: the Job fails, and the exception leaves the operation.
JobRaises ==
  /\ operation = "retrieve" /\ at = "running" /\ phase \notin {"idle", "done"}
  /\ Account([status |-> "failed", artifacts |-> {}, codes |-> {"operational"}])
  /\ at' = "done" /\ outcome' = "raised"

\* project_retrieval, unless the last Job is a failure.
Answer ==
  /\ operation = "retrieve" /\ at = "answer"
  /\ at' = "done"
  /\ outcome' =
       IF jobs = <<>> THEN "budget_exhausted"
       ELSE IF IsError(jobs[Len(jobs)]) THEN "failed"
       ELSE IF \E i \in DOMAIN jobs : jobs[i].artifacts # {} THEN "FETCHED"
       ELSE "UNRESOLVED"
  /\ UNCHANGED <<targetVars, operation, exact, jobs, spent, calls, late>>

-----------------------------------------------------------------------------
(* run_agent_assisted_target *)

AssistFirst ==
  /\ operation = "assist" /\ at = "next"
  /\ \E r \in Asked(Budget, Tries) : StartTarget(r)
  /\ at' = "running"
  /\ UNCHANGED <<opVars, late>>

\* Mutant of AssistFails: a first run that needs no proposal is never answered.
AssistFailsOnly ==
  /\ operation = "assist" /\ at = "running" /\ phase = "done" /\ ending = "unacquired"
  /\ Account(Ended(FALSE))
  /\ at' = "propose" /\ UNCHANGED outcome

\* Only a failed acquisition (_is_acquisition_failure) is worth a proposal.
AssistFails ==
  /\ operation = "assist" /\ at = "running" /\ phase = "done"
  /\ Account(Ended(FALSE))
  /\ IF ending = "unacquired" /\ \E i \in DOMAIN attempts : attempts[i].outcome = "failed"
     THEN at' = "propose" /\ UNCHANGED outcome
     ELSE at' = "done" /\ outcome' = "not_needed"

\* A proposal: a URL (this target's or another in scope), a tool, and budgets.
Proposals == [same : BOOLEAN, tool : Tools, limits : Amounts, tries : 1..2]

\* _authorize_action, over what the first run and the explorer's own time left.
Authorized(p, pause) ==
  /\ p.tries = 1 /\ p.tries <= Tries - IF p.same THEN calls ELSE 0
  /\ \A r \in Resources :
       /\ p.limits[r] > 0
       /\ p.limits[r] + spent[r] + (IF r = "runtime" THEN pause ELSE 0) <= Budget[r]
  /\ p.tool = "web_http" /\ p.tool \in request.fit

\* The explorer proposes, or raises, or is cancelled; what is not authorized is refused.
Propose ==
  /\ operation = "assist" /\ at = "propose"
  /\ \/ /\ at' = "done" /\ outcome' = "refused"
        /\ UNCHANGED <<targetVars, operation, exact, jobs, spent, calls, late>>
     \/ \E p \in Proposals, pause \in 0..1 :
          /\ Authorized(p, pause)
          /\ StartTarget([request EXCEPT !.limits = p.limits, !.tries = p.tries,
                            !.explore = FALSE, !.preferred = p.tool, !.skilled = TRUE])
          /\ at' = "acting" /\ UNCHANGED <<opVars, late>>

\* The action's Result is combined with the first one.
ActionEnds ==
  /\ operation = "assist" /\ at = "acting" /\ phase = "done"
  /\ Account(Ended(FALSE))
  /\ at' = "done"
  /\ outcome' \in IF stored = {} THEN {"execution_failed"} ELSE {"succeeded", "unverified"}

-----------------------------------------------------------------------------

RunTarget == TargetStep /\ UNCHANGED <<opVars, at, late>>

\* The owner cancels the Job that is running.
CancelJob ==
  /\ operation = "retrieve" /\ at = "running" /\ ~cancel
  /\ cancel' = TRUE
  /\ UNCHANGED <<request, phase, pool, tool, skipped, answer, opVars, at, late>>

Step ==
  \/ NextRequest \/ RunTarget \/ JobEnds \/ JobRaises \/ Answer
  \/ AssistFirst \/ AssistFails \/ Propose \/ ActionEnds

Next == Step \/ CancelJob

\* Every step is the executing thread's: a call of a tool returns, its runner sees to it.
Spec == Init /\ [][Next]_vars /\ WF_vars(Step)

-----------------------------------------------------------------------------
(* Properties *)

TotalSpent(r) == spent[r] + used[r]

\* One-shot alternates share the original operation's remaining budgets (README,
\* "Structured retrieval"), and so does an authorized proposal: whatever the earlier
\* targets of the operation spent, nothing is stored beyond what the primary Request
\* granted, and no more tools are called.
AlternatesShareTheBudget ==
  /\ (operation = "retrieve") => calls + Len(attempts) <= Tries
  /\ (stored # {} \/ \E i \in DOMAIN jobs : jobs[i].artifacts # {}) =>
       \A r \in Resources \ {"runtime"} : TotalSpent(r) <= Budget[r]

\* What is answered is what the Jobs show: FETCHED if and only if the last of them, and
\* no other, stored something and nothing was cancelled or broken; UNRESOLVED only if
\* every call of every Job met an expected refusal of the site.
AnswersAreEarned ==
  /\ \A i \in DOMAIN jobs : jobs[i].artifacts # {} => i = Len(jobs)
  /\ (outcome = "FETCHED") =>
       jobs[Len(jobs)].artifacts # {} /\ jobs[Len(jobs)].status \in {"completed", "partial"}
  /\ (outcome \in {"FETCHED", "UNRESOLVED"}) =>
       \A i \in DOMAIN jobs : jobs[i].codes \cap {"cancelled", "operational"} = {}
  /\ (outcome = "UNRESOLVED") =>
       \A i \in DOMAIN jobs :
         jobs[i].artifacts = {} /\ jobs[i].codes \cap {"limit", "closed"} = {}

\* The whole operation, its alternates and its proposal included, stays in its budget, and
\* what it could not pay for it did not store.
BudgetIsKept == AlternatesShareTheBudget /\ StoredIsPaidFor

\* A Job's status tells what it stored, and the answer tells what its Jobs say.
AnswersAreTrue == StatusTellsTheStore /\ AnswersAreEarned

\* Every operation is answered.
RetrievalEnds == <>(at = "done")

=============================================================================
