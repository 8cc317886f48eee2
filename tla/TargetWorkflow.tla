--------------------------- MODULE TargetWorkflow ---------------------------
(***************************************************************************)
(* One governed target (runtime/workflow.py, run_single_target): the       *)
(* acquisition tools are ranked (tool_registry/eligibility.py), called one *)
(* after another while a failure allows a switch and the budget of the     *)
(* Request lasts, the first acceptable body is committed to the artifact   *)
(* store, and a stored HTML page is transformed once.  A cancellation may  *)
(* arrive between any two steps and is only read where the code reads it.  *)
(***************************************************************************)
EXTENDS Integers, Sequences, FiniteSets

CONSTANTS
  Resources, \* what a Request limits besides its tool attempts: requests, bytes, seconds
  MaxSpend   \* the most one call reports of a resource, whatever it was allowed

ASSUME RuntimeIsLimited == "runtime" \in Resources
ASSUME SpendIsBounded == MaxSpend \in Nat

VARIABLES
  request,  \* the effective Request of this target, and the tools its Registry knows
  phase,    \* where run_single_target is
  pool,     \* acquisition_manifests
  tool,     \* the tool being called
  attempts, \* acquisition and transform attempts, the skipped ones left out
  skipped,  \* recorded_skips
  used,     \* the usage of all attempts
  stored,   \* the observations committed for this target
  errors,   \* what Result.errors adds to the codes of the attempts
  ending,   \* how the run returned
  cancel    \* cancelled(): the cooperative cancellation check

answer == <<attempts, used, stored, errors, ending>>
targetVars == <<request, phase, pool, tool, skipped, answer, cancel>>

\* DEFAULT_ACQUISITION_ORDER
Rank == [web_http |-> 1, playwright |-> 2, cloakbrowser |-> 3]
Tools == DOMAIN Rank

\* Failure codes, as far as the decisions below tell them apart: a broken connection or a
\* body of no use, gateway.closed, a Cloudflare block, a refusal that names a person's
\* rights, another final status, a limit (robots, scope, budget), broken infrastructure.
Codes == {"technical", "closed", "cloudflare", "auth", "status", "limit", "operational"}

\* acquisition_failure_allows_switch
AllowsSwitch(code, by) ==
  code \in {"technical", "closed"} \/ (code = "cloudflare" /\ by = "web_http")

\* Mutant of Followups: a Cloudflare block leaves every tool to follow.
FollowupsAny(code, by) == pool

\* acquisition_followup_candidates
Followups(code, by) ==
  IF code = "cloudflare" /\ by = "web_http" THEN pool \cap {"playwright"} ELSE pool

Amounts == [Resources -> 0..MaxSpend]
Over(spent, r) == used[r] + spent[r] > request.limits[r]
Left(r) == IF used[r] > request.limits[r] THEN 0 ELSE request.limits[r] - used[r]
TriesLeft == request.tries - Len(attempts)

\* _budget_reasons
Exhausted == TriesLeft <= 0 \/ \E r \in Resources : Left(r) = 0

Tried == {attempts[i].tool : i \in DOMAIN attempts}

\* The tools evaluate_eligibility admits: fit ones, of the preferred tool only unless the
\* Request explores, and none once the budget is exhausted.
Eligible ==
  {t \in (pool \cap request.fit) \ Tried :
     ~Exhausted /\ (request.explore \/ t = request.preferred)}

\* rank_eligible_tools, and the method a retrieval insists on.
Ranked ==
  IF request.preferred \in Tried \cup Eligible THEN Eligible \cap request.only ELSE {}

Choice ==
  IF request.preferred \in Ranked THEN request.preferred
  ELSE CHOOSE t \in Ranked : \A o \in Ranked : Rank[t] <= Rank[o]

\* Every tool known to be ineligible is recorded once, and not for want of budget.
Skips ==
  IF request.explore /\ ~Exhausted /\ (Tried # {} \/ Ranked = {})
  THEN request.unfit \ Tried ELSE {}

Attempt(by, code) ==
  [tool |-> by, outcome |-> IF code = "none" THEN "succeeded" ELSE "failed", code |-> code]

Called(code) == Append(attempts, Attempt(tool, code))
Rewritten(code) == [attempts EXCEPT ![Len(attempts)] = Attempt(@.tool, code)]

NoRequest == [limits |-> [r \in Resources |-> 0], tries |-> 0, explore |-> FALSE,
              preferred |-> "web_http", fit |-> {}, unfit |-> {}, only |-> {}, skilled |-> TRUE]

TargetIdle ==
  /\ phase = "idle" /\ pool = {} /\ tool = "none" /\ attempts = <<>> /\ skipped = {}
  /\ used = [r \in Resources |-> 0] /\ stored = {} /\ errors = {} /\ ending = "none"
  /\ cancel = FALSE

\* run_single_target is entered with the limits of its caller already applied.
StartTarget(r) ==
  /\ phase = "idle" /\ phase' = "start" /\ request' = r
  /\ pool' = r.fit \cup r.unfit /\ tool' = "none" /\ attempts' = <<>> /\ skipped' = {}
  /\ used' = [x \in Resources |-> 0] /\ stored' = {} /\ errors' = {} /\ ending' = "none"
  /\ UNCHANGED cancel

\* Its locals are gone once its Result is returned.
LeaveTarget ==
  /\ phase' = "idle" /\ cancel' = FALSE
  /\ request' = [NoRequest EXCEPT !.fit = request.fit, !.unfit = request.unfit]
  /\ pool' = {} /\ tool' = "none" /\ attempts' = <<>> /\ skipped' = {}
  /\ used' = [x \in Resources |-> 0] /\ stored' = {} /\ errors' = {} /\ ending' = "none"

End(how, codes) == phase' = "done" /\ ending' = how /\ errors' = codes
Goto(next) == phase' = next /\ UNCHANGED <<ending, errors>>

-----------------------------------------------------------------------------
(* Acquisition *)

\* A Site Skill the Request, or the Registry, no longer allows rejects the run.
ResolveSkill ==
  /\ phase = "start"
  /\ IF ~request.skilled THEN End("rejected", {"ineligible"}) ELSE Goto("rank")
  /\ UNCHANGED <<request, pool, tool, skipped, attempts, used, stored, cancel>>

\* Nothing is left to call: an exact method that was not eligible, a Request that no tool
\* could serve, or the failure of the last tool called.
Unserved ==
  IF Tried = {} /\ request.only # Tools /\ ~Exhausted THEN End("unavailable", {"method"})
  ELSE IF Tried = {} THEN End("rejected", {"ineligible"})
  ELSE End("unacquired", {IF Exhausted THEN "limit" ELSE attempts[Len(attempts)].code})

\* One turn of the loop, up to the call of a tool.
RankTools ==
  /\ phase = "rank"
  /\ IF cancel
     THEN End("cancelled", {"cancelled"}) /\ UNCHANGED <<tool, skipped>>
     ELSE /\ skipped' = skipped \cup Skips
          /\ IF Ranked = {}
             THEN Unserved /\ UNCHANGED tool
             ELSE Goto("call") /\ tool' = Choice
  /\ UNCHANGED <<request, pool, attempts, used, stored, cancel>>

\* A call reports a body or a failure, and what it spent: more than was left makes a
\* failure of it, whatever it brought.  A cancellation that came meanwhile discards it.
ToolReturns ==
  /\ phase = "call"
  /\ \E spent \in Amounts, reply \in Codes \cup {"none"} :
       LET code == IF \E r \in Resources : Over(spent, r) THEN "limit" ELSE reply IN
       /\ used' = [r \in Resources |-> used[r] + spent[r]]
       /\ \/ /\ cancel
             /\ attempts' = Called(IF code = "none" THEN "cancelled" ELSE code)
             /\ End("cancelled", {"cancelled"}) /\ UNCHANGED pool
          \/ /\ ~cancel /\ code = "none"
             /\ attempts' = Called(code) /\ Goto("commit") /\ UNCHANGED pool
          \/ /\ ~cancel /\ code # "none"
             /\ attempts' = Called(code) /\ pool' = Followups(code, tool)
             /\ IF request.explore /\ AllowsSwitch(code, tool) THEN Goto("rank")
                ELSE End("unacquired", {code})
  /\ UNCHANGED <<request, tool, skipped, stored, cancel>>

-----------------------------------------------------------------------------
(* What becomes of an accepted body *)

\* The body is stored unless a cancellation is seen first, or the store refuses it.
CommitSource ==
  /\ phase = "commit"
  /\ \/ /\ cancel /\ attempts' = Rewritten("cancelled")
        /\ End("cancelled", {"cancelled"}) /\ UNCHANGED stored
     \/ /\ ~cancel /\ attempts' = Rewritten("operational")
        /\ End("uncommitted", {"operational"}) /\ UNCHANGED stored
     \/ /\ ~cancel /\ stored' = {"source"} /\ Goto("source") /\ UNCHANGED attempts
  /\ UNCHANGED <<request, pool, tool, skipped, used, cancel>>

\* Not every source is transformed: it must be HTML, a Transform tool eligible, and an
\* attempt and some time left.  The cancellation is read before and after that decision.
ConsiderTransform ==
  /\ phase = "source"
  /\ \/ cancel /\ End("interrupted", {"cancelled"})
     \/ ~cancel /\ End("stored", {})
     \/ ~cancel /\ TriesLeft > 0 /\ Left("runtime") > 0 /\ Goto("transform")
  /\ UNCHANGED <<request, pool, tool, skipped, attempts, used, stored, cancel>>

BeginTransform ==
  /\ phase = "transform"
  /\ IF cancel THEN End("stored", {"cancelled"}) ELSE Goto("transforming")
  /\ UNCHANGED <<request, pool, tool, skipped, attempts, used, stored, cancel>>

\* The Transform fails, is cancelled, comes too late, cannot be stored, or is stored.
TransformReturns ==
  /\ phase = "transforming"
  /\ \E spent \in 0..MaxSpend, reply \in {"none", "cancelled", "status", "operational"} :
       LET late == spent > Left("runtime") IN
       /\ used' = [used EXCEPT !["runtime"] = @ + spent]
       /\ (reply = "cancelled") => cancel
       /\ (reply = "none") => ~cancel
       /\ \/ /\ reply = "none" /\ ~late
             /\ stored' = stored \cup {"derived"}
             /\ attempts' = Append(attempts, Attempt("transform", "none")) /\ Goto("derived")
          \/ LET code == IF reply = "none" \/ (late /\ reply # "cancelled") THEN "operational"
                         ELSE reply IN
             /\ attempts' = Append(attempts, Attempt("transform", code))
             /\ End("stored", {code}) /\ UNCHANGED stored
  /\ UNCHANGED <<request, pool, tool, skipped, cancel>>

\* A cancellation seen after the derived document was stored keeps it.
FinishTransform ==
  /\ phase = "derived"
  /\ End("stored", IF cancel THEN {"cancelled"} ELSE {})
  /\ UNCHANGED <<request, pool, tool, skipped, attempts, used, stored, cancel>>

TargetStep ==
  \/ ResolveSkill \/ RankTools \/ ToolReturns \/ CommitSource
  \/ ConsiderTransform \/ BeginTransform \/ TransformReturns \/ FinishTransform

\* The status of the Result a run returns.
Status ==
  CASE ending = "rejected" -> "rejected"
    [] ending \in {"unavailable", "unacquired", "cancelled", "uncommitted"} -> "failed"
    [] ending = "interrupted" -> "partial"
    [] ending = "stored" ->
         IF skipped # {} \/ "cancelled" \in errors
            \/ \E i \in DOMAIN attempts : attempts[i].outcome # "succeeded"
         THEN "partial" ELSE "completed"
    [] OTHER -> "none"

\* The codes a Result carries: those of its attempts, and its errors.
ResultCodes == {attempts[i].code : i \in DOMAIN attempts} \cup errors

-----------------------------------------------------------------------------
(* Properties *)

Acquisitions == {i \in DOMAIN attempts : attempts[i].tool \in Tools}

\* Switching between tools (README, "explore_all_tools"): every tool is called at most
\* once and is a fit one the caller allowed; the preferred one comes first; another
\* follows only if the Request explores and only after a failure that permits it; after
\* a Cloudflare block of the HTTP tool nothing but the ordinary browser follows.
SwitchIsAllowed ==
  /\ \A i \in Acquisitions : attempts[i].tool \in request.fit \cap request.only
  /\ \A i, j \in Acquisitions : i < j =>
       /\ request.explore /\ attempts[i].tool # attempts[j].tool
       /\ attempts[j].tool # request.preferred
       /\ AllowsSwitch(attempts[i].code, attempts[i].tool)
       /\ (attempts[i].code = "cloudflare") => attempts[j].tool = "playwright"

\* Nothing is stored for a target that overspent its requests or its bytes, and nothing
\* derived for one that overran its time; the attempts never exceed their number.
StoredIsPaidFor ==
  /\ Len(attempts) <= request.tries
  /\ stored # {} => \A r \in Resources \ {"runtime"} : used[r] <= request.limits[r]
  /\ "derived" \in stored => used["runtime"] <= request.limits["runtime"]

\* The status tells what the store holds: a completed or partial run has stored its
\* source, a failed or rejected one nothing, and a completed one failed at nothing and
\* was not seen to be cancelled.
StatusTellsTheStore ==
  phase = "done" =>
    /\ Status \in {"completed", "partial"} <=> "source" \in stored
    /\ (Status = "completed") =>
         "cancelled" \notin ResultCodes /\ ResultCodes \subseteq {"none"}

=============================================================================
