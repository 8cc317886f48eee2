--------------------------- MODULE JobRepository ---------------------------
(***************************************************************************)
(* The durable Job table of runtime/jobs.py (JobRepository), in the SQLite *)
(* mode that RuntimeService.open uses.  Every action is one transaction:   *)
(* BEGIN IMMEDIATE .. COMMIT on the database file, so transactions of      *)
(* different threads and of different processes never interleave.  The     *)
(* callers are arbitrary here: any caller may make any call with any       *)
(* arguments and any wall-clock reading, in any order.  A call that the    *)
(* code refuses or answers from what it finds changes nothing and is a     *)
(* stuttering step.                                                        *)
(***************************************************************************)
EXTENDS Naturals, FiniteSets

CONSTANTS
  JobIds,     \* identifiers, ordered as the ORDER BY job_id of the code orders them
  Callers,    \* authenticated caller identities
  Keys,       \* idempotency keys
  Requests,   \* fingerprints of canonical Requests
  Artifacts,  \* artifact identifiers
  Tokens,     \* claim tokens: 256 random bits, assumed never to repeat
  Times,      \* UTC timestamps, in whole seconds as the code writes them
  OtherCodes, \* safe error codes besides the two the repository knows
  Results,    \* the Results an execution may present
  None        \* SQL NULL

ASSUME JobIdsAreOrdered == JobIds \subseteq Nat
ASSUME TimesAreOrdered == Times \subseteq Nat
ASSUME NoneIsNothing ==
  None \notin Times \cup Callers \cup Keys \cup Requests \cup Tokens /\ None \notin Results

VARIABLES
  jobs,    \* the jobs table, one row per identifier (status "absent": no row)
  events,  \* the job_events table: the numbered events of each Job
  grants   \* the job_artifact_grants table

vars == <<jobs, events, grants>>

-----------------------------------------------------------------------------
(* Rows *)

Terminal == {"completed", "partial", "rejected", "failed"}
Statuses == {"submitted", "running"} \cup Terminal

Cancelled == "runtime.cancelled"
Interrupted == "service.restart_interrupted"
Codes == {Cancelled, Interrupted} \cup OtherCodes

ASSUME NoneIsNoCode == None \notin Codes

Opt(S) == S \cup {None}

\* What a transition looks at in a Result: its status and run, the code of its
\* error and of its first failed attempt, its artifacts, and the first and last
\* of the times it mentions.
WellFormed(r) ==
  /\ r.from <= r.to
  /\ r.artifacts # {} <=> r.status \in {"completed", "partial"}
  /\ r.status = "completed" => r.error = None /\ r.attempt = None
  /\ r.status = "partial" => r.error # None \/ r.attempt # None
  /\ r.status \in {"rejected", "failed"} => r.error # None

ResultRecords ==
  [run : JobIds, status : Terminal, error : Opt(Codes), attempt : Opt(Codes),
   artifacts : SUBSET Artifacts, from : Times, to : Times]

ASSUME ResultsAreWellFormed == \A r \in Results : r \in ResultRecords /\ WellFormed(r)

FailureCode(r) == IF r.error # None THEN r.error ELSE r.attempt

Rows ==
  [status : Statuses \cup {"absent"}, submittedAt : Opt(Times), startedAt : Opt(Times),
   finishedAt : Opt(Times), result : Opt(Results), failure : Opt(Codes),
   request : Opt(Requests), caller : Opt(Callers), key : Opt(Keys),
   cancelAt : Opt(Times), token : Opt(Tokens)]

NoRow ==
  [status |-> "absent", submittedAt |-> None, startedAt |-> None, finishedAt |-> None,
   result |-> None, failure |-> None, request |-> None, caller |-> None, key |-> None,
   cancelAt |-> None, token |-> None]

Exists(j) == jobs[j].status # "absent"

Events == [sequence : 1..3, previous : Opt(Statuses), status : Statuses, at : Times]
Event(seq, prev, s, at) == [sequence |-> seq, previous |-> prev, status |-> s, at |-> at]

\* The only event history a row may have.
ExpectedEvents(row) ==
  (IF row.status = "absent" THEN {} ELSE {Event(1, None, "submitted", row.submittedAt)})
    \cup (IF row.startedAt = None THEN {} ELSE {Event(2, "submitted", "running", row.startedAt)})
    \cup (IF row.finishedAt = None THEN {} ELSE {Event(3, "running", row.status, row.finishedAt)})

\* len(_expected_events(job)) + 1, for a Job that has not finished.
NextSequence(row) == IF row.startedAt = None THEN 2 ELSE 3

-----------------------------------------------------------------------------
(* The three checks of a transition, in the order the code makes them *)

\* A queued Request is started by claiming it, and a claimed row is updated
\* only by the holder of its token.
ClaimHeld(row, s, token) ==
  /\ ~ (row.status = "submitted" /\ s = "running" /\ row.request # None)
  /\ row.token # None => token = row.token

\* Mutant of CancelHonoured: only completed Results are fenced.
CancelHonouredByCompleted(row, s, r, code) ==
  row.cancelAt # None /\ s = "completed" => r # None /\ r.error = Cancelled

\* Once cancellation is requested, a Job ends with a cancelled Result or by
\* restart reconciliation.
CancelHonoured(row, s, r, code) ==
  row.cancelAt # None /\ s \in Terminal =>
    \/ s = "failed" /\ r = None /\ code = Interrupted
    \/ r # None /\ r.error = Cancelled

\* The lifecycle and its evidence: submitted, running, then one terminal status
\* whose Result belongs to this run, agrees with it and lies in its time window.
SnapshotLegal(j, row, s, at, r, code) ==
  \/ /\ row.status = "submitted" /\ s = "running"
     /\ r = None /\ code = None
     /\ at >= row.submittedAt
  \/ /\ row.status = "running" /\ s \in Terminal
     /\ at >= row.startedAt
     /\ \/ r = None /\ s = "failed" /\ code = Interrupted
        \/ /\ r # None
           /\ r.status = s /\ r.run = j
           /\ row.startedAt <= r.from /\ r.to <= at
           /\ code = FailureCode(r)

Snapshot(row, s, at, r, code) ==
  [row EXCEPT !.status = s,
              !.startedAt = IF s = "running" THEN at ELSE row.startedAt,
              !.finishedAt = IF s \in Terminal THEN at ELSE None,
              !.result = r,
              !.failure = code]

Accepts(j, s, at, r, code, token) ==
  /\ ClaimHeld(jobs[j], s, token)
  /\ CancelHonoured(jobs[j], s, r, code)
  /\ SnapshotLegal(j, jobs[j], s, at, r, code)

\* The one refusal its callers act upon: job.cancel_requested.
RefusesForCancel(j, s, r, code, token) ==
  ClaimHeld(jobs[j], s, token) /\ ~ CancelHonoured(jobs[j], s, r, code)

-----------------------------------------------------------------------------
(* Operations *)

Init ==
  /\ jobs = [j \in JobIds |-> NoRow]
  /\ events = [j \in JobIds |-> {}]
  /\ grants = {}

Write(j, row) == jobs' = [jobs EXCEPT ![j] = row]
Log(j, evs) == events' = [events EXCEPT ![j] = @ \cup evs]

\* Submission without a Request: RuntimeService.run drives such a Job itself.
Submit(j, at) ==
  /\ ~ Exists(j)
  /\ Write(j, [NoRow EXCEPT !.status = "submitted", !.submittedAt = at])
  /\ Log(j, {Event(1, None, "submitted", at)})
  /\ UNCHANGED grants

\* Mutant of FreshKey: a key is free again once its Job has ended.
FreshKeyAmongLive(c, k) ==
  \A i \in JobIds : ~ (jobs[i].caller = c /\ jobs[i].key = k /\ jobs[i].status \notin Terminal)

\* The caller's key is not in use yet.  When it is, the call returns the Job
\* found, or refuses a different Request under the same key.
FreshKey(c, k) == \A i \in JobIds : ~ (jobs[i].caller = c /\ jobs[i].key = k)

Submitted(c, k, q, at) ==
  [NoRow EXCEPT !.status = "submitted", !.submittedAt = at,
                !.request = q, !.caller = c, !.key = k]

SubmitRequest(j, c, k, q, at) ==
  /\ FreshKey(c, k) /\ ~ Exists(j)
  /\ Write(j, Submitted(c, k, q, at))
  /\ Log(j, {Event(1, None, "submitted", at)})
  /\ UNCHANGED grants

FreshToken(t) == \A i \in JobIds : jobs[i].token # t

\* A Job published as already running: no other claimant ever sees it queued.
SubmitAndClaim(j, c, k, q, at, t) ==
  /\ FreshKey(c, k) /\ ~ Exists(j) /\ FreshToken(t)
  /\ Write(j, [Submitted(c, k, q, at) EXCEPT !.status = "running", !.startedAt = at, !.token = t])
  /\ Log(j, {Event(1, None, "submitted", at), Event(2, "submitted", "running", at)})
  /\ UNCHANGED grants

Claimable == {j \in JobIds : jobs[j].status = "submitted" /\ jobs[j].request # None}

Precedes(i, j) ==
  \/ jobs[i].submittedAt < jobs[j].submittedAt
  \/ jobs[i].submittedAt = jobs[j].submittedAt /\ i <= j

\* Mutant of ClaimNext: a Job is claimed at a time before its submission.
ClaimNextAnyTime(j, at, t) ==
  /\ j \in Claimable /\ \A i \in Claimable : Precedes(j, i)
  /\ FreshToken(t)
  /\ Write(j, [Snapshot(jobs[j], "running", at, None, None) EXCEPT !.token = t])
  /\ Log(j, {Event(2, "submitted", "running", at)})
  /\ UNCHANGED grants

\* Mutant of ClaimNext: the token is written, the status is not.
ClaimNextStillQueued(j, at, t) ==
  /\ j \in Claimable /\ \A i \in Claimable : Precedes(j, i)
  /\ SnapshotLegal(j, jobs[j], "running", at, None, None)
  /\ FreshToken(t)
  /\ Write(j, [jobs[j] EXCEPT !.token = t])
  /\ UNCHANGED <<events, grants>>

\* The oldest queued Request; a clock behind its submission time refuses the
\* claim (job.time_invalid), it does not pass on to the next one.
ClaimNext(j, at, t) ==
  /\ j \in Claimable /\ \A i \in Claimable : Precedes(j, i)
  /\ SnapshotLegal(j, jobs[j], "running", at, None, None)
  /\ FreshToken(t)
  /\ Write(j, [Snapshot(jobs[j], "running", at, None, None) EXCEPT !.token = t])
  /\ Log(j, {Event(2, "submitted", "running", at)})
  /\ UNCHANGED grants

\* Mutant of Cancel: an ended Job is cancelled too.
CancelAnyTime(j, at) ==
  /\ Exists(j) /\ jobs[j].cancelAt = None
  /\ Write(j, [jobs[j] EXCEPT !.cancelAt = at])
  /\ UNCHANGED <<events, grants>>

Cancel(j, at) ==
  /\ jobs[j].status \in {"submitted", "running"}
  /\ jobs[j].cancelAt = None
  /\ Write(j, [jobs[j] EXCEPT !.cancelAt = at])
  /\ UNCHANGED <<events, grants>>

\* Mutant of GrantsOf: partial Results are forgotten.
GrantsOfCompleted(j, row) ==
  IF row.caller = None \/ row.status # "completed" THEN {}
  ELSE {<<j, row.caller, a>> : a \in row.result.artifacts}

\* INSERT OR IGNORE of the grants of a terminal Result, for an owned Job.
GrantsOf(j, row) ==
  IF row.caller = None \/ row.result = None THEN {}
  ELSE {<<j, row.caller, a>> : a \in row.result.artifacts}

Transition(j, s, at, r, code, token) ==
  /\ Exists(j)
  /\ Accepts(j, s, at, r, code, token)
  /\ LET row == Snapshot(jobs[j], s, at, r, code) IN
       /\ Write(j, row)
       /\ Log(j, {Event(NextSequence(jobs[j]), jobs[j].status, s, at)})
       /\ grants' = grants \cup GrantsOf(j, row)

\* One Job of reconcile, which fails every running Job with that Job's own token.
Interrupt(j, at) == Transition(j, "failed", at, None, Interrupted, jobs[j].token)

Next ==
  \E j \in JobIds, at \in Times :
    \/ Submit(j, at)
    \/ \E c \in Callers, k \in Keys, q \in Requests :
         \/ SubmitRequest(j, c, k, q, at)
         \/ \E t \in Tokens : SubmitAndClaim(j, c, k, q, at, t)
    \/ \E t \in Tokens : ClaimNext(j, at, t)
    \/ Cancel(j, at)
    \/ \E s \in Statuses, r \in Opt(Results), code \in Opt(Codes), t \in Opt(Tokens) :
         Transition(j, s, at, r, code, t)

Spec == Init /\ [][Next]_vars

-----------------------------------------------------------------------------
(* Reading back *)

\* _job_from_row rebuilds a row by replaying it from its submission.  These are
\* the two earlier rows it passes through.
Unstarted(row) ==
  [row EXCEPT !.status = "submitted", !.startedAt = None, !.finishedAt = None,
              !.result = None, !.failure = None, !.token = None]

Started(row) ==
  [row EXCEPT !.status = "running", !.finishedAt = None, !.result = None, !.failure = None]

\* The replay is legal step by step and gives back the row, in every column.
Readable(j, row) ==
  \/ row.status = "submitted" /\ row = Unstarted(row)
  \/ /\ row.status \in {"running"} \cup Terminal
     /\ row.startedAt # None
     /\ SnapshotLegal(j, Unstarted(row), "running", row.startedAt, None, None)
     /\ \/ row.status = "running" /\ row = Started(row)
        \/ /\ row.status \in Terminal /\ row.finishedAt # None
           /\ SnapshotLegal(j, Started(row), row.status, row.finishedAt, row.result, row.failure)

CallerHasArtifact(c, a) == \E j \in JobIds : <<j, c, a>> \in grants

-----------------------------------------------------------------------------
(* Properties *)

\* Rows, event histories and grants keep their shape.
TypeOK ==
  /\ jobs \in [JobIds -> Rows]
  /\ events \in [JobIds -> SUBSET Events]
  /\ grants \subseteq JobIds \X Callers \X Artifacts

\* No sequence of accepted calls makes a Job unreadable: _load_job rebuilds every
\* row from its submission and _load_events compares its history, and neither
\* ever raises job.persisted_invalid for a row the repository itself wrote.
RowsStayReadable ==
  \A j \in JobIds :
    /\ Exists(j) => Readable(j, jobs[j])
    /\ events[j] = ExpectedEvents(jobs[j])

\* An acknowledged cancellation is never answered by an ordinary outcome: the Job
\* ends with a Result that says runtime.cancelled, or interrupted by a restart.
CancellationFence ==
  \A j \in JobIds :
    jobs[j].cancelAt # None /\ jobs[j].status \in Terminal =>
      \/ jobs[j].result = None /\ jobs[j].failure = Interrupted
      \/ jobs[j].result # None /\ jobs[j].result.error = Cancelled

\* Content is readable exactly by the owners of Jobs that ended with it: grants
\* are committed with the terminal row, none earlier, none lost, none widened.
GrantsFollowOutcomes ==
  \A c \in Callers, a \in Artifacts :
    CallerHasArtifact(c, a) <=>
      \E j \in JobIds :
        /\ jobs[j].caller = c /\ jobs[j].status \in Terminal
        /\ jobs[j].result # None /\ a \in jobs[j].result.artifacts

\* A retried submission never creates a second Job for the same caller and key.
OneJobPerKey ==
  \A i, j \in JobIds :
    jobs[i].caller # None /\ jobs[i].caller = jobs[j].caller /\ jobs[i].key = jobs[j].key => i = j

\* One token authorizes one Job: the holder of a claim cannot end another Job.
OneJobPerToken ==
  \A i, j \in JobIds : jobs[i].token # None /\ jobs[i].token = jobs[j].token => i = j

\* Whatever retries and claims are made, a caller's key and a claim's token name one Job.
IdentitiesAreUnique == OneJobPerKey /\ OneJobPerToken

\* The first cancellation timestamp stands, whatever is called later.
FirstCancelStands ==
  [][\A j \in JobIds : jobs[j].cancelAt # None => jobs'[j].cancelAt = jobs[j].cancelAt]_vars

\* The repository implements the lifecycle promised to callers.
Verdict(row) ==
  IF row.status \notin Terminal THEN "none"
  ELSE IF row.result = None THEN "interrupted"
  ELSE IF row.result.error = Cancelled THEN "cancelled" ELSE "ordinary"

Lifecycle == INSTANCE JobLifecycle WITH
  phase <- [j \in JobIds |-> jobs[j].status],
  cancelled <- [j \in JobIds |-> jobs[j].cancelAt # None],
  verdict <- [j \in JobIds |-> Verdict(jobs[j])],
  content <- [j \in JobIds |-> {a \in Artifacts : \E c \in Callers : <<j, c, a>> \in grants}]

\* Published once, started once, ended once, never changed afterwards: the
\* lifecycle a caller is promised, for every caller of the repository.
ImplementsLifecycle == Lifecycle!Spec
=============================================================================
