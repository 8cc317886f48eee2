---------------------------- MODULE JobExecution ----------------------------
(***************************************************************************)
(* Who calls the Job repository: the server process (its worker threads,   *)
(* its start, cooperative close and crash, runtime/acquisition_service.py) *)
(* and one-shot CLI or MCP processes that open the same data directory and *)
(* execute inline (RuntimeService.retrieve and RuntimeService.run).  An    *)
(* execution is RuntimeService.execute_submitted: the work, a last look at *)
(* the cancellation flag, the terminal transition, and its second attempt  *)
(* when cancellation wins the race.  The work itself is any Result, or an  *)
(* exception.  How threads are woken and counted is left to WorkerPool.    *)
(***************************************************************************)
EXTENDS JobRepository

CONSTANTS
  Workers,          \* worker threads of the server process
  Inline,           \* CLI and MCP processes on the same data directory
  MaxCrashes,       \* bound: how often the server process is killed
  MaxCloses,        \* bound: how often it is closed cooperatively
  StorageMayFail,   \* may a database access of an executor raise?
  InlineMayDie,     \* may a CLI or MCP process be killed?
  ClockMayStepBack  \* may the wall clock be set back?

Executors == Workers \cup Inline

WorkflowFailed == "runtime.workflow_failed"

ASSUME ExecutorsAreDistinct == Workers \cap Inline = {} /\ None \notin JobIds
ASSUME BoundsAreNatural == MaxCrashes \in Nat /\ MaxCloses \in Nat
ASSUME SwitchesAreBoolean == {StorageMayFail, InlineMayDie, ClockMayStepBack} \subseteq BOOLEAN

VARIABLES
  clock,    \* the wall clock all processes read
  server,   \* "down", "opening", "starting", "up" or "closing"
  reading,  \* the time a starting server read for its reconciliation
  todo,     \* Jobs the start still has to reconcile, or the close to cancel
  crashes,  \* crashes so far
  closes,   \* cooperative closes so far
  exec      \* what each executor is doing

execVars == <<clock, server, reading, todo, crashes, closes, exec>>
allVars == <<jobs, events, grants, clock, server, reading, todo, crashes, closes, exec>>

-----------------------------------------------------------------------------
(* Results the execution builds itself *)

Least(a, b) == IF a <= b THEN a ELSE b
Greatest(a, b) == IF a <= b THEN b ELSE a

\* A Result regenerated at a later time keeps its evidence.
Regenerated(r, status, error, at) ==
  [r EXCEPT !.status = status, !.error = error,
            !.from = Least(r.from, at), !.to = Greatest(r.to, at)]

PartialOrFailed(r) == IF r.artifacts # {} THEN "partial" ELSE "failed"

\* Mutant of CancelledResult: a cancelled Result is rebuilt from nothing.
CancelledResultAnew(r, at) ==
  IF r.error = Cancelled THEN r
  ELSE [Regenerated(r, "failed", Cancelled, at) EXCEPT !.artifacts = {}, !.attempt = None]

CancelledResult(r, at) ==
  IF r.error = Cancelled THEN r ELSE Regenerated(r, PartialOrFailed(r), Cancelled, at)

\* A Result without any execution evidence.
TerminalFailure(j, status, code, at) ==
  [run |-> j, status |-> status, error |-> code, attempt |-> None,
   artifacts |-> {}, from |-> at, to |-> at]

FailedResult(j, code, at) == TerminalFailure(j, "failed", code, at)

\* What run records of a workflow that raised: a Request it found invalid is
\* rejected with the reason, anything else is a failed workflow.
RejectionCodes == OtherCodes \ {WorkflowFailed}
RunFailures(j, at) ==
  {FailedResult(j, WorkflowFailed, at)}
    \cup {TerminalFailure(j, "rejected", code, at) : code \in RejectionCodes}

\* The terminal evidence of an execution that raised, with or without a Result.
ExceptionResult(j, r, isCancelled, at) ==
  CASE r = None -> FailedResult(j, IF isCancelled THEN Cancelled ELSE WorkflowFailed, at)
    [] r # None /\ isCancelled -> CancelledResult(r, at)
    [] OTHER ->
         [Regenerated(r, PartialOrFailed(r), WorkflowFailed, at) EXCEPT
            !.attempt = IF r.attempt = Cancelled THEN WorkflowFailed ELSE r.attempt]

ASSUME ResultsAreClosed ==
  \A at \in Times :
    /\ \A r \in Results : {CancelledResult(r, at), ExceptionResult(r.run, r, FALSE, at)} \subseteq Results
    /\ \A j \in JobIds : RunFailures(j, at) \cup {FailedResult(j, Cancelled, at)} \subseteq Results

-----------------------------------------------------------------------------
(* Executors *)

\* pc "open": found the pool open, about to claim; "claimed": claimed, not yet in
\* the set of active Jobs; "queued": submitted by run, not yet started; "work": in run_single_target; "poll": about to look
\* at the cancellation flag; "except": about to build terminal evidence after an
\* exception; "commit", "recommit": about to make the first or second transition.
Idle == [pc |-> "idle", job |-> None, token |-> None, since |-> None,
         result |-> None, proposal |-> None, raised |-> FALSE]

PCs == {"idle", "open", "queued", "claimed", "work", "poll", "except", "commit", "recommit"}

Active(e) == exec[e].pc # "idle"
Job(e) == exec[e].job
Row(e) == jobs[exec[e].job]
Holding(j) == {e \in Executors : Active(e) /\ Job(e) = j}

Move(e, state) == exec' = [exec EXCEPT ![e] = state]
Begin(e, pc, j, t) ==
  Move(e, [Idle EXCEPT !.pc = pc, !.job = j, !.token = t, !.since = clock])
Stop(e) == Move(e, Idle)

Process == <<clock, server, reading, todo, crashes, closes>>

\* A worker thread looks whether the pool is open and reads the clock.  Then,
\* perhaps already too late, it claims the oldest queued Job at that time.
Look(e) ==
  /\ e \in Workers /\ server = "up" /\ ~ Active(e)
  /\ Move(e, [Idle EXCEPT !.pc = "open", !.since = clock])
  /\ UNCHANGED <<vars, Process>>

ClaimNothing(e) ==
  /\ exec[e].pc = "open" /\ Claimable = {}
  /\ Stop(e)
  /\ UNCHANGED <<vars, Process>>

\* The oldest queued Job was submitted after the worker read the clock: the claim
\* raises.
OldestIsTooNew(e) ==
  \E j \in Claimable :
    /\ \A i \in Claimable : Precedes(j, i)
    /\ ~ SnapshotLegal(j, jobs[j], "running", exec[e].since, None, None)

ClaimRaises(e) ==
  /\ exec[e].pc = "open" /\ OldestIsTooNew(e)
  /\ Stop(e)
  /\ UNCHANGED <<vars, Process>>

Claim(e) ==
  /\ exec[e].pc = "open"
  /\ \E j \in JobIds, t \in Tokens : ClaimNext(j, exec[e].since, t) /\ Begin(e, "claimed", j, t)
  /\ UNCHANGED Process

\* Under the pool's lock the worker either registers the Job as active, or finds
\* the pool closed, asks for cancellation and leaves the Job running.
Register(e) ==
  /\ exec[e].pc = "claimed" /\ server = "up"
  /\ Move(e, [exec[e] EXCEPT !.pc = "work", !.since = clock])
  /\ UNCHANGED <<vars, Process>>

Abandon(e) ==
  /\ exec[e].pc = "claimed" /\ server = "closing"
  /\ \/ Cancel(Job(e), clock)
     \/ Row(e).cancelAt # None /\ UNCHANGED vars
  /\ Stop(e)
  /\ UNCHANGED Process

\* Mutant of Retrieve: the Job is published as queued and executed without a claim.
RetrieveUnclaimed(e) ==
  /\ e \in Inline /\ ~ Active(e)
  /\ \E j \in JobIds, c \in Callers, k \in Keys, q \in Requests :
       SubmitRequest(j, c, k, q, clock) /\ Begin(e, "work", j, None)
  /\ UNCHANGED Process

\* RuntimeService.retrieve: submit, claim and execute within one process.
Retrieve(e) ==
  /\ e \in Inline /\ ~ Active(e)
  /\ \E j \in JobIds, c \in Callers, k \in Keys, q \in Requests, t \in Tokens :
       SubmitAndClaim(j, c, k, q, clock, t) /\ Begin(e, "work", j, t)
  /\ UNCHANGED Process

\* RuntimeService.run: submit, start and execute without a claim.
Run(e) ==
  /\ e \in Inline /\ ~ Active(e)
  /\ \E j \in JobIds : Submit(j, clock) /\ Begin(e, "queued", j, None)
  /\ UNCHANGED Process

RunStart(e) ==
  /\ exec[e].pc = "queued"
  /\ Transition(Job(e), "running", clock, None, None, None)
  /\ Begin(e, "work", Job(e), None)
  /\ UNCHANGED Process

RunRaises(e) ==
  /\ exec[e].pc = "queued"
  /\ ~ Accepts(Job(e), "running", clock, None, None, None)
  /\ Stop(e)
  /\ UNCHANGED <<vars, Process>>

Claimed(e) == exec[e].token # None

\* execute_submitted finds its Job interrupted before the work begins.
NotClaimed(e) ==
  /\ exec[e].pc = "work" /\ Claimed(e) /\ Row(e).status # "running"
  /\ Stop(e)
  /\ UNCHANGED <<vars, Process>>

\* The workflow returns.  It reports a cancellation only when it has seen one.
\* run goes straight to its transition.
Work(e) ==
  /\ exec[e].pc = "work"
  /\ \E r \in Results :
       /\ r.run = Job(e)
       /\ r.from = Least(exec[e].since, clock) /\ r.to = Greatest(exec[e].since, clock)
       /\ r.error = Cancelled \/ r.attempt = Cancelled => Claimed(e) /\ Row(e).cancelAt # None
       /\ Move(e, [exec[e] EXCEPT !.pc = IF Claimed(e) THEN "poll" ELSE "commit",
                                  !.result = r, !.proposal = r])
  /\ UNCHANGED <<vars, Process>>

\* The workflow raises, and the Result it was building is lost with it: a claimed
\* Job is ended from nothing but the exception, and run builds its failure at once.
Raise(e) ==
  /\ exec[e].pc = "work"
  /\ \/ /\ Claimed(e)
        /\ Move(e, [exec[e] EXCEPT !.pc = "except", !.raised = TRUE])
     \/ /\ ~ Claimed(e)
        /\ \E r \in RunFailures(Job(e), clock) :
             Move(e, [exec[e] EXCEPT !.pc = "commit", !.raised = TRUE, !.proposal = r])
  /\ UNCHANGED <<vars, Process>>

\* The last look at the cancellation flag before the transition.
Poll(e) ==
  /\ exec[e].pc = "poll"
  /\ Move(e, [exec[e] EXCEPT !.pc = "commit",
                !.proposal = IF Row(e).cancelAt # None THEN CancelledResult(exec[e].result, clock)
                             ELSE exec[e].result])
  /\ UNCHANGED <<vars, Process>>

PollFails(e) ==
  /\ StorageMayFail
  /\ exec[e].pc = "poll"
  /\ Move(e, [exec[e] EXCEPT !.pc = "except", !.raised = TRUE])
  /\ UNCHANGED <<vars, Process>>

Terminalize(e) ==
  /\ exec[e].pc = "except"
  /\ Move(e, [exec[e] EXCEPT !.pc = "commit",
                !.proposal = ExceptionResult(Job(e), exec[e].result, Row(e).cancelAt # None, clock)])
  /\ UNCHANGED <<vars, Process>>

\* The terminal transition of the proposal, under the token of the claim.
Commit(e) ==
  /\ exec[e].pc \in {"commit", "recommit"}
  /\ LET p == exec[e].proposal IN
       Transition(Job(e), p.status, clock, p, FailureCode(p), exec[e].token)
  /\ Stop(e)
  /\ UNCHANGED Process

\* Mutant of Outrun: job.cancel_requested is treated like any other refusal.
OutrunNever(e) == FALSE

Outrun(e) ==
  /\ exec[e].pc = "commit" /\ Claimed(e)
  /\ LET p == exec[e].proposal IN
       RefusesForCancel(Job(e), p.status, p, FailureCode(p), exec[e].token)

\* Cancellation was recorded after the last look: convert and try once more.
Convert(e) ==
  /\ Outrun(e)
  /\ Move(e, [exec[e] EXCEPT !.pc = "recommit",
                !.proposal = IF exec[e].raised
                             THEN ExceptionResult(Job(e), exec[e].result, TRUE, clock)
                             ELSE CancelledResult(exec[e].proposal, clock)])
  /\ UNCHANGED <<vars, Process>>

\* Any other refusal propagates: the executor goes on without a transition.
GiveUp(e) ==
  /\ exec[e].pc \in {"commit", "recommit"} /\ ~ Outrun(e)
  /\ LET p == exec[e].proposal IN
       ~ Accepts(Job(e), p.status, clock, p, FailureCode(p), exec[e].token)
  /\ Stop(e)
  /\ UNCHANGED <<vars, Process>>

\* A database access that raises outside the workflow ends the execution there.
StorageFails(e) ==
  /\ StorageMayFail
  /\ \/ exec[e].pc \in {"open", "queued", "work", "except", "commit", "recommit"}
     \/ exec[e].pc = "claimed" /\ server = "closing"
  /\ Stop(e)
  /\ UNCHANGED <<vars, Process>>

Die(e) ==
  /\ InlineMayDie /\ e \in Inline /\ Active(e)
  /\ Stop(e)
  /\ UNCHANGED <<vars, Process>>

Execute(e) ==
  \/ Claim(e) \/ ClaimNothing(e) \/ ClaimRaises(e) \/ Register(e) \/ Abandon(e)
  \/ RunStart(e) \/ RunRaises(e) \/ NotClaimed(e) \/ Work(e) \/ Raise(e) \/ Poll(e) \/ Terminalize(e)
  \/ Commit(e) \/ Convert(e) \/ GiveUp(e)

Fault(e) == PollFails(e) \/ StorageFails(e) \/ Die(e)

-----------------------------------------------------------------------------
(* Callers, the clock and the server process *)

\* A submission through REST, CLI or MCP; it needs no server.
Ask(j) ==
  /\ \E c \in Callers, k \in Keys, q \in Requests : SubmitRequest(j, c, k, q, clock)
  /\ UNCHANGED execVars

\* cancel_owned: only a Job with an owner can be cancelled from outside.
AskCancel(j) ==
  /\ jobs[j].caller # None
  /\ Cancel(j, clock)
  /\ UNCHANGED execVars

Tick ==
  /\ \E at \in Times : (at = clock + 1 \/ (ClockMayStepBack /\ at < clock)) /\ clock' = at
  /\ UNCHANGED <<vars, server, reading, todo, crashes, closes, exec>>

Running == {j \in JobIds : jobs[j].status = "running"}

\* The start reads the clock once, for all Jobs it will find running.
Open ==
  /\ server = "down"
  /\ server' = "opening" /\ reading' = clock
  /\ UNCHANGED <<vars, clock, todo, crashes, closes, exec>>

\* Mutant of Start: nothing is reconciled.
StartForgetting ==
  /\ server = "opening"
  /\ server' = "starting" /\ todo' = {}
  /\ UNCHANGED <<vars, clock, reading, crashes, closes, exec>>

\* The list of running Jobs is read first; each is then failed in its own transaction.
Start ==
  /\ server = "opening"
  /\ server' = "starting" /\ todo' = Running
  /\ UNCHANGED <<vars, clock, reading, crashes, closes, exec>>

Reconcile ==
  /\ server = "starting"
  /\ \E j \in todo :
       /\ \A i \in todo : j <= i
       /\ Interrupt(j, reading)
       /\ todo' = todo \ {j}
  /\ UNCHANGED <<clock, server, reading, crashes, closes, exec>>

\* A Job that another process ended meanwhile, or started after the clock was
\* read, makes the transition raise, and the start with it.
StartFails ==
  /\ server = "starting"
  /\ \E j \in todo :
       /\ \A i \in todo : j <= i
       /\ ~ Accepts(j, "failed", reading, None, Interrupted, jobs[j].token)
  /\ server' = "down" /\ todo' = {} /\ reading' = None
  /\ UNCHANGED <<vars, clock, crashes, closes, exec>>

Serve ==
  /\ server = "starting" /\ todo = {}
  /\ server' = "up" /\ reading' = None
  /\ UNCHANGED <<vars, clock, todo, crashes, closes, exec>>

Crash ==
  /\ server # "down" /\ crashes < MaxCrashes
  /\ server' = "down" /\ todo' = {} /\ reading' = None /\ crashes' = crashes + 1
  /\ exec' = [e \in Executors |-> IF e \in Workers THEN Idle ELSE exec[e]]
  /\ UNCHANGED <<vars, clock, closes>>

\* The pool stops accepting work and remembers which Jobs are active.
Close ==
  /\ server = "up" /\ closes < MaxCloses
  /\ server' = "closing" /\ closes' = closes + 1
  /\ todo' = {j \in JobIds : \E e \in Workers : Active(e) /\ exec[e].pc \notin {"open", "claimed"} /\ Job(e) = j}
  /\ UNCHANGED <<vars, clock, reading, crashes, exec>>

\* close swallows the exception of a cancellation that fails.
CancelActive ==
  /\ server = "closing"
  /\ \E j \in todo :
       /\ \/ Cancel(j, clock)
          \/ /\ jobs[j].status \in Terminal \/ jobs[j].cancelAt # None \/ StorageMayFail
             /\ UNCHANGED vars
       /\ todo' = todo \ {j}
  /\ UNCHANGED <<clock, server, reading, crashes, closes, exec>>

Exit ==
  /\ server = "closing" /\ todo = {} /\ \A e \in Workers : ~ Active(e)
  /\ server' = "down"
  /\ UNCHANGED <<vars, clock, reading, todo, crashes, closes, exec>>

ServerStep == Open \/ Start \/ Reconcile \/ StartFails \/ Serve \/ CancelActive \/ Exit

ExecInit ==
  /\ Init
  /\ clock \in Times
  /\ server = "down" /\ reading = None /\ todo = {}
  /\ crashes = 0 /\ closes = 0
  /\ exec = [e \in Executors |-> Idle]

ExecNext ==
  \/ \E e \in Executors : Look(e) \/ Retrieve(e) \/ Run(e) \/ Execute(e) \/ Fault(e)
  \/ \E j \in JobIds : Ask(j) \/ AskCancel(j)
  \/ Tick \/ ServerStep \/ Crash \/ Close

ExecSpec == ExecInit /\ [][ExecNext]_allVars

\* The operating system schedules every thread and process, and the operator
\* starts the server again whenever it is down.
ExecFairness ==
  /\ \A e \in Executors : WF_allVars(Look(e)) /\ WF_allVars(Execute(e))
  /\ WF_allVars(ServerStep)

ExecFairSpec == ExecSpec /\ ExecFairness

-----------------------------------------------------------------------------
(* Properties *)

\* The processes keep their shape.
ExecTypeOK ==
  /\ clock \in Times
  /\ server \in {"down", "opening", "starting", "up", "closing"}
  /\ reading \in Opt(Times)
  /\ todo \subseteq JobIds
  /\ crashes \in 0..MaxCrashes /\ closes \in 0..MaxCloses
  /\ exec \in [Executors -> [pc : PCs, job : Opt(JobIds), token : Opt(Tokens), since : Opt(Times),
                               result : Opt(Results), proposal : Opt(Results), raised : BOOLEAN]]

\* No Job is ever executed by two executors at once, in whatever process they
\* live: claiming and publishing as running leave no window for a second one.
OneExecutorPerJob ==
  \A e, f \in Executors :
    Active(e) /\ Active(f) /\ Job(e) # None /\ Job(e) = Job(f) => e = f

\* A Job under execution is ended by its executor alone; the only other hand that
\* can end it is restart reconciliation, which says so in the row.
EndedByItsExecutor ==
  \A e \in Executors :
    exec[e].pc \notin {"idle", "open", "queued"} =>
      /\ Row(e).token = exec[e].token
      /\ \/ Row(e).status = "running"
         \/ Row(e).status = "failed" /\ Row(e).result = None /\ Row(e).failure = Interrupted

\* Converting a Result that the workflow returned, because of a cancellation seen at
\* the last look or recorded after it, or of an exception in between, never discards
\* artifacts that the execution has committed.  (A workflow that raises returns no
\* Result, and what it had committed is granted to nobody.)
EvidenceIsKept ==
  \A e \in Executors :
    exec[e].pc \in {"commit", "recommit"} /\ exec[e].result # None =>
      exec[e].proposal.artifacts = exec[e].result.artifacts

\* While the server serves, no Job is left running without an executor: each path
\* through execute_submitted, however it races with cancellation or raises, ends
\* the row, and what a crash or a close leaves behind is reconciled before.
NothingStranded ==
  server = "up" => \A j \in Running : Holding(j) # {}

\* Every Job that started ends, through crashes, closes and races with cancellation.
RunningJobsEnd == \A j \in JobIds : jobs[j].status = "running" ~> jobs[j].status \in Terminal

\* Every accepted Request is eventually answered by a terminal Job.
RequestsAreAnswered ==
  \A j \in JobIds : jobs[j].status = "submitted" /\ jobs[j].request # None
                       ~> jobs[j].status \in Terminal

\* No Job waits for ever: neither for an executor nor under one.
JobsEnd == RunningJobsEnd /\ RequestsAreAnswered

\* Every step of the processes is a call the repository allows, or none at all.
UsesRepository == Spec
=============================================================================
