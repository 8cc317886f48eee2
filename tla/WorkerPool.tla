----------------------------- MODULE WorkerPool -----------------------------
(***************************************************************************)
(* The thread pool of runtime/acquisition_service.py (AcquisitionService): *)
(* how wakeups, claims, polling, failures and close share one lock, one    *)
(* worker count and one wakeup generation.  What an execution does to its  *)
(* Job is the subject of JobExecution; here a piece of work is queued,     *)
(* running or ended, and every region under the lock is one step.          *)
(***************************************************************************)
EXTENDS Naturals, FiniteSets

CONSTANTS
  Threads,        \* the threads of the executor, as many as its concurrency
  Jobs, Fetches, Batches, \* pieces of work, by the queue they wait in
  Pollings,       \* may there be a poll interval, and none?
  Elsewhere,      \* may another process submit, without a wakeup?
  Driver,         \* does an embedding program call run_available?
  FailingClaims,  \* queues whose claim may raise
  StorageMayFail, \* may an execution or a cancellation fail to write its row?
  Nothing         \* not a piece of work

Works == Jobs \cup Fetches \cup Batches
Boot == "boot"  \* the wakeup of the server's start

ASSUME QueuesAreDisjoint ==
  /\ Jobs \cap Fetches = {} /\ Jobs \cap Batches = {} /\ Fetches \cap Batches = {}
  /\ Nothing \notin Works /\ Boot \notin Works
ASSUME ThreadsAreFinite == IsFiniteSet(Threads)
ASSUME FailingClaimsAreQueues == FailingClaims \subseteq {"jobs", "fetches", "batches"}
ASSUME PoolSwitchesAreBoolean == {Elsewhere, Driver, StorageMayFail} \cup Pollings \subseteq BOOLEAN

VARIABLES
  polling,     \* is there a poll interval?  Never changed
  work,        \* durable: each piece of work "absent", "queued", "running" or "ended"
  cancelled,   \* durable: work whose cancellation has been requested
  pending,     \* submitters that have yet to call wake
  pc,          \* what each thread does; "done" and "raised": a finished future
  seen,        \* _worker's observed_generation
  held,        \* the work each thread has claimed
  count,       \* _worker_count
  generation,  \* _wake_generation
  active,      \* _active_job_ids, _active_url_fetch_ids and _active_batch_ids
  claimFailed, \* _claim_failed
  closer,      \* "open", or close at "cancelling", "joining" or "closed"
  toCancel     \* what close has yet to cancel

poolVars == <<polling, work, cancelled, pending, pc, seen, held, count, generation, active,
              claimFailed, closer, toCancel>>

Idle == {"none", "done", "raised"}
Live == {"top", "jobs", "claimed", "failing", "fetches", "batches", "taken", "work",
         "discard", "rest", "wait", "abandon"}

closed == closer # "open"
Concurrency == Cardinality(Threads)
QueueOf(k) == CASE k = "jobs" -> Jobs [] k = "fetches" -> Fetches [] k = "batches" -> Batches
After(k) == CASE k = "jobs" -> "fetches" [] k = "fetches" -> "batches" [] k = "batches" -> "rest"
Queued(k) == {w \in QueueOf(k) : work[w] = "queued"}

Go(t, where) == pc' = [pc EXCEPT ![t] = where]
Hold(t, w) == held' = [held EXCEPT ![t] = w]

PoolInit ==
  /\ polling \in Pollings
  /\ work \in [Works -> {"absent", "queued"}]
  /\ cancelled = {} /\ pending = {Boot}
  /\ pc = [t \in Threads |-> "none"]
  /\ seen = [t \in Threads |-> 0] /\ held = [t \in Threads |-> Nothing]
  /\ count = 0 /\ generation = 0 /\ active = {}
  /\ claimFailed = FALSE /\ closer = "open" /\ toCancel = {}

-----------------------------------------------------------------------------
(* Callers *)

Enqueue(w) ==
  /\ work[w] = "absent"
  /\ work' = [work EXCEPT ![w] = "queued"]
  /\ \/ pending' = pending \cup {w}
     \/ Elsewhere /\ UNCHANGED pending
  /\ UNCHANGED <<polling, cancelled, pc, seen, held, count, generation, active, claimFailed, closer, toCancel>>

\* Finished futures are forgotten and every free slot gets a thread.
Spawn ==
  LET free == {t \in Threads : pc[t] \in Idle} IN
    \E S \in SUBSET free :
      /\ Cardinality(S) = Concurrency - count
      /\ pc' = [t \in Threads |-> IF t \in S THEN "top" ELSE IF t \in free THEN "none" ELSE pc[t]]
      /\ count' = Concurrency

Wake(w) ==
  /\ w \in pending /\ pending' = pending \ {w}
  /\ \/ closed /\ UNCHANGED <<pc, count, generation>>
     \/ ~ closed /\ generation' = generation + 1 /\ Spawn
  /\ UNCHANGED <<polling, work, cancelled, seen, held, active, claimFailed, closer, toCancel>>

\* run_available forgets the futures it has waited for.
Reap(t) ==
  /\ Driver /\ pc[t] = "done"
  /\ Go(t, "none")
  /\ UNCHANGED <<polling, work, cancelled, pending, seen, held, count, generation, active, claimFailed, closer, toCancel>>

-----------------------------------------------------------------------------
(* The worker loop *)

Leave(t) == count' = count - 1 /\ Go(t, "done")

Top(t) ==
  /\ pc[t] = "top"
  /\ \/ closed /\ Leave(t) /\ UNCHANGED seen
     \/ /\ ~ closed /\ seen' = [seen EXCEPT ![t] = generation]
        /\ Go(t, "jobs") /\ UNCHANGED count
  /\ UNCHANGED <<polling, work, cancelled, pending, held, generation, active, claimFailed, closer, toCancel>>

Claim(t) ==
  \E k \in {"jobs", "fetches", "batches"} :
    /\ pc[t] = k
    /\ \/ \E w \in Queued(k) :
            /\ work' = [work EXCEPT ![w] = "running"] /\ Hold(t, w)
            /\ Go(t, IF k = "jobs" THEN "claimed" ELSE "taken")
       \/ Queued(k) = {} /\ Go(t, After(k)) /\ UNCHANGED <<work, held>>
    /\ UNCHANGED <<polling, cancelled, pending, seen, count, generation, active, claimFailed, closer, toCancel>>

\* Only the first of the three claims stands inside a try.
ClaimRaises(t) ==
  /\ pc[t] \in FailingClaims
  /\ Go(t, IF pc[t] = "jobs" THEN "failing" ELSE "raised")
  /\ UNCHANGED <<polling, work, cancelled, pending, seen, held, count, generation, active, claimFailed, closer, toCancel>>

\* Mutant of Fail: the slot is not given back.
FailKeepingSlot(t) ==
  /\ pc[t] = "failing" /\ claimFailed' = TRUE
  /\ Go(t, "done")
  /\ UNCHANGED <<polling, work, cancelled, pending, seen, held, count, generation, active, closer, toCancel>>

Fail(t) ==
  /\ pc[t] = "failing" /\ claimFailed' = TRUE
  /\ Leave(t)
  /\ UNCHANGED <<polling, work, cancelled, pending, seen, held, generation, active, closer, toCancel>>

\* Mutant of Register: a Job claimed while the pool closes is executed all the same.
RegisterAlways(t) ==
  /\ pc[t] \in {"claimed", "taken"}
  /\ active' = active \cup {held[t]} /\ Go(t, "work")
  /\ UNCHANGED <<polling, work, cancelled, pending, seen, held, count, generation, claimFailed, closer, toCancel>>

\* A claimed Job is registered only while the pool is open, the other two always.
Register(t) ==
  /\ \/ pc[t] = "claimed" /\ ~ closed
     \/ pc[t] = "taken"
  /\ active' = active \cup {held[t]} /\ Go(t, "work")
  /\ UNCHANGED <<polling, work, cancelled, pending, seen, held, count, generation, claimFailed, closer, toCancel>>

Refuse(t) ==
  /\ pc[t] = "claimed" /\ closed
  /\ count' = count - 1 /\ Go(t, "abandon")
  /\ UNCHANGED <<polling, work, cancelled, pending, seen, held, generation, active, claimFailed, closer, toCancel>>

Cancel(w) ==
  \/ cancelled' = IF work[w] = "running" THEN cancelled \cup {w} ELSE cancelled
  \/ StorageMayFail /\ UNCHANGED cancelled

Abandon(t) ==
  /\ pc[t] = "abandon" /\ Cancel(held[t])
  /\ Go(t, "done") /\ Hold(t, Nothing)
  /\ UNCHANGED <<polling, work, pending, seen, count, generation, active, claimFailed, closer, toCancel>>

Work(t) ==
  /\ pc[t] = "work"
  /\ \/ work' = [work EXCEPT ![held[t]] = "ended"]
     \/ StorageMayFail /\ UNCHANGED work
  /\ Go(t, "discard")
  /\ UNCHANGED <<polling, cancelled, pending, seen, held, count, generation, active, claimFailed, closer, toCancel>>

Discard(t) ==
  /\ pc[t] = "discard" /\ active' = active \ {held[t]}
  /\ Go(t, "top") /\ Hold(t, Nothing)
  /\ UNCHANGED <<polling, work, cancelled, pending, seen, count, generation, claimFailed, closer, toCancel>>

\* Mutant of Rest: a wakeup that arrived during the claims is not noticed.
RestAtOnce(t) ==
  /\ pc[t] = "rest"
  /\ \/ polling /\ Go(t, "wait") /\ UNCHANGED count
     \/ ~ polling /\ Leave(t)
  /\ UNCHANGED <<polling, work, cancelled, pending, seen, held, generation, active, claimFailed, closer, toCancel>>

\* All three queues were empty: a wakeup since the loop began means once more.
Rest(t) ==
  /\ pc[t] = "rest"
  /\ \/ generation # seen[t] /\ Go(t, "top") /\ UNCHANGED count
     \/ generation = seen[t] /\ polling /\ Go(t, "wait") /\ UNCHANGED count
     \/ generation = seen[t] /\ ~ polling /\ Leave(t)
  /\ UNCHANGED <<polling, work, cancelled, pending, seen, held, generation, active, claimFailed, closer, toCancel>>

\* The poll event is set, or the interval is over.
Awake(t) ==
  /\ pc[t] = "wait" /\ Go(t, "top")
  /\ UNCHANGED <<polling, work, cancelled, pending, seen, held, count, generation, active, claimFailed, closer, toCancel>>

-----------------------------------------------------------------------------
(* close *)

Close ==
  /\ ~ closed /\ closer' = "cancelling" /\ toCancel' = active
  /\ UNCHANGED <<polling, work, cancelled, pending, pc, seen, held, count, generation, active, claimFailed>>

CancelActive ==
  /\ closer = "cancelling"
  /\ \E w \in toCancel : Cancel(w) /\ toCancel' = toCancel \ {w}
  /\ UNCHANGED <<polling, work, pending, pc, seen, held, count, generation, active, claimFailed, closer>>

Shutdown ==
  /\ closer = "cancelling" /\ toCancel = {} /\ closer' = "joining"
  /\ UNCHANGED <<polling, work, cancelled, pending, pc, seen, held, count, generation, active, claimFailed, toCancel>>

Join ==
  /\ closer = "joining" /\ \A t \in Threads : pc[t] \in Idle
  /\ closer' = "closed"
  /\ UNCHANGED <<polling, work, cancelled, pending, pc, seen, held, count, generation, active, claimFailed, toCancel>>

-----------------------------------------------------------------------------

Thread(t) ==
  \/ Top(t) \/ Claim(t) \/ Fail(t) \/ Register(t) \/ Refuse(t) \/ Abandon(t)
  \/ Work(t) \/ Discard(t) \/ Rest(t) \/ Awake(t)

Closing == CancelActive \/ Shutdown \/ Join

PoolNext ==
  \/ \E w \in Works : Enqueue(w)
  \/ \E w \in Works \cup {Boot} : Wake(w)
  \/ \E t \in Threads : Thread(t) \/ ClaimRaises(t) \/ Reap(t)
  \/ Close \/ Closing

PoolSpec == PoolInit /\ [][PoolNext]_poolVars

\* Threads are scheduled, executions return, submitters call wake as they promise,
\* and a close runs to its end.
PoolFairSpec ==
  /\ PoolSpec
  /\ \A t \in Threads : WF_poolVars(Thread(t))
  /\ \A w \in Works \cup {Boot} : WF_poolVars(Wake(w))
  /\ WF_poolVars(Closing)

-----------------------------------------------------------------------------
(* Properties *)

\* Each slot of the pool is given back exactly once by every way a worker leaves but
\* one, the claim that raises outside the try of the Job claim (FailingClaims beyond
\* {"jobs"}), so that a wakeup can start as many workers as the pool has room for.
SlotsAreReturned == count = Cardinality({t \in Threads : pc[t] \in Live \ {"abandon"}})

\* Once close has cancelled what it found active, no Job is in execution, or left
\* running, that has not been asked to stop - not even one claimed meanwhile.
CloseReachesEveryJob ==
  /\ closer \in {"joining", "closed"} =>
       \A t \in Threads : pc[t] = "work" /\ held[t] \in Jobs => held[t] \in cancelled
  /\ closer = "closed" => \A w \in Jobs : work[w] = "running" => w \in cancelled

\* No two threads work on the same thing, and each is known to close while it runs.
WorkIsHeldOnce ==
  /\ \A t, u \in Threads : held[t] # Nothing /\ held[t] = held[u] => t = u
  /\ \A t \in Threads : pc[t] \in {"work", "discard"} => held[t] \in active

\* The pool always knows how many of its threads live and what each of them works on,
\* unless the claim of a fetch or a batch raises: that worker's slot is lost.
ThreadsAreAccounted == SlotsAreReturned /\ WorkIsHeldOnce

\* No wakeup is lost: what is submitted and followed by a wakeup is claimed, even
\* when the wakeup arrives while the last worker is about to leave.  A pool that
\* polls also finds what other processes submit.
SubmittedIsClaimed ==
  \A w \in Works :
    work[w] = "queued" /\ (polling \/ {w, Boot} \cap pending # {})
      ~> work[w] # "queued" \/ closed \/ claimFailed

\* A close always comes to its end.
CloseEnds == closed ~> closer = "closed"

\* Submissions are claimed and closes end, in any order of wakeups, claims and leaving
\* workers.
PoolMovesOn == SubmittedIsClaimed /\ CloseEnds
=============================================================================
