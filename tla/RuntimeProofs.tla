--------------------------- MODULE RuntimeProofs ---------------------------
(***************************************************************************)
(* Proofs about the pool that runs work and the retrieval operation that   *)
(* runs in it.  The two parts share no state: what one says holds whatever *)
(* the other does.                                                         *)
(*                                                                         *)
(* Part I, about WorkerPool, is for any number of threads and pieces of    *)
(* work, with or without polling, other processes and an embedding driver. *)
(* What a thread holds is decided by where it is and is running in the     *)
(* database (HoldInv); from that follow, each where the code can promise   *)
(* it, that the pool counts its threads (where only the first claim may    *)
(* raise) and that a close reaches every Job (where rows can be written).  *)
(*                                                                         *)
(* Part II, about TargetWorkflow and Retrieval, is for any resources,      *)
(* budgets, number of tries and of alternates.                             *)
(***************************************************************************)
EXTENDS WorkerPool, Retrieval, FiniteSetTheorems, TLAPS

-----------------------------------------------------------------------------
(* PART I: the worker pool *)

\* The places where a thread has work of its own.
Executing == {"claimed", "taken", "work", "abandon"}
Holding == Executing \cup {"discard"}

PoolTypeOK ==
  /\ pc \in [Threads -> Idle \cup Live]
  /\ held \in [Threads -> Works \cup {Nothing}]
  /\ work \in [Works -> {"absent", "queued", "running", "ended"}]

\* What a thread holds, by the place where it is.
HoldsFollow ==
  \A t \in Threads :
    /\ held[t] # Nothing <=> pc[t] \in Holding
    /\ pc[t] \in Executing => work[held[t]] = "running"
    /\ pc[t] = "discard" => work[held[t]] \in {"running", "ended"}
    /\ pc[t] \in {"claimed", "abandon"} => held[t] \in Jobs
    /\ pc[t] = "taken" => held[t] \notin Jobs

HoldInv == PoolTypeOK /\ HoldsFollow /\ WorkIsHeldOnce

-----------------------------------------------------------------------------

LEMMA HoldBegins == PoolInit => HoldInv
  BY QueuesAreDisjoint
  DEF PoolInit, HoldInv, PoolTypeOK, HoldsFollow, WorkIsHeldOnce, Idle, Live, Holding, Executing

LEMMA EnqueueKeepsHold == ASSUME HoldInv, NEW w \in Works, Enqueue(w) PROVE HoldInv'
<1>1. PoolTypeOK'
  BY DEF Enqueue, HoldInv, PoolTypeOK
<1>2. WorkIsHeldOnce'
  BY DEF Enqueue, HoldInv, WorkIsHeldOnce
<1>3. HoldsFollow'
  <2> SUFFICES ASSUME NEW t \in Threads, pc[t] \in Holding PROVE held[t] # w
    BY QueuesAreDisjoint
    DEF Enqueue, HoldInv, PoolTypeOK, HoldsFollow, Holding, Executing
  <2> QED BY DEF Enqueue, HoldInv, HoldsFollow, Holding, Executing
<1> QED BY <1>1, <1>2, <1>3 DEF HoldInv

LEMMA WakeKeepsHold == ASSUME HoldInv, NEW w \in Works \cup {Boot}, Wake(w) PROVE HoldInv'
<1>1. CASE UNCHANGED pc
  BY <1>1 DEF Wake, HoldInv, PoolTypeOK, HoldsFollow, WorkIsHeldOnce
<1>2. CASE Spawn
  <2>1. pc' \in [Threads -> Idle \cup Live]
        /\ \A t \in Threads : pc'[t] = pc[t] \/ (pc[t] \in Idle /\ pc'[t] \in {"top", "none"})
    BY <1>2 DEF Spawn, HoldInv, PoolTypeOK, Idle, Live
  <2>2. UNCHANGED <<work, held, active>>
    BY DEF Wake
  <2> QED BY <2>1, <2>2
       DEF HoldInv, PoolTypeOK, HoldsFollow, WorkIsHeldOnce, Idle, Holding, Executing
<1> QED BY <1>1, <1>2 DEF Wake

\* A step of one thread between two places where it holds nothing.
LEMMA MovesKeepHold ==
  ASSUME HoldInv, NEW t \in Threads, NEW where \in (Idle \cup Live) \ Holding,
         pc[t] \notin Holding, Go(t, where), UNCHANGED <<work, held, active>>
  PROVE  HoldInv'
  BY DEF HoldInv, PoolTypeOK, HoldsFollow, WorkIsHeldOnce, Go, Holding, Executing

LEMMA ClaimKeepsHold == ASSUME HoldInv, NEW t \in Threads, Claim(t) PROVE HoldInv'
<1>1. PICK k \in {"jobs", "fetches", "batches"} :
        /\ pc[t] = k
        /\ \/ \E w \in Queued(k) :
                /\ work' = [work EXCEPT ![w] = "running"] /\ Hold(t, w)
                /\ Go(t, IF k = "jobs" THEN "claimed" ELSE "taken")
           \/ Queued(k) = {} /\ Go(t, After(k)) /\ UNCHANGED <<work, held>>
        /\ UNCHANGED active
  BY DEF Claim
<1>2. pc[t] \notin Holding
  BY <1>1 DEF Holding, Executing
<1>3. CASE Go(t, After(k)) /\ UNCHANGED <<work, held>>
  <2>1. After(k) \in (Idle \cup Live) \ Holding
    BY DEF After, Idle, Live, Holding, Executing
  <2> QED BY <1>1, <1>2, <1>3, <2>1, MovesKeepHold
<1>4. ASSUME NEW w \in Queued(k), work' = [work EXCEPT ![w] = "running"], Hold(t, w),
             Go(t, IF k = "jobs" THEN "claimed" ELSE "taken")
      PROVE  HoldInv'
  <2>1. w \in Works /\ w # Nothing /\ work[w] = "queued" /\ (w \in Jobs <=> k = "jobs")
    BY <1>4, QueuesAreDisjoint DEF Queued, QueueOf, Works
  <2>2. \A u \in Threads : held[u] # w
    <3> SUFFICES ASSUME NEW u \in Threads, held[u] = w PROVE FALSE
      OBVIOUS
    <3> QED BY <2>1 DEF HoldInv, HoldsFollow, Holding
  <2>3. PoolTypeOK'
    BY <1>4, <2>1 DEF HoldInv, PoolTypeOK, Hold, Go, Live
  <2>4. WorkIsHeldOnce'
    BY <1>1, <1>4, <2>2 DEF HoldInv, PoolTypeOK, WorkIsHeldOnce, Hold, Go
  <2>5. HoldsFollow'
    <3> SUFFICES ASSUME NEW u \in Threads
                 PROVE  /\ held'[u] # Nothing <=> pc'[u] \in Holding
                        /\ pc'[u] \in Executing => work'[held'[u]] = "running"
                        /\ pc'[u] = "discard" => work'[held'[u]] \in {"running", "ended"}
                        /\ pc'[u] \in {"claimed", "abandon"} => held'[u] \in Jobs
                        /\ pc'[u] = "taken" => held'[u] \notin Jobs
      BY DEF HoldsFollow
    <3>1. CASE u = t
      BY <3>1, <1>4, <2>1 DEF HoldInv, PoolTypeOK, Hold, Go, Holding, Executing
    <3>2. CASE u # t
      BY <3>2, <1>4, <2>1, <2>2
      DEF HoldInv, PoolTypeOK, HoldsFollow, Hold, Go, Holding, Executing
    <3> QED BY <3>1, <3>2
  <2> QED BY <2>3, <2>4, <2>5 DEF HoldInv
<1> QED BY <1>1, <1>3, <1>4

LEMMA RegisterKeepsHold == ASSUME HoldInv, NEW t \in Threads, Register(t) PROVE HoldInv'
  BY DEF Register, Go, HoldInv, PoolTypeOK, HoldsFollow, WorkIsHeldOnce, Live, Holding, Executing

LEMMA RefuseKeepsHold == ASSUME HoldInv, NEW t \in Threads, Refuse(t) PROVE HoldInv'
  BY DEF Refuse, Go, HoldInv, PoolTypeOK, HoldsFollow, WorkIsHeldOnce, Live, Holding, Executing

LEMMA AbandonKeepsHold == ASSUME HoldInv, NEW t \in Threads, Abandon(t) PROVE HoldInv'
  BY DEF Abandon, Go, Hold, HoldInv, PoolTypeOK, HoldsFollow, WorkIsHeldOnce, Idle, Holding, Executing

LEMMA WorkKeepsHold == ASSUME HoldInv, NEW t \in Threads, Work(t) PROVE HoldInv'
<1>1. held[t] \in Works /\ held[t] # Nothing /\ work[held[t]] = "running"
  BY DEF Work, HoldInv, PoolTypeOK, HoldsFollow, Holding, Executing
<1>2. \A u \in Threads : u # t => held[u] # held[t]
  BY <1>1 DEF HoldInv, WorkIsHeldOnce
<1>3. PoolTypeOK'
  BY <1>1 DEF Work, Go, HoldInv, PoolTypeOK, Live
<1>4. WorkIsHeldOnce'
  BY DEF Work, Go, HoldInv, PoolTypeOK, WorkIsHeldOnce
<1>5. pc' = [pc EXCEPT ![t] = "discard"] /\ UNCHANGED held
      /\ (work' = [work EXCEPT ![held[t]] = "ended"] \/ UNCHANGED work)
  BY DEF Work, Go
<1>6. HoldsFollow'
  BY <1>1, <1>2, <1>5 DEF Work, HoldInv, PoolTypeOK, HoldsFollow, Holding, Executing
<1> QED BY <1>3, <1>4, <1>6 DEF HoldInv

LEMMA DiscardKeepsHold == ASSUME HoldInv, NEW t \in Threads, Discard(t) PROVE HoldInv'
<1>1. PoolTypeOK' /\ HoldsFollow'
  BY DEF Discard, Go, Hold, HoldInv, PoolTypeOK, HoldsFollow, Live, Holding, Executing
<1>2. WorkIsHeldOnce'
  BY DEF Discard, Go, Hold, HoldInv, PoolTypeOK, HoldsFollow, WorkIsHeldOnce, Holding, Executing
<1> QED BY <1>1, <1>2 DEF HoldInv

LEMMA HoldKeeps == ASSUME HoldInv, [PoolNext]_poolVars PROVE HoldInv'
<1>1. CASE UNCHANGED <<pc, held, work, active>>
  BY <1>1 DEF HoldInv, PoolTypeOK, HoldsFollow, WorkIsHeldOnce
<1>2. ASSUME NEW t \in Threads,
             Top(t) \/ ClaimRaises(t) \/ Fail(t) \/ Rest(t) \/ Awake(t) \/ Reap(t)
      PROVE  HoldInv'
  <2>1. /\ pc[t] \notin Holding /\ UNCHANGED <<work, held, active>>
        /\ \E where \in {"done", "jobs", "failing", "raised", "top", "wait", "none"} : Go(t, where)
    BY <1>2, FailingClaimsAreQueues
    DEF Top, ClaimRaises, Fail, Rest, Awake, Reap, Leave, Holding, Executing
  <2> QED BY <2>1, MovesKeepHold DEF Idle, Live, Holding, Executing
<1>3. ASSUME Close \/ Closing PROVE UNCHANGED <<pc, held, work, active>>
  BY <1>3 DEF Close, Closing, CancelActive, Shutdown, Join
<1> QED
  BY <1>1, <1>2, <1>3, EnqueueKeepsHold, WakeKeepsHold, ClaimKeepsHold, RegisterKeepsHold,
     RefuseKeepsHold, AbandonKeepsHold, WorkKeepsHold, DiscardKeepsHold
  DEF PoolNext, Thread, poolVars

\* What each thread of the pool holds, and that no two hold the same.
THEOREM InductiveHolds == PoolSpec => []HoldInv
  BY HoldBegins, HoldKeeps, PTL DEF PoolSpec

-----------------------------------------------------------------------------
(* The pool counts its threads. *)

\* Whether a claim may raise is up to the database; outside the try it costs a slot.
OnlyJobClaimsFail == FailingClaims \subseteq {"jobs"}

Counted == Live \ {"abandon"}

CountedThreads == {t \in Threads : pc[t] \in Counted}

CountInv == OnlyJobClaimsFail /\ SlotsAreReturned

LEMMA SlotsAreCounted ==
  /\ SlotsAreReturned <=> count = Cardinality(CountedThreads)
  /\ SlotsAreReturned' <=> count' = Cardinality(CountedThreads')
  BY DEF SlotsAreReturned, CountedThreads, Counted

LEMMA CountBegins == PoolInit /\ OnlyJobClaimsFail => CountInv
<1>1. PoolInit => CountedThreads = {}
  BY DEF PoolInit, CountedThreads, Counted, Live
<1> QED BY <1>1, FS_EmptySet, SlotsAreCounted DEF PoolInit, CountInv

\* A step of one thread that neither starts nor leaves.
LEMMA StayingKeepsCount ==
  ASSUME HoldInv, CountInv, NEW t \in Threads, NEW where, Go(t, where), UNCHANGED count,
         pc[t] \in Counted <=> where \in Counted
  PROVE  CountInv'
<1>1. CountedThreads' = CountedThreads
  BY DEF CountedThreads, Go, HoldInv, PoolTypeOK
<1> QED BY <1>1, SlotsAreCounted DEF CountInv, OnlyJobClaimsFail

\* A thread that leaves gives back one slot.
LEMMA LeavingKeepsCount ==
  ASSUME HoldInv, CountInv, NEW t \in Threads, NEW where, Go(t, where), count' = count - 1,
         pc[t] \in Counted, where \notin Counted
  PROVE  CountInv'
<1>1. CountedThreads' = CountedThreads \ {t} /\ t \in CountedThreads
  BY DEF CountedThreads, Go, HoldInv, PoolTypeOK
<1>2. IsFiniteSet(CountedThreads)
  BY FS_Subset, ThreadsAreFinite DEF CountedThreads
<1>3. Cardinality(CountedThreads') = Cardinality(CountedThreads) - 1
  BY <1>1, <1>2, FS_RemoveElement
<1> QED BY <1>3, SlotsAreCounted DEF CountInv, OnlyJobClaimsFail

\* A wakeup fills the pool: the threads it starts were not counted.
LEMMA SpawningKeepsCount == ASSUME HoldInv, CountInv, Spawn PROVE CountInv'
<1> DEFINE free == {t \in Threads : pc[t] \in Idle}
<1>1. PICK S \in SUBSET free :
        /\ Cardinality(S) = Concurrency - count
        /\ pc' = [t \in Threads |-> IF t \in S THEN "top" ELSE IF t \in free THEN "none" ELSE pc[t]]
        /\ count' = Concurrency
  BY DEF Spawn
<1>2. CountedThreads' = CountedThreads \cup S /\ CountedThreads \cap S = {}
  BY <1>1 DEF CountedThreads, Counted, Idle, Live
<1>3. IsFiniteSet(CountedThreads) /\ IsFiniteSet(S)
  BY FS_Subset, ThreadsAreFinite DEF CountedThreads
<1>4. Cardinality(CountedThreads') = Cardinality(CountedThreads) + Cardinality(S) - Cardinality({})
  BY <1>2, <1>3, FS_Union
<1>5. /\ Cardinality(CountedThreads) \in Nat /\ Cardinality(Threads) \in Nat
      /\ Cardinality({}) = 0
  BY <1>3, ThreadsAreFinite, FS_CardinalityType, FS_EmptySet
<1>6. count = Cardinality(CountedThreads)
  BY SlotsAreCounted DEF CountInv
<1>7. Cardinality(CountedThreads') = count'
  BY <1>1, <1>4, <1>5, <1>6 DEF Concurrency
<1> QED BY <1>7, SlotsAreCounted DEF CountInv, OnlyJobClaimsFail

LEMMA CountKeeps == ASSUME HoldInv, CountInv, [PoolNext]_poolVars PROVE CountInv'
<1>1. CASE UNCHANGED <<pc, count>>
  BY <1>1 DEF CountInv, SlotsAreReturned, OnlyJobClaimsFail
<1>2. ASSUME NEW w \in Works \cup {Boot}, Wake(w) PROVE CountInv'
  BY <1>1, <1>2, SpawningKeepsCount DEF Wake
<1>3. ASSUME NEW t \in Threads, Top(t) \/ Rest(t) \/ Fail(t) \/ Refuse(t) PROVE CountInv'
  <2>1. \/ \E where \in {"jobs", "top", "wait"} :
             pc[t] \in Counted /\ Go(t, where) /\ UNCHANGED count
        \/ \E where \in {"done", "abandon"} :
             pc[t] \in Counted /\ Go(t, where) /\ count' = count - 1
    BY <1>3 DEF Top, Rest, Fail, Refuse, Leave, Counted, Live
  <2> QED BY <2>1, StayingKeepsCount, LeavingKeepsCount DEF Counted, Live
<1>4. ASSUME NEW t \in Threads,
             Claim(t) \/ ClaimRaises(t) \/ Register(t) \/ Work(t) \/ Discard(t) \/ Awake(t)
      PROVE  CountInv'
  <2>1. CASE Claim(t)
    <3>1. /\ pc[t] \in Counted /\ UNCHANGED count
          /\ \E where \in {"claimed", "taken", "fetches", "batches", "rest"} : Go(t, where)
      BY <2>1 DEF Claim, After, Counted, Live
    <3> QED BY <3>1, StayingKeepsCount DEF Counted, Live
  <2>2. CASE ClaimRaises(t)
    BY <2>2, StayingKeepsCount DEF ClaimRaises, CountInv, OnlyJobClaimsFail, Counted, Live
  <2>3. CASE Register(t) \/ Work(t) \/ Discard(t) \/ Awake(t)
    <3>1. /\ pc[t] \in Counted /\ UNCHANGED count
          /\ \E where \in {"work", "discard", "top"} : Go(t, where)
      BY <2>3 DEF Register, Work, Discard, Awake, Counted, Live
    <3> QED BY <3>1, StayingKeepsCount DEF Counted, Live
  <2> QED BY <1>4, <2>1, <2>2, <2>3
<1>5. ASSUME NEW t \in Threads, Abandon(t) \/ Reap(t) PROVE CountInv'
  BY <1>5, StayingKeepsCount DEF Abandon, Reap, Counted, Live
<1>6. ASSUME (\E w \in Works : Enqueue(w)) \/ Close \/ Closing PROVE UNCHANGED <<pc, count>>
  BY <1>6 DEF Enqueue, Close, Closing, CancelActive, Shutdown, Join
<1> QED BY <1>1, <1>2, <1>3, <1>4, <1>5, <1>6 DEF PoolNext, Thread, poolVars

\* Where only the first claim may raise, the pool counts its threads and no two of
\* them hold the same work, in any order of wakeups, claims, failures and leaving.
THEOREM AccountsHold == PoolSpec /\ OnlyJobClaimsFail => []ThreadsAreAccounted
<1>1. HoldInv /\ CountInv => ThreadsAreAccounted
  BY DEF HoldInv, CountInv, ThreadsAreAccounted
<1>2. HoldInv /\ CountInv /\ [PoolNext]_poolVars => CountInv'
  BY CountKeeps
<1> QED BY <1>1, <1>2, CountBegins, InductiveHolds, PTL DEF PoolSpec

-----------------------------------------------------------------------------
(* A close reaches every Job. *)

RowsAreWritten == StorageMayFail = FALSE

\* A running Job has its thread, or was asked to stop.  Once close has looked, the
\* Job of any thread is cancelled or about to be.
CloseInv ==
  /\ RowsAreWritten
  /\ closer \in {"open", "cancelling", "joining", "closed"}
  /\ closer # "cancelling" => toCancel = {}
  /\ \A w \in Jobs : work[w] = "running" =>
       w \in cancelled \/ \E t \in Threads : held[t] = w /\ pc[t] \in Executing
  /\ closed => \A t \in Threads :
       pc[t] = "work" /\ held[t] \in Jobs => held[t] \in cancelled \cup toCancel
  /\ closer = "closed" => \A t \in Threads : pc[t] \in Idle

LEMMA CloseBegins == PoolInit /\ RowsAreWritten => CloseInv
  BY DEF PoolInit, CloseInv, closed, Works

\* A step that gives no thread work, ends none and cancels nothing.
LEMMA MovesKeepClose ==
  ASSUME CloseInv, NEW t \in Threads, NEW where, pc[t] \notin Executing, where \notin Executing,
         HoldInv, Go(t, where), pc[t] \in Idle => where \in Idle,
         UNCHANGED <<work, held, cancelled, closer, toCancel>>
  PROVE  CloseInv'
  BY DEF CloseInv, RowsAreWritten, closed, HoldInv, PoolTypeOK, Go, Executing

LEMMA EnqueueKeepsClose == ASSUME CloseInv, HoldInv, NEW w \in Works, Enqueue(w) PROVE CloseInv'
  BY DEF Enqueue, CloseInv, RowsAreWritten, closed, HoldInv, PoolTypeOK, Works

LEMMA WakeKeepsClose == ASSUME CloseInv, HoldInv, NEW w \in Works \cup {Boot}, Wake(w) PROVE CloseInv'
<1>1. UNCHANGED <<work, held, cancelled, closer, toCancel>>
  BY DEF Wake
<1>2. CASE UNCHANGED pc
  BY <1>1, <1>2 DEF CloseInv, RowsAreWritten, closed
<1>3. CASE ~closed /\ Spawn
  <2>1. \A t \in Threads : pc'[t] = pc[t] \/ (pc[t] \in Idle /\ pc'[t] \notin Executing)
    BY <1>3 DEF Spawn, Executing
  <2>2. closer = "open" /\ closer' = "open"
    BY <1>1, <1>3 DEF closed
  <2> QED BY <1>1, <2>1, <2>2 DEF CloseInv, RowsAreWritten, closed, Idle, Executing
<1> QED BY <1>2, <1>3 DEF Wake

\* Claimed work has its thread at once.
LEMMA ClaimKeepsClose == ASSUME CloseInv, HoldInv, NEW t \in Threads, Claim(t) PROVE CloseInv'
<1>1. PICK k \in {"jobs", "fetches", "batches"} :
        /\ pc[t] = k
        /\ \/ \E w \in Queued(k) :
                /\ work' = [work EXCEPT ![w] = "running"] /\ Hold(t, w)
                /\ Go(t, IF k = "jobs" THEN "claimed" ELSE "taken")
           \/ Queued(k) = {} /\ Go(t, After(k)) /\ UNCHANGED <<work, held>>
        /\ UNCHANGED <<cancelled, closer, toCancel>>
  BY DEF Claim
<1>2. pc[t] \notin Executing /\ pc[t] \notin Idle
  BY <1>1 DEF Executing, Idle
<1>3. CASE Go(t, After(k)) /\ UNCHANGED <<work, held>>
  <2>1. After(k) \notin Executing
    BY DEF After, Executing
  <2> QED BY <1>1, <1>2, <1>3, <2>1, MovesKeepClose
<1>4. ASSUME NEW w \in Queued(k), work' = [work EXCEPT ![w] = "running"], Hold(t, w),
             Go(t, IF k = "jobs" THEN "claimed" ELSE "taken")
      PROVE  CloseInv'
  <2>1. /\ pc'[t] \in {"claimed", "taken"} /\ held'[t] = w
        /\ \A u \in Threads : u # t => pc'[u] = pc[u] /\ held'[u] = held[u]
        /\ \A v \in Jobs : v # w => work'[v] = work[v]
    BY <1>4 DEF HoldInv, PoolTypeOK, Hold, Go, Works
  <2>2. closer # "closed"
    BY <1>2 DEF CloseInv
  <2>3. \A v \in Jobs : work'[v] = "running" =>
          v \in cancelled' \/ \E u \in Threads : held'[u] = v /\ pc'[u] \in Executing
    BY <1>1, <1>2, <2>1 DEF CloseInv, Executing
  <2> QED BY <1>1, <2>1, <2>2, <2>3 DEF CloseInv, RowsAreWritten, closed
<1> QED BY <1>1, <1>3, <1>4

\* Only a fetch or a batch is taken up once the pool closes.
LEMMA RegisterKeepsClose == ASSUME CloseInv, HoldInv, NEW t \in Threads, Register(t) PROVE CloseInv'
<1>1. pc[t] \in {"claimed", "taken"} /\ pc' = [pc EXCEPT ![t] = "work"]
      /\ (closed => pc[t] = "taken") /\ UNCHANGED <<work, held, cancelled, closer, toCancel>>
  BY DEF Register, Go
<1>2. closed => held[t] \notin Jobs
  BY <1>1 DEF HoldInv, HoldsFollow
<1> QED BY <1>1, <1>2 DEF CloseInv, RowsAreWritten, closed, HoldInv, PoolTypeOK, Executing, Idle

LEMMA RefuseKeepsClose == ASSUME CloseInv, HoldInv, NEW t \in Threads, Refuse(t) PROVE CloseInv'
  BY DEF Refuse, Go, CloseInv, RowsAreWritten, closed, HoldInv, PoolTypeOK, Executing, Idle

\* A Job that the closing pool lets go has been cancelled: its row is running.
LEMMA AbandonKeepsClose == ASSUME CloseInv, HoldInv, NEW t \in Threads, Abandon(t) PROVE CloseInv'
<1>1. cancelled' = cancelled \cup {held[t]}
  BY DEF Abandon, Cancel, CloseInv, RowsAreWritten, HoldInv, HoldsFollow, Executing
<1>2. /\ pc' = [pc EXCEPT ![t] = "done"] /\ held' = [held EXCEPT ![t] = Nothing]
      /\ UNCHANGED <<work, closer, toCancel>>
  BY DEF Abandon, Go, Hold
<1> QED BY <1>1, <1>2 DEF CloseInv, RowsAreWritten, closed, HoldInv, PoolTypeOK, Executing, Idle

LEMMA WorkKeepsClose == ASSUME CloseInv, HoldInv, NEW t \in Threads, Work(t) PROVE CloseInv'
<1>1. held[t] \in Works /\ pc[t] = "work" /\ work' = [work EXCEPT ![held[t]] = "ended"]
  BY DEF Work, HoldInv, PoolTypeOK, HoldsFollow, CloseInv, RowsAreWritten, Holding, Executing
<1>2. pc' = [pc EXCEPT ![t] = "discard"] /\ UNCHANGED <<held, cancelled, closer, toCancel>>
  BY DEF Work, Go
<1>3. \A w \in Jobs : work'[w] = "running" =>
        w \in cancelled' \/ \E u \in Threads : held'[u] = w /\ pc'[u] \in Executing
  BY <1>1, <1>2 DEF CloseInv, HoldInv, PoolTypeOK, Works
<1> QED BY <1>1, <1>2, <1>3
     DEF CloseInv, RowsAreWritten, closed, HoldInv, PoolTypeOK, Executing, Idle

LEMMA DiscardKeepsClose == ASSUME CloseInv, HoldInv, NEW t \in Threads, Discard(t) PROVE CloseInv'
  BY DEF Discard, Go, Hold, CloseInv, RowsAreWritten, closed, HoldInv, PoolTypeOK, Executing, Idle

\* What close looks at is all that runs: work is registered before it begins.
LEMMA ClosingKeepsClose == ASSUME CloseInv, HoldInv, Close \/ Closing PROVE CloseInv'
<1>1. \A t \in Threads :
        pc[t] = "work" => held[t] \in active /\ work[held[t]] = "running"
  BY DEF HoldInv, HoldsFollow, WorkIsHeldOnce, Executing
<1>2. CASE Close
  BY <1>1, <1>2 DEF Close, CloseInv, RowsAreWritten, closed
<1>3. CASE CancelActive
  BY <1>1, <1>3 DEF CancelActive, Cancel, CloseInv, RowsAreWritten, closed
<1>4. CASE Shutdown
  BY <1>4 DEF Shutdown, CloseInv, RowsAreWritten, closed
<1>5. CASE Join
  BY <1>5 DEF Join, CloseInv, RowsAreWritten, closed
<1> QED BY <1>2, <1>3, <1>4, <1>5 DEF Closing

LEMMA CloseKeeps == ASSUME CloseInv, HoldInv, [PoolNext]_poolVars PROVE CloseInv'
<1>1. CASE UNCHANGED poolVars
  BY <1>1 DEF CloseInv, RowsAreWritten, closed, poolVars
<1>2. ASSUME NEW t \in Threads,
             Top(t) \/ ClaimRaises(t) \/ Fail(t) \/ Rest(t) \/ Awake(t) \/ Reap(t)
      PROVE  CloseInv'
  <2>1. /\ pc[t] \notin Executing /\ UNCHANGED <<work, held, cancelled, closer, toCancel>>
        /\ \/ pc[t] \notin Idle /\ \E where \in {"done", "jobs", "failing", "raised", "top", "wait"} :
                                     Go(t, where)
           \/ Go(t, "none")
    BY <1>2, FailingClaimsAreQueues
    DEF Top, ClaimRaises, Fail, Rest, Awake, Reap, Leave, Executing, Idle
  <2> QED BY <2>1, MovesKeepClose DEF Idle, Executing
<1> QED
  BY <1>1, <1>2, EnqueueKeepsClose, WakeKeepsClose, ClaimKeepsClose, RegisterKeepsClose,
     RefuseKeepsClose, AbandonKeepsClose, WorkKeepsClose, DiscardKeepsClose, ClosingKeepsClose
  DEF PoolNext, Thread

\* Where rows can be written, a close leaves no Job in execution, or running, that was
\* not asked to stop, however claims and registrations interleave with it.
THEOREM CloseHolds == PoolSpec /\ RowsAreWritten => []CloseReachesEveryJob
<1>1. HoldInv /\ CloseInv => CloseReachesEveryJob
  BY DEF HoldInv, CloseInv, closed, CloseReachesEveryJob, Executing, Idle
<1>2. HoldInv /\ CloseInv /\ [PoolNext]_poolVars => CloseInv'
  BY CloseKeeps
<1> QED BY <1>1, <1>2, CloseBegins, InductiveHolds, PTL DEF PoolSpec

-----------------------------------------------------------------------------
(* PART II: targets and the operation that composes them *)

Requests ==
  [limits : [Resources -> Nat], tries : Nat, explore : BOOLEAN, preferred : Tools,
   fit : SUBSET Tools, unfit : SUBSET Tools, only : SUBSET Tools, skilled : BOOLEAN]

AttemptRecords ==
  {a \in [tool : Tools \cup {"transform"}, outcome : {"succeeded", "failed"},
          code : Codes \cup {"none", "cancelled"}] :
     a.outcome = "succeeded" <=> a.code = "none"}

Phases == {"idle", "start", "rank", "call", "commit", "source", "transform", "transforming",
           "derived", "done"}

\* The state of a target, and how far its phase says it has come.
TargetTypes ==
  /\ request \in Requests /\ phase \in Phases /\ pool \subseteq Tools
  /\ (phase = "call") => tool \in Tools
  /\ attempts \in Seq(AttemptRecords)
  /\ used \in [Resources -> Nat]
  /\ phase \in {"idle", "start"} => attempts = <<>>
  /\ phase = "idle" => used = [r \in Resources |-> 0]
  /\ phase = "commit" => attempts # <<>> /\ attempts[Len(attempts)].tool \in Tools

\* What the loop over the tools knows: every attempt so far permits one more, by a tool not
\* called yet, and the preferred tool has had its turn.
Switching ==
  /\ SwitchIsAllowed
  /\ phase \in {"rank", "call"} =>
       \A i \in DOMAIN attempts :
         /\ attempts[i].tool \in Tools /\ request.explore
         /\ AllowsSwitch(attempts[i].code, attempts[i].tool)
         /\ attempts[i].code = "cloudflare" => pool \subseteq {"playwright"}
         /\ request.preferred \in Tried \/ request.preferred \notin request.only
  /\ phase = "call" =>
       /\ tool \in (pool \cap request.fit \cap request.only) \ Tried
       /\ attempts = <<>> => tool = request.preferred \/ request.preferred \notin request.only
       /\ attempts # <<>> => tool # request.preferred

\* From the acceptance of a body to the end of a transform nothing is overspent, and a tool
\* or a transform begins only while an attempt is left for it.
Paying ==
  /\ StoredIsPaidFor
  /\ phase = "call" => TriesLeft > 0
  /\ phase \in {"commit", "source", "transform", "transforming", "derived"} =>
       \A r \in Resources : used[r] <= request.limits[r]
  /\ phase \in {"transform", "transforming"} => TriesLeft > 0

AllCodes == Codes \cup {"none", "cancelled", "ineligible", "method"}

\* What is stored in each phase, and what the ending says of it.
Telling ==
  /\ errors \subseteq AllCodes
  /\ phase # "done" => ending = "none" /\ errors = {}
  /\ phase \in {"idle", "start", "rank", "call", "commit"} => stored = {}
  /\ phase \in {"source", "transform", "transforming"} => stored = {"source"}
  /\ phase = "derived" => stored = {"source", "derived"}
  /\ stored \subseteq {"source", "derived"}
  /\ phase = "done" =>
       \/ /\ ending \in {"rejected", "unavailable", "unacquired", "cancelled", "uncommitted"}
          /\ stored = {}
       \/ ending \in {"interrupted", "stored"} /\ "source" \in stored
  /\ phase = "done" /\ ending = "stored" =>
       \/ errors = {} \/ "cancelled" \in errors
       \/ \E i \in DOMAIN attempts : attempts[i].outcome # "succeeded"

TargetInv == TargetTypes /\ Switching /\ Paying /\ Telling

LEMMA ThreeTools == Tools = {"web_http", "playwright", "cloakbrowser"}
  BY DEF Tools, Rank

\* Among the tools ranked, the one called is one of them.
LEMMA ChoiceIsRanked ==
  ASSUME pool \subseteq Tools, Ranked # {}
  PROVE  Choice \in Ranked
<1>1. Ranked \subseteq {"web_http", "playwright", "cloakbrowser"}
  BY ThreeTools DEF Ranked, Eligible
<1>2. CASE request.preferred \in Ranked
  BY <1>2 DEF Choice
<1>3. CASE request.preferred \notin Ranked
  <2>1. Rank["web_http"] = 1 /\ Rank["playwright"] = 2 /\ Rank["cloakbrowser"] = 3
    BY DEF Rank
  <2>2. \E t \in Ranked : \A o \in Ranked : Rank[t] <= Rank[o]
    <3>1. CASE "web_http" \in Ranked
      <4>1. \A o \in Ranked : Rank["web_http"] <= Rank[o]
        BY <1>1, <2>1
      <4>2. QED BY <3>1, <4>1
    <3>2. CASE "web_http" \notin Ranked /\ "playwright" \in Ranked
      <4>1. \A o \in Ranked : Rank["playwright"] <= Rank[o]
        BY <1>1, <2>1, <3>2
      <4>2. QED BY <3>2, <4>1
    <3>3. CASE "web_http" \notin Ranked /\ "playwright" \notin Ranked
      <4>1. Ranked = {"cloakbrowser"}
        BY <1>1, <3>3
      <4>2. \A o \in Ranked : Rank["cloakbrowser"] <= Rank[o]
        BY <2>1, <4>1
      <4>3. QED BY <4>1, <4>2
    <3>4. QED BY <3>1, <3>2, <3>3
  <2>3. Choice = CHOOSE t \in Ranked : \A o \in Ranked : Rank[t] <= Rank[o]
    BY <1>3 DEF Choice
  <2>4. QED BY <2>2, <2>3
<1>4. QED BY <1>2, <1>3

LEMMA AttemptIsRecord ==
  ASSUME NEW by \in Tools \cup {"transform"}, NEW code \in Codes \cup {"none", "cancelled"}
  PROVE  /\ Attempt(by, code) \in AttemptRecords
         /\ Attempt(by, code).tool = by /\ Attempt(by, code).code = code
         /\ Attempt(by, code).outcome = (IF code = "none" THEN "succeeded" ELSE "failed")
  BY DEF Attempt, AttemptRecords

\* One more attempt.
LEMMA AppendFields ==
  ASSUME attempts \in Seq(AttemptRecords), NEW a \in AttemptRecords
  PROVE  LET new == Append(attempts, a) IN
         /\ new \in Seq(AttemptRecords) /\ new # <<>>
         /\ Len(new) = Len(attempts) + 1 /\ DOMAIN new = 1 .. Len(attempts) + 1
         /\ \A i \in DOMAIN attempts : i \in 1 .. Len(attempts) /\ new[i] = attempts[i]
         /\ new[Len(attempts) + 1] = a
  OBVIOUS

\* The last attempt with another code.
LEMMA RewrittenFields ==
  ASSUME attempts \in Seq(AttemptRecords), attempts # <<>>,
         NEW code \in Codes \cup {"none", "cancelled"}
  PROVE  /\ Rewritten(code) \in Seq(AttemptRecords)
         /\ Len(Rewritten(code)) = Len(attempts) /\ DOMAIN Rewritten(code) = DOMAIN attempts
         /\ \A i \in DOMAIN attempts :
              /\ i \in 1 .. Len(attempts) /\ Rewritten(code)[i].tool = attempts[i].tool
              /\ i # Len(attempts) => Rewritten(code)[i] = attempts[i]
<1> DEFINE last == attempts[Len(attempts)]
           a == Attempt(last.tool, code)
<1>1. Len(attempts) \in DOMAIN attempts /\ last \in AttemptRecords
  OBVIOUS
<1>2. a \in AttemptRecords /\ a.tool = last.tool
  BY <1>1, AttemptIsRecord DEF AttemptRecords
<1>3. Rewritten(code) = [attempts EXCEPT ![Len(attempts)] = a]
  BY DEF Rewritten
<1> HIDE DEF a
<1>4. QED BY <1>1, <1>2, <1>3

-----------------------------------------------------------------------------
(* Types of a target *)

LEMMA StartKeepsTargetTypes ==
  ASSUME NEW r \in Requests, StartTarget(r)
  PROVE  TargetTypes'
  BY DEF StartTarget, TargetTypes, Requests, Phases

LEMMA NoRequestIsRequest ==
  ASSUME NEW fit \in SUBSET Tools, NEW unfit \in SUBSET Tools
  PROVE  [NoRequest EXCEPT !.fit = fit, !.unfit = unfit] \in Requests
<1>1. "web_http" \in Tools
  BY ThreeTools
<1>2. QED BY <1>1 DEF NoRequest, Requests

LEMMA LeaveKeepsTargetTypes ==
  ASSUME TargetTypes, LeaveTarget
  PROVE  TargetTypes'
<1>1. request.fit \in SUBSET Tools /\ request.unfit \in SUBSET Tools
  BY DEF TargetTypes, Requests
<1>2. request' \in Requests
  BY <1>1, NoRequestIsRequest DEF LeaveTarget
<1>3. QED BY <1>2 DEF LeaveTarget, TargetTypes, Phases

\* What a call spends is counted.
LEMMA SpendingIsCounted ==
  ASSUME used \in [Resources -> Nat], NEW amount \in Amounts
  PROVE  [r \in Resources |-> used[r] + amount[r]] \in [Resources -> Nat]
  BY SpendIsBounded DEF Amounts

LEMMA ToolReturnsFacts ==
  ASSUME TargetTypes, ToolReturns
  PROVE  \E amount \in Amounts, code \in Codes \cup {"none", "cancelled"} :
           LET over == \E r \in Resources : Over(amount, r) IN
           /\ phase = "call" /\ tool \in Tools
           /\ used' = [r \in Resources |-> used[r] + amount[r]]
           /\ attempts' = Called(code)
           /\ UNCHANGED <<request, tool, skipped, stored, cancel>>
           /\ \/ cancel /\ code # "none" /\ End("cancelled", {"cancelled"}) /\ UNCHANGED pool
              \/ ~cancel /\ code = "none" /\ ~over /\ Goto("commit") /\ UNCHANGED pool
              \/ /\ ~cancel /\ code \in Codes /\ pool' = Followups(code, tool)
                 /\ \/ request.explore /\ AllowsSwitch(code, tool) /\ Goto("rank")
                    \/ End("unacquired", {code})
<1>1. PICK amount \in Amounts, reply \in Codes \cup {"none"} :
        LET code == IF \E r \in Resources : Over(amount, r) THEN "limit" ELSE reply IN
        /\ used' = [r \in Resources |-> used[r] + amount[r]]
        /\ \/ /\ cancel
              /\ attempts' = Called(IF code = "none" THEN "cancelled" ELSE code)
              /\ End("cancelled", {"cancelled"}) /\ UNCHANGED pool
           \/ /\ ~cancel /\ code = "none"
              /\ attempts' = Called(code) /\ Goto("commit") /\ UNCHANGED pool
           \/ /\ ~cancel /\ code # "none"
              /\ attempts' = Called(code) /\ pool' = Followups(code, tool)
              /\ IF request.explore /\ AllowsSwitch(code, tool) THEN Goto("rank")
                 ELSE End("unacquired", {code})
  BY DEF ToolReturns
<1> DEFINE over == \E r \in Resources : Over(amount, r)
           code == IF over THEN "limit" ELSE reply
<1>2. code \in Codes \cup {"none"} /\ (code = "none" => ~over) /\ (code # "none" => code \in Codes)
  BY DEF Codes
<1>3. phase = "call" /\ tool \in Tools /\ UNCHANGED <<request, tool, skipped, stored, cancel>>
  BY DEF ToolReturns, TargetTypes
<1> HIDE DEF over
<1>4. CASE cancel
  <2> DEFINE noted == IF code = "none" THEN "cancelled" ELSE code
  <2>1. noted \in Codes \cup {"none", "cancelled"} /\ noted # "none"
    BY <1>2
  <2>2. attempts' = Called(noted) /\ End("cancelled", {"cancelled"}) /\ UNCHANGED pool
    BY <1>1, <1>4 DEF over
  <2> HIDE DEF noted, code
  <2>3. QED BY <1>1, <1>3, <1>4, <2>1, <2>2
<1>5. CASE ~cancel /\ code = "none"
  <2>1. attempts' = Called("none") /\ Goto("commit") /\ UNCHANGED pool
    BY <1>1, <1>5 DEF over
  <2>2. QED BY <1>1, <1>2, <1>3, <1>5, <2>1 DEF over
<1>6. CASE ~cancel /\ code # "none"
  <2>1. /\ attempts' = Called(code) /\ pool' = Followups(code, tool)
        /\ \/ request.explore /\ AllowsSwitch(code, tool) /\ Goto("rank")
           \/ End("unacquired", {code})
    BY <1>1, <1>6 DEF over
  <2> HIDE DEF code
  <2>2. QED BY <1>1, <1>2, <1>3, <1>6, <2>1 DEF over
<1>7. QED BY <1>4, <1>5, <1>6

-----------------------------------------------------------------------------
(* What one more attempt, or a rewritten one, leaves of Switching *)

\* After the call of a tool: the attempts are ordered as they must be, and if the failure
\* permits a switch, every one of them permits it.
LEMMA CallKeepsSwitching ==
  ASSUME TargetTypes, Switching, phase = "call", UNCHANGED request,
         NEW code \in Codes \cup {"none", "cancelled"}, attempts' = Called(code)
  PROVE  /\ SwitchIsAllowed'
         /\ request.preferred \in Tried' \/ request.preferred \notin request.only
         /\ request.explore /\ AllowsSwitch(code, tool) /\ pool' = Followups(code, tool) =>
              \A i \in DOMAIN attempts' :
                /\ attempts'[i].tool \in Tools
                /\ AllowsSwitch(attempts'[i].code, attempts'[i].tool)
                /\ attempts'[i].code = "cloudflare" => pool' \subseteq {"playwright"}
<1> DEFINE a == Attempt(tool, code)
           n == Len(attempts) + 1
<1>1. tool \in Tools /\ "transform" \notin Tools
  BY ThreeTools DEF TargetTypes
<1>2. a \in AttemptRecords /\ a.tool = tool /\ a.code = code
  BY <1>1, AttemptIsRecord
<1>3. attempts' = Append(attempts, a) /\ attempts \in Seq(AttemptRecords)
  BY DEF Called, TargetTypes
<1> HIDE DEF a
<1>4. /\ DOMAIN attempts' = 1 .. n /\ n \in Nat /\ n = Len(attempts) + 1
      /\ \A i \in DOMAIN attempts : i \in 1 .. Len(attempts) /\ attempts'[i] = attempts[i]
      /\ attempts'[n] = a
      /\ DOMAIN attempts = 1 .. Len(attempts) /\ Len(attempts) \in Nat
  BY <1>2, <1>3, AppendFields
<1> HIDE DEF n
<1>5. \A i \in DOMAIN attempts' : i \in DOMAIN attempts \/ i = n
  BY <1>4
<1>6. \A i \in DOMAIN attempts : attempts[i].tool \in Tried
  BY DEF Tried
<1>7. /\ tool \in (pool \cap request.fit \cap request.only) \ Tried
      /\ attempts = <<>> => tool = request.preferred \/ request.preferred \notin request.only
      /\ attempts # <<>> => tool # request.preferred
      /\ \A i \in DOMAIN attempts :
           /\ attempts[i].tool \in Tools /\ request.explore
           /\ AllowsSwitch(attempts[i].code, attempts[i].tool)
           /\ attempts[i].code = "cloudflare" => pool \subseteq {"playwright"}
           /\ request.preferred \in Tried \/ request.preferred \notin request.only
  BY DEF Switching
<1>8. \A i \in DOMAIN attempts : attempts # <<>>
  BY <1>3
<1>9. SwitchIsAllowed'
  <2>1. \A i \in Acquisitions' : attempts'[i].tool \in request.fit \cap request.only
    BY <1>2, <1>4, <1>5, <1>7 DEF Switching, SwitchIsAllowed, Acquisitions
  <2>2. ASSUME NEW i \in Acquisitions', NEW j \in Acquisitions', i < j
        PROVE  /\ request.explore /\ attempts'[i].tool # attempts'[j].tool
               /\ attempts'[j].tool # request.preferred
               /\ AllowsSwitch(attempts'[i].code, attempts'[i].tool)
               /\ (attempts'[i].code = "cloudflare") => attempts'[j].tool = "playwright"
    <3>1. i \in DOMAIN attempts
      BY <1>4, <1>5, <2>2 DEF Acquisitions
    <3>2. CASE j \in DOMAIN attempts
      <4>1. i \in Acquisitions /\ j \in Acquisitions
        BY <1>4, <3>1, <3>2 DEF Acquisitions
      <4>2. QED BY <1>4, <2>2, <3>1, <3>2, <4>1 DEF Switching, SwitchIsAllowed
    <3>3. CASE j = n
      BY <1>2, <1>4, <1>6, <1>7, <1>8, <3>1, <3>3
    <3>4. QED BY <1>5, <3>2, <3>3 DEF Acquisitions
  <2>3. QED BY <2>1, <2>2 DEF SwitchIsAllowed
<1>10. request.preferred \in Tried' \/ request.preferred \notin request.only
  <2>1. tool \in Tried'
    BY <1>2, <1>4 DEF Tried
  <2>2. \A t \in Tried : t \in Tried'
    BY <1>4 DEF Tried
  <2>3. attempts # <<>> => request.preferred \in Tried \/ request.preferred \notin request.only
    BY <1>4, <1>7, <1>3, 1 \in 1 .. Len(attempts) \/ attempts = <<>>
  <2>4. QED BY <1>7, <2>1, <2>2, <2>3
<1>11. ASSUME request.explore, AllowsSwitch(code, tool), pool' = Followups(code, tool)
       PROVE  \A i \in DOMAIN attempts' :
                /\ attempts'[i].tool \in Tools
                /\ AllowsSwitch(attempts'[i].code, attempts'[i].tool)
                /\ attempts'[i].code = "cloudflare" => pool' \subseteq {"playwright"}
  <2>1. pool' \subseteq pool /\ (code = "cloudflare" => pool' \subseteq {"playwright"})
    BY <1>11 DEF AllowsSwitch, Followups
  <2>2. QED BY <1>1, <1>2, <1>4, <1>5, <1>7, <1>11, <2>1
<1>12. QED BY <1>9, <1>10, <1>11

\* A transform is no acquisition.
LEMMA TransformKeepsSwitching ==
  ASSUME attempts \in Seq(AttemptRecords), SwitchIsAllowed, UNCHANGED request,
         NEW a \in AttemptRecords, a.tool = "transform", attempts' = Append(attempts, a)
  PROVE  SwitchIsAllowed'
<1>1. a.tool \notin Tools
  BY ThreeTools
<1>2. /\ DOMAIN attempts' = 1 .. Len(attempts) + 1 /\ DOMAIN attempts = 1 .. Len(attempts)
      /\ \A i \in DOMAIN attempts : attempts'[i] = attempts[i]
      /\ attempts'[Len(attempts) + 1] = a /\ Len(attempts) \in Nat
  BY AppendFields
<1>3. Acquisitions' = Acquisitions /\ Acquisitions \subseteq DOMAIN attempts
  BY <1>1, <1>2 DEF Acquisitions
<1>4. QED BY <1>2, <1>3 DEF SwitchIsAllowed

\* What became of the accepted body does not change which tools were called.
LEMMA RewritingKeepsSwitching ==
  ASSUME attempts \in Seq(AttemptRecords), attempts # <<>>, SwitchIsAllowed, UNCHANGED request,
         NEW code \in Codes \cup {"none", "cancelled"}, attempts' = Rewritten(code)
  PROVE  SwitchIsAllowed'
<1>1. /\ DOMAIN attempts' = DOMAIN attempts /\ DOMAIN attempts = 1 .. Len(attempts)
      /\ \A i \in DOMAIN attempts :
           /\ attempts'[i].tool = attempts[i].tool
           /\ i # Len(attempts) => attempts'[i] = attempts[i]
      /\ Len(attempts) \in Nat
  BY RewrittenFields
<1>2. Acquisitions' = Acquisitions /\ Acquisitions \subseteq DOMAIN attempts
  BY <1>1 DEF Acquisitions
<1>3. \A i, j \in Acquisitions : i < j => i # Len(attempts)
  BY <1>1, <1>2
<1>4. QED BY <1>1, <1>2, <1>3 DEF SwitchIsAllowed

-----------------------------------------------------------------------------
(* The steps of a target *)

\* What is decided about a body leaves the attempts and their usage alone.
LEMMA DecisionKeepsAttempts ==
  ASSUME TargetInv, UNCHANGED <<request, attempts, used>>, phase' \in Phases,
         phase' \notin {"idle", "start", "rank", "call", "commit", "derived"},
         phase' \in {"source", "transform", "transforming"} =>
           phase \in {"commit", "source", "transform", "transforming"},
         phase' \in {"transform", "transforming"} => TriesLeft > 0,
         UNCHANGED <<pool, stored>>
  PROVE  TargetTypes' /\ Switching' /\ Paying'
<1>1. TargetTypes'
  BY DEF TargetInv, TargetTypes
<1>2. Switching'
  BY DEF TargetInv, Switching, SwitchIsAllowed, Acquisitions
<1>3. Paying'
  BY DEF TargetInv, Paying, StoredIsPaidFor, TriesLeft
<1>4. QED BY <1>1, <1>2, <1>3

LEMMA ResolvingIsSafe ==
  ASSUME TargetInv, ResolveSkill
  PROVE  TargetInv'
<1>1. attempts = <<>> /\ UNCHANGED <<request, pool, tool, skipped, attempts, used, stored, cancel>>
  BY DEF ResolveSkill, TargetInv, TargetTypes
<1>2. \/ phase' = "done" /\ ending' = "rejected" /\ errors' = {"ineligible"}
      \/ phase' = "rank" /\ UNCHANGED <<ending, errors>>
  BY DEF ResolveSkill, End, Goto
<1>3. TargetTypes'
  BY <1>1, <1>2 DEF TargetInv, TargetTypes, Phases
<1>4. Switching'
  BY <1>1, <1>2 DEF TargetInv, Switching, SwitchIsAllowed, Acquisitions
<1>5. Paying'
  BY <1>1, <1>2 DEF TargetInv, Paying, StoredIsPaidFor, ResolveSkill, Telling
<1>6. Telling'
  BY <1>1, <1>2 DEF TargetInv, Telling, AllCodes, ResolveSkill
<1>7. QED BY <1>3, <1>4, <1>5, <1>6 DEF TargetInv

LEMMA RankingIsSafe ==
  ASSUME TargetInv, RankTools
  PROVE  TargetInv'
<1>1. phase = "rank" /\ UNCHANGED <<request, pool, attempts, used, stored, cancel>>
  BY DEF RankTools
<1>2. stored = {} /\ ending = "none" /\ errors = {} /\ pool \subseteq Tools
  BY <1>1 DEF TargetInv, Telling, TargetTypes
<1>3. CASE phase' = "done"
  <2>1. /\ ending' \in {"rejected", "unavailable", "unacquired", "cancelled"}
        /\ errors' \subseteq AllCodes
    <3>1. CASE cancel
      BY <1>1, <3>1 DEF RankTools, End, AllCodes
    <3>2. CASE ~cancel
      <4>1. Unserved
        BY <1>3, <3>2 DEF RankTools, Goto
      <4>2. CASE Tried = {}
        BY <4>1, <4>2 DEF Unserved, End, AllCodes
      <4>3. CASE Tried # {}
        <5>1. attempts \in Seq(AttemptRecords) /\ attempts # <<>>
          BY <4>3 DEF Tried, TargetInv, TargetTypes
        <5>2. attempts[Len(attempts)] \in AttemptRecords
          BY <5>1
        <5>3. attempts[Len(attempts)].code \in AllCodes /\ "limit" \in AllCodes
          BY <5>2 DEF AttemptRecords, AllCodes, Codes
        <5>4. QED BY <4>1, <4>3, <5>3 DEF Unserved, End
      <4>4. QED BY <4>2, <4>3
    <3>3. QED BY <3>1, <3>2
  <2>2. TargetTypes' /\ Switching' /\ Paying'
    BY <1>1, <1>3, DecisionKeepsAttempts DEF Phases
  <2>3. Telling'
    BY <1>1, <1>2, <1>3, <2>1 DEF Telling
  <2>4. QED BY <2>2, <2>3 DEF TargetInv
<1>4. CASE phase' # "done"
  <2>1. ~cancel /\ Ranked # {} /\ Goto("call") /\ tool' = Choice
    BY <1>4 DEF RankTools, End, Unserved
  <2>2. tool' \in Ranked
    BY <1>2, <2>1, ChoiceIsRanked
  <2>3. /\ tool' \in (pool \cap request.fit \cap request.only) \ Tried
        /\ ~Exhausted
        /\ request.explore \/ tool' = request.preferred
        /\ request.preferred \in Tried \cup Eligible
    BY <2>2 DEF Ranked, Eligible
  <2>4. request.preferred \in Ranked => tool' = request.preferred
    BY <2>1 DEF Choice
  <2>5. phase' = "call" /\ UNCHANGED <<ending, errors>>
    BY <2>1 DEF Goto
  <2>6. TargetTypes'
    BY <1>1, <1>2, <2>3, <2>5 DEF TargetInv, TargetTypes, Phases
  <2>7. Switching'
    <3>1. attempts = <<>> => Tried = {}
      BY DEF Tried
    <3>2. attempts = <<>> => tool' = request.preferred \/ request.preferred \notin request.only
      BY <2>2, <2>3, <2>4, <3>1 DEF Ranked
    <3>3. attempts # <<>> => \E i \in DOMAIN attempts : TRUE
      BY 1 \in DOMAIN attempts \/ attempts = <<>> DEF TargetInv, TargetTypes
    <3>4. attempts # <<>> => tool' # request.preferred
      BY <1>1, <2>3, <3>3 DEF TargetInv, Switching
    <3>5. Tried' = Tried
      BY <1>1 DEF Tried
    <3>6. SwitchIsAllowed'
      BY <1>1 DEF TargetInv, Switching, SwitchIsAllowed, Acquisitions
    <3>7. QED BY <1>1, <2>3, <3>2, <3>4, <3>5, <3>6 DEF TargetInv, Switching
  <2>8. Paying'
    <3>1. TriesLeft > 0
      BY <2>3 DEF Exhausted, TargetInv, TargetTypes, Requests, TriesLeft
    <3>2. QED BY <1>1, <2>5, <3>1 DEF TargetInv, Paying, StoredIsPaidFor, TriesLeft
  <2>9. Telling'
    BY <1>1, <1>2, <2>5 DEF Telling, AllCodes
  <2>10. QED BY <2>6, <2>7, <2>8, <2>9 DEF TargetInv
<1>5. QED BY <1>3, <1>4

LEMMA ReturningIsSafe ==
  ASSUME TargetInv, ToolReturns
  PROVE  TargetInv'
<1>1. PICK amount \in Amounts, code \in Codes \cup {"none", "cancelled"} :
        LET over == \E r \in Resources : Over(amount, r) IN
        /\ phase = "call" /\ tool \in Tools
        /\ used' = [r \in Resources |-> used[r] + amount[r]]
        /\ attempts' = Called(code)
        /\ UNCHANGED <<request, tool, skipped, stored, cancel>>
        /\ \/ cancel /\ code # "none" /\ End("cancelled", {"cancelled"}) /\ UNCHANGED pool
           \/ ~cancel /\ code = "none" /\ ~over /\ Goto("commit") /\ UNCHANGED pool
           \/ /\ ~cancel /\ code \in Codes /\ pool' = Followups(code, tool)
              /\ \/ request.explore /\ AllowsSwitch(code, tool) /\ Goto("rank")
                 \/ End("unacquired", {code})
  BY ToolReturnsFacts DEF TargetInv
<1> DEFINE over == \E r \in Resources : Over(amount, r)
           a == Attempt(tool, code)
<1>2. /\ stored = {} /\ ending = "none" /\ errors = {} /\ pool \subseteq Tools
      /\ attempts \in Seq(AttemptRecords) /\ used \in [Resources -> Nat]
      /\ request \in Requests
  BY <1>1 DEF TargetInv, Telling, TargetTypes
<1>3. a \in AttemptRecords /\ a.tool = tool /\ a.code = code
  BY <1>1, AttemptIsRecord
<1>4. attempts' = Append(attempts, a)
  BY <1>1 DEF Called
<1> HIDE DEF a
<1>5. /\ attempts' \in Seq(AttemptRecords) /\ attempts' # <<>>
      /\ Len(attempts') = Len(attempts) + 1 /\ attempts'[Len(attempts')] = a
  BY <1>2, <1>3, <1>4, AppendFields
<1>6. used' \in [Resources -> Nat]
  BY <1>1, <1>2, SpendingIsCounted
<1>7. pool' \subseteq pool
  BY <1>1 DEF Followups
<1>8. \/ phase' = "done" /\ ending' = "cancelled" /\ errors' = {"cancelled"}
      \/ phase' = "commit" /\ UNCHANGED <<ending, errors>> /\ ~over
      \/ /\ phase' = "rank" /\ UNCHANGED <<ending, errors>>
         /\ request.explore /\ AllowsSwitch(code, tool) /\ pool' = Followups(code, tool)
      \/ phase' = "done" /\ ending' = "unacquired" /\ errors' = {code}
  BY <1>1 DEF End, Goto
<1>9. TargetTypes'
  <2>1. phase' = "commit" => attempts'[Len(attempts')].tool \in Tools
    BY <1>1, <1>3, <1>5
  <2>2. QED BY <1>1, <1>2, <1>5, <1>6, <1>7, <1>8, <2>1 DEF TargetTypes, Phases
<1>10. Switching'
  <2>1. /\ SwitchIsAllowed'
        /\ request.preferred \in Tried' \/ request.preferred \notin request.only
        /\ request.explore /\ AllowsSwitch(code, tool) /\ pool' = Followups(code, tool) =>
             \A i \in DOMAIN attempts' :
               /\ attempts'[i].tool \in Tools
               /\ AllowsSwitch(attempts'[i].code, attempts'[i].tool)
               /\ attempts'[i].code = "cloudflare" => pool' \subseteq {"playwright"}
    BY <1>1, CallKeepsSwitching DEF TargetInv
  <2>2. phase' # "call"
    BY <1>8
  <2>3. QED BY <1>1, <1>8, <2>1, <2>2 DEF Switching
<1>11. Paying'
  <2>1. Len(attempts') <= request.tries
    BY <1>1, <1>2, <1>5 DEF TargetInv, Paying, TriesLeft, Requests
  <2>2. ASSUME ~over PROVE \A r \in Resources : used'[r] <= request.limits[r]
    BY <1>1, <1>2, <2>2, SpendIsBounded DEF Over, Amounts, Requests
  <2>3. stored' = {} /\ request' = request
    BY <1>1, <1>2
  <2> HIDE DEF over
  <2>4. StoredIsPaidFor'
    BY <2>1, <2>3 DEF StoredIsPaidFor
  <2>5. QED BY <1>8, <2>2, <2>3, <2>4 DEF Paying
<1>12. Telling'
  BY <1>1, <1>2, <1>8 DEF Telling, AllCodes
<1>13. QED BY <1>9, <1>10, <1>11, <1>12 DEF TargetInv

LEMMA CommittingIsSafe ==
  ASSUME TargetInv, CommitSource
  PROVE  TargetInv'
<1>1. /\ phase = "commit" /\ UNCHANGED <<request, pool, tool, skipped, used, cancel>>
      /\ \/ /\ attempts' \in {Rewritten("cancelled"), Rewritten("operational")}
            /\ phase' = "done" /\ ending' \in {"cancelled", "uncommitted"}
            /\ errors' \in {{"cancelled"}, {"operational"}} /\ UNCHANGED stored
         \/ /\ stored' = {"source"} /\ phase' = "source"
            /\ UNCHANGED <<attempts, ending, errors>>
  BY DEF CommitSource, End, Goto
<1>2. /\ stored = {} /\ ending = "none" /\ errors = {} /\ attempts # <<>>
      /\ attempts \in Seq(AttemptRecords) /\ used \in [Resources -> Nat]
  BY <1>1 DEF TargetInv, Telling, TargetTypes
<1>3. Telling'
  BY <1>1, <1>2 DEF Telling, AllCodes, Codes
<1>4. CASE phase' = "source"
  <2>1. UNCHANGED <<attempts, request, used, pool>>
    BY <1>1, <1>4
  <2>2. TargetTypes'
    BY <1>1, <1>4, <2>1 DEF TargetInv, TargetTypes, Phases
  <2>3. Switching'
    BY <1>4, <2>1 DEF TargetInv, Switching, SwitchIsAllowed, Acquisitions
  <2>4. Paying'
    BY <1>1, <1>4, <2>1 DEF TargetInv, Paying, StoredIsPaidFor
  <2>5. QED BY <1>3, <2>2, <2>3, <2>4 DEF TargetInv
<1>5. CASE phase' = "done"
  <2>1. PICK code \in {"cancelled", "operational"} : attempts' = Rewritten(code)
    BY <1>1, <1>5
  <2>2. attempts' \in Seq(AttemptRecords) /\ Len(attempts') = Len(attempts)
    BY <1>2, <2>1, RewrittenFields DEF Codes
  <2>3. SwitchIsAllowed'
    BY <1>1, <1>2, <2>1, RewritingKeepsSwitching DEF TargetInv, Switching, Codes
  <2>4. TargetTypes'
    BY <1>1, <1>2, <1>5, <2>2 DEF TargetInv, TargetTypes, Phases
  <2>5. Switching'
    BY <1>5, <2>3 DEF Switching
  <2>6. Paying'
    BY <1>1, <1>2, <1>5, <2>2 DEF TargetInv, Paying, StoredIsPaidFor
  <2>7. QED BY <1>3, <2>4, <2>5, <2>6 DEF TargetInv
<1>6. QED BY <1>1, <1>4, <1>5

LEMMA ConsideringIsSafe ==
  ASSUME TargetInv, ConsiderTransform
  PROVE  TargetInv'
<1>1. /\ phase = "source"
      /\ UNCHANGED <<request, pool, tool, skipped, attempts, used, stored, cancel>>
      /\ \/ /\ phase' = "done" /\ ending' \in {"interrupted", "stored"}
            /\ errors' \in {{}, {"cancelled"}}
         \/ phase' = "transform" /\ TriesLeft > 0 /\ UNCHANGED <<ending, errors>>
  BY DEF ConsiderTransform, End, Goto
<1>2. TargetTypes' /\ Switching' /\ Paying'
  BY <1>1, DecisionKeepsAttempts DEF Phases
<1>3. Telling'
  BY <1>1 DEF TargetInv, Telling, AllCodes
<1>4. QED BY <1>2, <1>3 DEF TargetInv

LEMMA BeginningIsSafe ==
  ASSUME TargetInv, BeginTransform
  PROVE  TargetInv'
<1>1. /\ phase = "transform"
      /\ UNCHANGED <<request, pool, tool, skipped, attempts, used, stored, cancel>>
      /\ \/ phase' = "done" /\ ending' = "stored" /\ errors' = {"cancelled"}
         \/ phase' = "transforming" /\ UNCHANGED <<ending, errors>>
  BY DEF BeginTransform, End, Goto
<1>2. TriesLeft > 0
  BY <1>1 DEF TargetInv, Paying
<1>3. TargetTypes' /\ Switching' /\ Paying'
  BY <1>1, <1>2, DecisionKeepsAttempts DEF Phases
<1>4. Telling'
  BY <1>1 DEF TargetInv, Telling, AllCodes
<1>5. QED BY <1>3, <1>4 DEF TargetInv

LEMMA TransformingIsSafe ==
  ASSUME TargetInv, TransformReturns
  PROVE  TargetInv'
<1>1. PICK amount \in 0 .. MaxSpend, code \in {"none", "cancelled", "status", "operational"} :
        /\ phase = "transforming" /\ used' = [used EXCEPT !["runtime"] = @ + amount]
        /\ attempts' = Append(attempts, Attempt("transform", code))
        /\ UNCHANGED <<request, pool, tool, skipped, cancel>>
        /\ \/ /\ code = "none" /\ ~(amount > Left("runtime"))
              /\ stored' = stored \cup {"derived"} /\ Goto("derived")
           \/ code # "none" /\ End("stored", {code}) /\ UNCHANGED stored
  BY DEF TransformReturns
<1> DEFINE a == Attempt("transform", code)
<1>2. /\ stored = {"source"} /\ ending = "none" /\ errors = {}
      /\ attempts \in Seq(AttemptRecords) /\ used \in [Resources -> Nat]
      /\ request \in Requests /\ amount \in Nat /\ TriesLeft > 0
      /\ \A r \in Resources : used[r] <= request.limits[r]
  BY <1>1, SpendIsBounded DEF TargetInv, Telling, TargetTypes, Paying
<1>3. code \in Codes \cup {"none", "cancelled"}
  BY DEF Codes
<1>4. a \in AttemptRecords /\ a.tool = "transform" /\ a.code = code
      /\ (code # "none" => a.outcome # "succeeded")
  BY <1>3, AttemptIsRecord
<1>5. attempts' = Append(attempts, a)
  BY <1>1
<1> HIDE DEF a
<1>6. /\ attempts' \in Seq(AttemptRecords) /\ attempts' # <<>>
      /\ Len(attempts') = Len(attempts) + 1 /\ attempts'[Len(attempts')] = a
      /\ Len(attempts') \in DOMAIN attempts'
  BY <1>2, <1>4, <1>5, AppendFields
<1>7. \/ code = "none" /\ stored' = {"source", "derived"} /\ phase' = "derived"
         /\ UNCHANGED <<ending, errors>>
      \/ code # "none" /\ phase' = "done" /\ ending' = "stored" /\ errors' = {code}
         /\ stored' = {"source"}
  BY <1>1, <1>2 DEF End, Goto
<1>8. /\ used' \in [Resources -> Nat]
      /\ \A r \in Resources \ {"runtime"} : used'[r] = used[r]
      /\ used'["runtime"] = used["runtime"] + amount
  BY <1>1, <1>2, RuntimeIsLimited
<1>9. TargetTypes'
  BY <1>1, <1>2, <1>6, <1>7, <1>8 DEF TargetInv, TargetTypes, Phases
<1>10. Switching'
  <2>1. SwitchIsAllowed'
    BY <1>1, <1>2, <1>4, <1>5, TransformKeepsSwitching DEF TargetInv, Switching
  <2>2. QED BY <1>7, <2>1 DEF Switching
<1>11. Paying'
  <2>1. Len(attempts') <= request.tries
    BY <1>2, <1>6 DEF TriesLeft, Requests
  <2>2. \A r \in Resources \ {"runtime"} : used'[r] <= request.limits[r]
    BY <1>2, <1>8
  <2>3. code = "none" => used'["runtime"] <= request.limits["runtime"]
    BY <1>1, <1>2, <1>8, RuntimeIsLimited DEF Left, Requests
  <2>4. StoredIsPaidFor'
    BY <1>1, <1>7, <2>1, <2>2, <2>3 DEF StoredIsPaidFor
  <2>5. QED BY <1>1, <1>7, <2>2, <2>3, <2>4 DEF Paying
<1>12. Telling'
  <2>1. phase' = "done" => \E i \in DOMAIN attempts' : attempts'[i].outcome # "succeeded"
    BY <1>4, <1>6, <1>7
  <2>2. QED BY <1>2, <1>3, <1>7, <2>1 DEF Telling, AllCodes
<1>13. QED BY <1>9, <1>10, <1>11, <1>12 DEF TargetInv

LEMMA FinishingIsSafe ==
  ASSUME TargetInv, FinishTransform
  PROVE  TargetInv'
<1>1. /\ phase = "derived" /\ phase' = "done" /\ ending' = "stored"
      /\ errors' \in {{}, {"cancelled"}}
      /\ UNCHANGED <<request, pool, tool, skipped, attempts, used, stored, cancel>>
  BY DEF FinishTransform, End
<1>2. TargetTypes' /\ Switching' /\ Paying'
  BY <1>1, DecisionKeepsAttempts DEF Phases
<1>3. Telling'
  BY <1>1 DEF TargetInv, Telling, AllCodes
<1>4. QED BY <1>2, <1>3 DEF TargetInv

LEMMA TargetStepIsSafe ==
  ASSUME TargetInv, TargetStep
  PROVE  TargetInv' /\ phase # "idle" /\ phase' # "idle" /\ UNCHANGED request
<1>1. TargetInv'
  BY ResolvingIsSafe, RankingIsSafe, ReturningIsSafe, CommittingIsSafe, ConsideringIsSafe,
     BeginningIsSafe, TransformingIsSafe, FinishingIsSafe DEF TargetStep
<1>2. phase # "idle" /\ phase' # "idle" /\ UNCHANGED request
  BY DEF TargetStep, ResolveSkill, RankTools, ToolReturns, CommitSource, ConsiderTransform,
         BeginTransform, TransformReturns, FinishTransform, End, Goto, Unserved
<1>3. QED BY <1>1, <1>2

\* A target begins with a Request and nothing spent, and leaves nothing behind.
LEMMA StartingIsSafe ==
  ASSUME NEW r \in Requests, StartTarget(r)
  PROVE  /\ TargetInv' /\ phase' # "idle" /\ request' = r
         /\ attempts' = <<>> /\ stored' = {} /\ used' = [x \in Resources |-> 0]
<1>1. TargetTypes'
  BY StartKeepsTargetTypes
<1>2. Switching' /\ Paying' /\ Telling'
  BY DEF StartTarget, Switching, SwitchIsAllowed, Acquisitions, Paying, StoredIsPaidFor,
         Telling, Requests
<1>3. QED BY <1>1, <1>2 DEF StartTarget, TargetInv

LEMMA LeavingIsSafe ==
  ASSUME TargetInv, LeaveTarget
  PROVE  /\ TargetInv' /\ phase' = "idle"
         /\ attempts' = <<>> /\ stored' = {} /\ used' = [x \in Resources |-> 0]
<1>1. TargetTypes'
  BY LeaveKeepsTargetTypes DEF TargetInv
<1>2. /\ phase' = "idle" /\ attempts' = <<>> /\ stored' = {} /\ errors' = {}
      /\ ending' = "none" /\ used' = [x \in Resources |-> 0]
  BY DEF LeaveTarget
<1>3. request'.tries \in Nat
  BY <1>1 DEF TargetTypes, Requests
<1>4. Switching' /\ Paying' /\ Telling'
  BY <1>2, <1>3 DEF Switching, SwitchIsAllowed, Acquisitions, Paying, StoredIsPaidFor, Telling
<1>5. QED BY <1>1, <1>2, <1>4 DEF TargetInv

-----------------------------------------------------------------------------
(* The operation *)

JobRecords ==
  [status : {"rejected", "failed", "partial", "completed"},
   artifacts : SUBSET {"source", "derived"}, codes : SUBSET AllCodes]

\* A target runs exactly while the operation waits for it.
Operating ==
  /\ operation \in {"retrieve", "assist"} /\ exact \subseteq Tools
  /\ at \in {"next", "running", "answer", "propose", "acting", "done"}
  /\ at \in {"running", "acting"} <=> phase # "idle"
  /\ operation = "retrieve" => at \notin {"propose", "acting"}
  /\ jobs \in Seq(JobRecords)
  /\ spent \in [Resources -> Nat] /\ calls \in Nat /\ late \in Nat

\* A target that runs was granted no more than its predecessors left, and only the last
\* target of an operation has stored anything.
Budgeting ==
  /\ operation = "retrieve" =>
       calls <= Tries /\ (at = "running" => request.tries = Tries - calls)
  /\ at \in {"running", "acting"} =>
       \A r \in Resources \ {"runtime"} : request.limits[r] + spent[r] <= Budget[r]
  /\ at \notin {"answer", "done"} => \A i \in DOMAIN jobs : jobs[i].artifacts = {}
  /\ (\E i \in DOMAIN jobs : jobs[i].artifacts # {}) =>
       \A r \in Resources \ {"runtime"} : spent[r] <= Budget[r]

\* An assisted operation that has not begun has spent nothing.
Unspent == operation = "assist" /\ at = "next" => \A r \in Resources : spent[r] = 0

Blameless(job) ==
  job.artifacts = {} /\ job.codes \cap {"cancelled", "operational", "limit", "closed"} = {}

\* Every Job but the last of a retrieval stored nothing for a reason that is the site's.
Answering ==
  /\ AnswersAreEarned
  /\ at # "done" => outcome = "none"
  /\ operation = "retrieve" /\ at \in {"next", "running"} =>
       \A i \in DOMAIN jobs : Blameless(jobs[i])
  /\ operation = "retrieve" /\ at = "answer" =>
       \A i \in DOMAIN jobs : i # Len(jobs) => Blameless(jobs[i])
  /\ \A i \in DOMAIN jobs :
       jobs[i].artifacts # {} => i = Len(jobs) /\ jobs[i].status \in {"completed", "partial"}

OperationInv == TargetInv /\ Operating /\ Budgeting /\ Unspent /\ Answering

\* What Telling knows is what the status says.
LEMMA StatusTells ==
  ASSUME TargetInv
  PROVE  StatusTellsTheStore
<1> SUFFICES ASSUME phase = "done"
             PROVE  /\ Status \in {"completed", "partial"} <=> "source" \in stored
                    /\ Status = "completed" => ResultCodes \subseteq {"none"}
  BY DEF StatusTellsTheStore
<1>1. \/ /\ ending \in {"rejected", "unavailable", "unacquired", "cancelled", "uncommitted"}
         /\ stored = {}
      \/ ending \in {"interrupted", "stored"} /\ "source" \in stored
  BY DEF TargetInv, Telling
<1>2. Status \in {"completed", "partial"} <=> "source" \in stored
  BY <1>1 DEF Status
<1>3. ASSUME Status = "completed" PROVE ResultCodes \subseteq {"none"}
  <2>1. /\ ending = "stored" /\ "cancelled" \notin errors
        /\ \A i \in DOMAIN attempts : attempts[i].outcome = "succeeded"
    BY <1>1, <1>3 DEF Status
  <2>2. errors = {}
    BY <2>1 DEF TargetInv, Telling
  <2>3. \A i \in DOMAIN attempts : attempts[i] \in AttemptRecords
    BY DEF TargetInv, TargetTypes
  <2>4. \A i \in DOMAIN attempts : attempts[i].code = "none"
    BY <2>1, <2>3 DEF AttemptRecords
  <2>5. QED BY <2>2, <2>4 DEF ResultCodes
<1>4. QED BY <1>2, <1>3

\* The Result of a target that has ended.
LEMMA EndedFacts ==
  ASSUME TargetInv, phase = "done", NEW noted \in BOOLEAN
  PROVE  /\ Ended(noted) \in JobRecords /\ Ended(noted).artifacts = stored
         /\ stored # {} => Ended(noted).status \in {"completed", "partial"}
<1> DEFINE codes == {attempts[i].code : i \in DOMAIN attempts}
<1>1. codes \subseteq AllCodes
  <2>1. \A i \in DOMAIN attempts : attempts[i] \in AttemptRecords
    BY DEF TargetInv, TargetTypes
  <2>2. QED BY <2>1 DEF AttemptRecords, AllCodes
<1>2. errors \subseteq AllCodes /\ stored \subseteq {"source", "derived"}
      /\ \/ /\ ending \in {"rejected", "unavailable", "unacquired", "cancelled", "uncommitted"}
            /\ stored = {}
         \/ ending \in {"interrupted", "stored"} /\ "source" \in stored
  BY DEF TargetInv, Telling
<1>3. Status \in {"rejected", "failed", "partial", "completed"}
      /\ (stored # {} => Status \in {"completed", "partial"})
  BY <1>2 DEF Status
<1>4. ResultCodes \subseteq AllCodes /\ codes \cup {"cancelled"} \subseteq AllCodes
  BY <1>1, <1>2 DEF ResultCodes, AllCodes
<1> DEFINE status == IF noted /\ "cancelled" \notin errors
                     THEN IF stored = {} THEN "failed" ELSE "partial" ELSE Status
           told == IF noted /\ "cancelled" \notin errors
                   THEN codes \cup {"cancelled"} ELSE ResultCodes
<1>5. Ended(noted) = [status |-> status, artifacts |-> stored, codes |-> told]
  BY DEF Ended
<1>6. /\ status \in {"rejected", "failed", "partial", "completed"} /\ told \subseteq AllCodes
      /\ stored # {} => status \in {"completed", "partial"}
  BY <1>3, <1>4
<1> HIDE DEF codes, status, told
<1>7. QED BY <1>2, <1>5, <1>6 DEF JobRecords

\* One more Job.
LEMMA AccountFacts ==
  ASSUME OperationInv, NEW job \in JobRecords, Account(job)
  PROVE  /\ TargetInv' /\ phase' = "idle" /\ attempts' = <<>> /\ stored' = {}
         /\ used' = [r \in Resources |-> 0]
         /\ jobs' \in Seq(JobRecords) /\ Len(jobs') = Len(jobs) + 1
         /\ DOMAIN jobs = 1 .. Len(jobs) /\ DOMAIN jobs' = 1 .. Len(jobs')
         /\ Len(jobs) \in Nat
         /\ \A i \in DOMAIN jobs : jobs'[i] = jobs[i]
         /\ jobs'[Len(jobs')] = job
         /\ spent' \in [Resources -> Nat]
         /\ \A r \in Resources : spent'[r] = spent[r] + used[r]
         /\ calls' = calls + Len(attempts) /\ calls' \in Nat
         /\ UNCHANGED <<operation, exact, late>>
<1>1. /\ jobs \in Seq(JobRecords) /\ spent \in [Resources -> Nat] /\ calls \in Nat
      /\ used \in [Resources -> Nat] /\ attempts \in Seq(AttemptRecords) /\ TargetInv
  BY DEF OperationInv, Operating, TargetInv, TargetTypes
<1>2. /\ LeaveTarget /\ jobs' = Append(jobs, job)
      /\ spent' = [r \in Resources |-> spent[r] + used[r]]
      /\ calls' = calls + Len(attempts) /\ UNCHANGED <<operation, exact, late>>
  BY DEF Account
<1>3. /\ TargetInv' /\ phase' = "idle" /\ attempts' = <<>> /\ stored' = {}
      /\ used' = [r \in Resources |-> 0]
  BY <1>1, <1>2, LeavingIsSafe
<1>4. /\ jobs' \in Seq(JobRecords) /\ Len(jobs') = Len(jobs) + 1
      /\ DOMAIN jobs = 1 .. Len(jobs) /\ DOMAIN jobs' = 1 .. Len(jobs')
      /\ Len(jobs) \in Nat
      /\ \A i \in DOMAIN jobs : jobs'[i] = jobs[i]
      /\ jobs'[Len(jobs')] = job
  BY <1>1, <1>2
<1>5. /\ spent' \in [Resources -> Nat]
      /\ \A r \in Resources : spent'[r] = spent[r] + used[r]
  BY <1>1, <1>2
<1>6. Len(attempts) \in Nat
  BY <1>1
<1>7. QED BY <1>1, <1>2, <1>3, <1>4, <1>5, <1>6

\* What was stored was paid for out of what the operation had left.
LEMMA StoredIsAffordable ==
  ASSUME OperationInv, at \in {"running", "acting"}, stored # {}
  PROVE  \A r \in Resources \ {"runtime"} : spent[r] + used[r] <= Budget[r]
<1>1. ASSUME NEW r \in Resources \ {"runtime"} PROVE spent[r] + used[r] <= Budget[r]
  <2>1. used[r] <= request.limits[r] /\ request.limits[r] + spent[r] <= Budget[r]
    BY DEF OperationInv, TargetInv, Paying, StoredIsPaidFor, Budgeting
  <2>2. used[r] \in Nat /\ request.limits[r] \in Nat /\ spent[r] \in Nat
    BY DEF OperationInv, TargetInv, TargetTypes, Requests, Operating
  <2>3. Budget[r] \in Nat
    BY GrantsAreAmounts
  <2>4. QED BY <2>1, <2>2, <2>3
<1>2. QED BY <1>1

LEMMA AskedIsRequest ==
  ASSUME request \in Requests, exact \subseteq Tools, NEW limits \in [Resources -> Nat],
         NEW tries \in Nat, NEW r \in Asked(limits, tries)
  PROVE  r \in Requests /\ r.limits = limits /\ r.tries = tries
  BY ThreeTools DEF Asked, Requests

\* A target is begun within what its predecessors left.
LEMMA GrantingIsSafe ==
  ASSUME OperationInv, NEW r \in Requests, StartTarget(r), UNCHANGED opVars, late' \in Nat,
         at \in {"next", "propose"}, at' \in {"running", "acting"},
         operation = "retrieve" => at' = "running",
         \A x \in Resources \ {"runtime"} : r.limits[x] + spent[x] <= Budget[x],
         operation = "retrieve" => at = "next" /\ r.tries = Tries - calls
  PROVE  OperationInv'
<1>1. /\ TargetInv' /\ phase' # "idle" /\ request' = r
      /\ attempts' = <<>> /\ stored' = {} /\ used' = [x \in Resources |-> 0]
  BY StartingIsSafe
<1>2. UNCHANGED <<operation, exact, jobs, spent, calls, outcome>>
  BY DEF opVars
<1>3. Operating'
  BY <1>1, <1>2 DEF OperationInv, Operating
<1>4. Budgeting'
  BY <1>1, <1>2 DEF OperationInv, Budgeting
<1>5. Answering'
  BY <1>2 DEF OperationInv, Answering, AnswersAreEarned, Blameless
<1>6. QED BY <1>1, <1>3, <1>4, <1>5 DEF OperationInv, Unspent

LEMMA NextIsSafe ==
  ASSUME OperationInv, NextRequest
  PROVE  OperationInv'
<1>1. /\ operation = "retrieve" /\ at = "next" /\ late' \in Nat /\ UNCHANGED opVars
  BY DEF NextRequest, OperationInv, Operating
<1>2. PICK own \in {Budget, Lesser} :
        LET limits == [r \in Resources |->
              IF r = "runtime" THEN Lower(own[r], late') ELSE Lower(own[r], Budget[r] - spent[r])]
        IN  IF calls >= Tries \/ \E r \in Resources : limits[r] <= 0
            THEN at' = "answer" /\ UNCHANGED targetVars
            ELSE at' = "running" /\ \E r \in Asked(limits, Tries - calls) : StartTarget(r)
  BY DEF NextRequest
<1> DEFINE limits == [r \in Resources |->
              IF r = "runtime" THEN Lower(own[r], late') ELSE Lower(own[r], Budget[r] - spent[r])]
<1>3. /\ calls \in Nat /\ Tries \in Nat /\ spent \in [Resources -> Nat]
      /\ request \in Requests /\ exact \subseteq Tools
      /\ Budget \in [Resources -> Nat] /\ own \in [Resources -> Nat]
  BY GrantsAreAmounts DEF OperationInv, Operating, TargetInv, TargetTypes
<1>4. CASE calls >= Tries \/ \E r \in Resources : limits[r] <= 0
  <2>1. at' = "answer" /\ UNCHANGED <<targetVars, opVars>>
    BY <1>1, <1>2, <1>4
  <2>2. TargetInv'
    BY <2>1 DEF OperationInv, TargetInv, TargetTypes, Switching, SwitchIsAllowed, Acquisitions,
                Paying, StoredIsPaidFor, Telling, targetVars, answer, Tried, TriesLeft
  <2>3. Operating' /\ Budgeting'
    BY <1>1, <2>1 DEF OperationInv, Operating, Budgeting, targetVars, opVars
  <2>4. Answering'
    BY <1>1, <2>1 DEF OperationInv, Answering, AnswersAreEarned, Blameless, opVars
  <2>5. QED BY <1>1, <2>1, <2>2, <2>3, <2>4 DEF OperationInv, Unspent, opVars
<1>5. CASE ~(calls >= Tries \/ \E r \in Resources : limits[r] <= 0)
  <2>1. PICK r \in Asked(limits, Tries - calls) : StartTarget(r)
    BY <1>2, <1>5
  <2>2. at' = "running"
    BY <1>2, <1>5
  <2>3. \A r1 \in Resources : limits[r1] \in Int /\ limits[r1] > 0
    <3>1. \A r1 \in Resources : limits[r1] \in Int
      BY <1>1, <1>3 DEF Lower
    <3>2. QED BY <1>5, <3>1
  <2>4. limits \in [Resources -> Nat]
    BY <2>3
  <2>5. Tries - calls \in Nat
    BY <1>3, <1>5
  <2>6. \A x \in Resources \ {"runtime"} : limits[x] + spent[x] <= Budget[x]
    BY <1>3 DEF Lower
  <2> HIDE DEF limits
  <2>7. r \in Requests /\ r.limits = limits /\ r.tries = Tries - calls
    BY <1>3, <2>1, <2>4, <2>5, AskedIsRequest
  <2>8. QED BY <1>1, <2>1, <2>2, <2>6, <2>7, GrantingIsSafe
<1>6. QED BY <1>4, <1>5

\* A Job of a retrieval has ended or raised: what the next one may still rely on.
LEMMA JobEndsIsSafe ==
  ASSUME OperationInv, JobEnds
  PROVE  OperationInv'
<1> DEFINE job == Ended(cancel)
<1>1. /\ operation = "retrieve" /\ at = "running" /\ phase = "done"
      /\ Account(job) /\ UNCHANGED outcome
      /\ at' = IF job.artifacts # {} \/ ~AllowsAlternate(job)
                   \/ exact # Tools \/ Len(jobs) = Alternates
                THEN "answer" ELSE "next"
  BY DEF JobEnds
<1>2. job \in JobRecords /\ job.artifacts = stored
      /\ (stored # {} => job.status \in {"completed", "partial"})
  <2>1. Ended(TRUE) \in JobRecords /\ Ended(TRUE).artifacts = stored
        /\ (stored # {} => Ended(TRUE).status \in {"completed", "partial"})
    BY <1>1, EndedFacts DEF OperationInv
  <2>2. Ended(FALSE) \in JobRecords /\ Ended(FALSE).artifacts = stored
        /\ (stored # {} => Ended(FALSE).status \in {"completed", "partial"})
    BY <1>1, EndedFacts DEF OperationInv
  <2>3. Ended(cancel) = Ended(TRUE) \/ Ended(cancel) = Ended(FALSE)
    BY DEF Ended
  <2>4. QED BY <2>1, <2>2, <2>3
<1> HIDE DEF job
<1>3. /\ TargetInv' /\ phase' = "idle" /\ attempts' = <<>> /\ stored' = {}
      /\ used' = [r \in Resources |-> 0]
      /\ jobs' \in Seq(JobRecords) /\ Len(jobs') = Len(jobs) + 1
      /\ DOMAIN jobs = 1 .. Len(jobs) /\ DOMAIN jobs' = 1 .. Len(jobs') /\ Len(jobs) \in Nat
      /\ \A i \in DOMAIN jobs : jobs'[i] = jobs[i]
      /\ jobs'[Len(jobs')] = job
      /\ spent' \in [Resources -> Nat]
      /\ \A r \in Resources : spent'[r] = spent[r] + used[r]
      /\ calls' = calls + Len(attempts) /\ calls' \in Nat
      /\ UNCHANGED <<operation, exact, late>>
  BY <1>1, <1>2, AccountFacts
<1>4. \A i \in DOMAIN jobs' : i \in DOMAIN jobs \/ i = Len(jobs')
  BY <1>3
<1>5. \A i \in DOMAIN jobs : Blameless(jobs[i])
  BY <1>1 DEF OperationInv, Answering
<1>6. at' \in {"answer", "next"} /\ (at' = "next" => Blameless(job))
  BY <1>1 DEF AllowsAlternate, IsError, Blameless
<1>7. Operating'
  BY <1>3, <1>6 DEF OperationInv, Operating
<1>8. Budgeting'
  <2>1. calls' <= Tries
    <3>1. /\ Len(attempts) <= request.tries /\ request.tries = Tries - calls
          /\ Len(attempts) \in Nat /\ calls \in Nat /\ Tries \in Nat
      BY <1>1, GrantsAreAmounts
      DEF OperationInv, Operating, Budgeting, TargetInv, TargetTypes, Paying, StoredIsPaidFor
    <3>2. QED BY <1>3, <3>1
  <2>2. at' # "answer" => \A i \in DOMAIN jobs' : jobs'[i].artifacts = {}
    BY <1>3, <1>4, <1>5, <1>6 DEF Blameless
  <2>3. (\E i \in DOMAIN jobs' : jobs'[i].artifacts # {}) =>
           \A r \in Resources \ {"runtime"} : spent'[r] <= Budget[r]
    BY <1>1, <1>2, <1>3, <1>4, <1>5, StoredIsAffordable DEF Blameless
  <2>4. QED BY <1>1, <1>3, <1>6, <2>1, <2>2, <2>3 DEF Budgeting
<1>9. Answering'
  <2>1. \A i \in DOMAIN jobs' :
          jobs'[i].artifacts # {} =>
            i = Len(jobs') /\ jobs'[i].status \in {"completed", "partial"}
    BY <1>2, <1>3, <1>4, <1>5 DEF Blameless
  <2>2. \A i \in DOMAIN jobs' : i # Len(jobs') => Blameless(jobs'[i])
    BY <1>3, <1>4, <1>5
  <2>3. at' = "next" => \A i \in DOMAIN jobs' : Blameless(jobs'[i])
    BY <1>3, <1>4, <1>5, <1>6
  <2>4. outcome' = "none"
    BY <1>1 DEF OperationInv, Answering
  <2>5. AnswersAreEarned'
    BY <2>1, <2>4 DEF AnswersAreEarned
  <2>6. QED BY <1>6, <2>1, <2>2, <2>3, <2>4, <2>5 DEF Answering
<1>10. QED BY <1>1, <1>3, <1>7, <1>8, <1>9 DEF OperationInv, Unspent

\* An operation that ends with one more Job, and an answer that is not a retrieval's.
LEMMA ClosingIsSafe ==
  ASSUME OperationInv, NEW job \in JobRecords, Account(job), at \in {"running", "acting"},
         job.artifacts # {} => job.artifacts = stored /\ job.status \in {"completed", "partial"},
         at' = "done", outcome' \notin {"FETCHED", "UNRESOLVED"}
  PROVE  OperationInv'
<1>1. /\ TargetInv' /\ phase' = "idle" /\ attempts' = <<>> /\ stored' = {}
      /\ used' = [r \in Resources |-> 0]
      /\ jobs' \in Seq(JobRecords) /\ Len(jobs') = Len(jobs) + 1
      /\ DOMAIN jobs = 1 .. Len(jobs) /\ DOMAIN jobs' = 1 .. Len(jobs') /\ Len(jobs) \in Nat
      /\ \A i \in DOMAIN jobs : jobs'[i] = jobs[i]
      /\ jobs'[Len(jobs')] = job
      /\ spent' \in [Resources -> Nat]
      /\ \A r \in Resources : spent'[r] = spent[r] + used[r]
      /\ calls' = calls + Len(attempts) /\ calls' \in Nat
      /\ UNCHANGED <<operation, exact, late>>
  BY AccountFacts
<1>2. \A i \in DOMAIN jobs' : i \in DOMAIN jobs \/ i = Len(jobs')
  BY <1>1
<1>3. \A i \in DOMAIN jobs : jobs[i].artifacts = {}
  BY DEF OperationInv, Budgeting
<1>4. Operating'
  BY <1>1 DEF OperationInv, Operating
<1>5. Budgeting'
  <2>1. operation = "retrieve" => calls' <= Tries
    <3>1. operation = "retrieve" => at = "running"
      BY DEF OperationInv, Operating
    <3>2. Len(attempts) <= request.tries /\ request.tries \in Nat
          /\ Len(attempts) \in Nat /\ calls \in Nat /\ Tries \in Nat
      BY GrantsAreAmounts
      DEF OperationInv, Operating, TargetInv, TargetTypes, Paying, StoredIsPaidFor, Requests
    <3>3. operation = "retrieve" => request.tries = Tries - calls
      BY <3>1 DEF OperationInv, Budgeting
    <3>4. QED BY <1>1, <3>2, <3>3
  <2>2. (\E i \in DOMAIN jobs' : jobs'[i].artifacts # {}) =>
           \A r \in Resources \ {"runtime"} : spent'[r] <= Budget[r]
    BY <1>1, <1>2, <1>3, StoredIsAffordable
  <2>3. QED BY <1>1, <2>1, <2>2 DEF Budgeting
<1>6. Answering'
  <2>1. \A i \in DOMAIN jobs' :
          jobs'[i].artifacts # {} =>
            i = Len(jobs') /\ jobs'[i].status \in {"completed", "partial"}
    BY <1>1, <1>2, <1>3
  <2>2. QED BY <2>1 DEF Answering, AnswersAreEarned
<1>7. QED BY <1>1, <1>4, <1>5, <1>6 DEF OperationInv, Unspent

LEMMA RaisingIsSafe ==
  ASSUME OperationInv, JobRaises
  PROVE  OperationInv'
<1> DEFINE job == [status |-> "failed", artifacts |-> {}, codes |-> {"operational"}]
<1>1. job \in JobRecords /\ job.artifacts = {}
  BY DEF JobRecords, AllCodes, Codes
<1>2. Account(job) /\ at = "running" /\ at' = "done" /\ outcome' = "raised"
  BY DEF JobRaises
<1> HIDE DEF job
<1>3. QED BY <1>1, <1>2, ClosingIsSafe

LEMMA AnswerIsSafe ==
  ASSUME OperationInv, Answer
  PROVE  OperationInv'
<1>1. /\ operation = "retrieve" /\ at = "answer" /\ at' = "done"
      /\ UNCHANGED <<targetVars, operation, exact, jobs, spent, calls, late>>
      /\ outcome' =
           IF jobs = <<>> THEN "budget_exhausted"
           ELSE IF IsError(jobs[Len(jobs)]) THEN "failed"
           ELSE IF \E i \in DOMAIN jobs : jobs[i].artifacts # {} THEN "FETCHED"
           ELSE "UNRESOLVED"
  BY DEF Answer
<1>2. UNCHANGED <<request, phase, pool, tool, attempts, used, stored, errors, ending>>
  BY <1>1 DEF targetVars, answer
<1>3. TargetInv'
  BY <1>2 DEF OperationInv, TargetInv, TargetTypes, Switching, SwitchIsAllowed, Acquisitions,
              Paying, StoredIsPaidFor, Telling, Tried, TriesLeft
<1>4. Operating' /\ Budgeting'
  BY <1>1, <1>2 DEF OperationInv, Operating, Budgeting
<1>5. /\ \A i \in DOMAIN jobs : i # Len(jobs) => Blameless(jobs[i])
      /\ \A i \in DOMAIN jobs :
           jobs[i].artifacts # {} => i = Len(jobs) /\ jobs[i].status \in {"completed", "partial"}
      /\ jobs \in Seq(JobRecords)
  BY <1>1 DEF OperationInv, Answering, Operating
<1>6. AnswersAreEarned'
  <2>1. ASSUME outcome' = "FETCHED"
        PROVE  /\ jobs[Len(jobs)].artifacts # {}
               /\ jobs[Len(jobs)].status \in {"completed", "partial"}
    <3>1. PICK i \in DOMAIN jobs : jobs[i].artifacts # {}
      BY <1>1, <2>1
    <3>2. QED BY <1>5, <3>1
  <2>2. ASSUME outcome' \in {"FETCHED", "UNRESOLVED"}, NEW i \in DOMAIN jobs
        PROVE  jobs[i].codes \cap {"cancelled", "operational"} = {}
    <3>1. ~IsError(jobs[Len(jobs)])
      BY <1>1, <2>2
    <3>2. QED BY <1>5, <3>1 DEF IsError, Blameless
  <2>3. ASSUME outcome' = "UNRESOLVED", NEW i \in DOMAIN jobs
        PROVE  jobs[i].artifacts = {} /\ jobs[i].codes \cap {"limit", "closed"} = {}
    <3>1. ~IsError(jobs[Len(jobs)]) /\ jobs[i].artifacts = {}
      BY <1>1, <2>3
    <3>2. QED BY <1>5, <3>1 DEF IsError, Blameless
  <2>4. QED BY <1>1, <1>5, <2>1, <2>2, <2>3 DEF AnswersAreEarned
<1>7. Answering'
  BY <1>1, <1>5, <1>6 DEF Answering
<1>8. QED BY <1>1, <1>3, <1>4, <1>7 DEF OperationInv, Unspent

LEMMA AssistingIsSafe ==
  ASSUME OperationInv, AssistFirst
  PROVE  OperationInv'
<1>1. /\ operation = "assist" /\ at = "next" /\ at' = "running" /\ UNCHANGED <<opVars, late>>
  BY DEF AssistFirst
<1>2. PICK r \in Asked(Budget, Tries) : StartTarget(r)
  BY DEF AssistFirst
<1>3. /\ request \in Requests /\ exact \subseteq Tools /\ Tries \in Nat /\ late \in Nat
      /\ Budget \in [Resources -> Nat]
  BY GrantsAreAmounts DEF OperationInv, Operating, TargetInv, TargetTypes
<1>4. r \in Requests /\ r.limits = Budget
  BY <1>2, <1>3, AskedIsRequest
<1>5. \A x \in Resources : spent[x] = 0
  BY <1>1 DEF OperationInv, Unspent
<1>6. \A x \in Resources \ {"runtime"} : r.limits[x] + spent[x] <= Budget[x]
  BY <1>3, <1>4, <1>5
<1>7. QED BY <1>1, <1>2, <1>3, <1>4, <1>6, GrantingIsSafe

\* The first target of an assisted operation failed to acquire anything, or there is no
\* proposal to ask for.
LEMMA AssistFailsIsSafe ==
  ASSUME OperationInv, AssistFails
  PROVE  OperationInv'
<1> DEFINE job == Ended(FALSE)
<1>1. /\ operation = "assist" /\ at = "running" /\ phase = "done" /\ Account(job)
      /\ IF ending = "unacquired" /\ \E i \in DOMAIN attempts : attempts[i].outcome = "failed"
         THEN at' = "propose" /\ UNCHANGED outcome
         ELSE at' = "done" /\ outcome' = "not_needed"
  BY DEF AssistFails
<1>2. job \in JobRecords /\ job.artifacts = stored
      /\ (stored # {} => job.status \in {"completed", "partial"})
  BY <1>1, EndedFacts DEF OperationInv
<1> HIDE DEF job
<1>3. CASE at' = "done"
  BY <1>1, <1>2, <1>3, ClosingIsSafe
<1>4. CASE at' # "done"
  <2>1. ending = "unacquired" /\ at' = "propose" /\ UNCHANGED outcome
    BY <1>1, <1>4
  <2>2. stored = {} /\ job.artifacts = {}
    BY <1>1, <1>2, <2>1 DEF OperationInv, TargetInv, Telling
  <2>3. /\ TargetInv' /\ phase' = "idle" /\ attempts' = <<>> /\ stored' = {}
        /\ jobs' \in Seq(JobRecords) /\ Len(jobs') = Len(jobs) + 1
        /\ DOMAIN jobs = 1 .. Len(jobs) /\ DOMAIN jobs' = 1 .. Len(jobs')
        /\ Len(jobs) \in Nat
        /\ \A i \in DOMAIN jobs : jobs'[i] = jobs[i]
        /\ jobs'[Len(jobs')] = job
        /\ spent' \in [Resources -> Nat] /\ calls' \in Nat
        /\ UNCHANGED <<operation, exact, late>>
    BY <1>1, <1>2, AccountFacts
  <2>4. \A i \in DOMAIN jobs' : jobs'[i].artifacts = {}
    BY <1>1, <2>2, <2>3 DEF OperationInv, Budgeting
  <2>5. Operating'
    BY <1>1, <2>1, <2>3 DEF OperationInv, Operating
  <2>6. Budgeting' /\ Unspent'
    BY <1>1, <2>1, <2>3, <2>4 DEF Budgeting, Unspent
  <2>7. Answering'
    BY <1>1, <2>1, <2>3, <2>4 DEF OperationInv, Answering, AnswersAreEarned
  <2>8. QED BY <2>3, <2>5, <2>6, <2>7 DEF OperationInv
<1>5. QED BY <1>3, <1>4

LEMMA ProposingIsSafe ==
  ASSUME OperationInv, Propose
  PROVE  OperationInv'
<1>1. operation = "assist" /\ at = "propose"
  BY DEF Propose
<1>2. CASE /\ at' = "done" /\ outcome' = "refused"
           /\ UNCHANGED <<targetVars, operation, exact, jobs, spent, calls, late>>
  <2>1. UNCHANGED <<request, phase, pool, tool, attempts, used, stored, errors, ending>>
    BY <1>2 DEF targetVars, answer
  <2>2. TargetInv'
    BY <2>1 DEF OperationInv, TargetInv, TargetTypes, Switching, SwitchIsAllowed, Acquisitions,
                Paying, StoredIsPaidFor, Telling, Tried, TriesLeft
  <2>3. Operating' /\ Budgeting' /\ Unspent'
    BY <1>1, <1>2, <2>1 DEF OperationInv, Operating, Budgeting, Unspent
  <2>4. Answering'
    BY <1>1, <1>2 DEF OperationInv, Answering, AnswersAreEarned
  <2>5. QED BY <2>2, <2>3, <2>4 DEF OperationInv
<1>3. ASSUME NEW p \in Proposals, NEW pause \in 0 .. 1, Authorized(p, pause),
             StartTarget([request EXCEPT !.limits = p.limits, !.tries = p.tries,
                            !.explore = FALSE, !.preferred = p.tool, !.skilled = TRUE]),
             at' = "acting", UNCHANGED <<opVars, late>>
      PROVE  OperationInv'
  <2> DEFINE r == [request EXCEPT !.limits = p.limits, !.tries = p.tries,
                     !.explore = FALSE, !.preferred = p.tool, !.skilled = TRUE]
  <2>1. /\ p.limits \in [Resources -> Nat] /\ p.tries \in Nat /\ p.tool \in Tools
    BY SpendIsBounded DEF Proposals, Amounts
  <2>2. request \in Requests
    BY DEF OperationInv, TargetInv, TargetTypes
  <2>3. r \in Requests /\ r.limits = p.limits
    BY <2>1, <2>2 DEF Requests
  <2>4. \A x \in Resources \ {"runtime"} : r.limits[x] + spent[x] <= Budget[x]
    <3>1. ASSUME NEW x \in Resources \ {"runtime"}
          PROVE  p.limits[x] + spent[x] <= Budget[x]
      <4>1. p.limits[x] + spent[x] + 0 <= Budget[x]
        BY <1>3 DEF Authorized
      <4>2. p.limits[x] \in Nat /\ spent[x] \in Nat
        BY <2>1 DEF OperationInv, Operating
      <4>3. QED BY <4>1, <4>2
    <3>2. QED BY <2>3, <3>1
  <2>5. StartTarget(r) /\ late' \in Nat /\ at' = "acting" /\ UNCHANGED opVars
    BY <1>3 DEF OperationInv, Operating
  <2> HIDE DEF r
  <2>6. QED BY <1>1, <2>3, <2>4, <2>5, GrantingIsSafe
<1>4. QED BY <1>2, <1>3 DEF Propose

LEMMA ActingIsSafe ==
  ASSUME OperationInv, ActionEnds
  PROVE  OperationInv'
<1> DEFINE job == Ended(FALSE)
<1>1. /\ at = "acting" /\ phase = "done" /\ Account(job) /\ at' = "done"
      /\ outcome' \in {"execution_failed", "succeeded", "unverified"}
  BY DEF ActionEnds
<1>2. job \in JobRecords /\ job.artifacts = stored
      /\ (stored # {} => job.status \in {"completed", "partial"})
  BY <1>1, EndedFacts DEF OperationInv
<1> HIDE DEF job
<1>3. QED BY <1>1, <1>2, ClosingIsSafe

LEMMA RunningIsSafe ==
  ASSUME OperationInv, RunTarget
  PROVE  OperationInv'
<1>1. TargetStep /\ UNCHANGED <<operation, exact, at, jobs, spent, calls, late, outcome>>
  BY DEF RunTarget, opVars
<1>2. TargetInv' /\ phase # "idle" /\ phase' # "idle" /\ UNCHANGED request
  BY <1>1, TargetStepIsSafe DEF OperationInv
<1>3. Operating' /\ Budgeting' /\ Unspent'
  BY <1>1, <1>2 DEF OperationInv, Operating, Budgeting, Unspent
<1>4. Answering'
  BY <1>1 DEF OperationInv, Answering, AnswersAreEarned
<1>5. QED BY <1>2, <1>3, <1>4 DEF OperationInv

\* A cancellation is only noted.
LEMMA StandingStillIsSafe ==
  ASSUME OperationInv, UNCHANGED <<request, phase, pool, tool, skipped, answer, opVars, at, late>>
  PROVE  OperationInv'
<1>1. TargetInv'
  BY DEF OperationInv, TargetInv, TargetTypes, Switching, SwitchIsAllowed, Acquisitions,
         Paying, StoredIsPaidFor, Telling, Tried, TriesLeft, answer
<1>2. Operating' /\ Budgeting' /\ Unspent'
  BY DEF OperationInv, Operating, Budgeting, Unspent, opVars
<1>3. Answering'
  BY DEF OperationInv, Answering, AnswersAreEarned, opVars
<1>4. QED BY <1>1, <1>2, <1>3 DEF OperationInv

\* Every step of run_single_target, and every step of the operations that run targets, keeps
\* what the next ones rely on: what was granted, tried, paid for and stored so far.
THEOREM OperationSafety == Spec => []OperationInv
<1>1. Init => OperationInv
  <2> SUFFICES ASSUME Init PROVE OperationInv
    OBVIOUS
  <2>1. PICK fit \in SUBSET Tools :
          request = [NoRequest EXCEPT !.fit = fit, !.unfit = Tools \ fit]
    BY DEF Init
  <2>2. Tools \ fit \in SUBSET Tools
    OBVIOUS
  <2>3. request \in Requests
    BY <2>1, <2>2, NoRequestIsRequest
  <2>4. TargetInv
    <3>1. /\ phase = "idle" /\ pool = {} /\ attempts = <<>> /\ stored = {} /\ errors = {}
          /\ ending = "none" /\ used = [r \in Resources |-> 0] /\ request.tries \in Nat
      BY <2>3 DEF Init, TargetIdle, Requests
    <3>2. TargetTypes
      BY <2>3, <3>1 DEF TargetTypes, Phases
    <3>3. Switching /\ Paying /\ Telling
      BY <3>1 DEF Switching, SwitchIsAllowed, Acquisitions, Paying, StoredIsPaidFor, Telling
    <3>4. QED BY <3>2, <3>3 DEF TargetInv
  <2>5. exact \subseteq Tools
    BY DEF Init
  <2>6. Operating
    BY <2>5, GrantsAreAmounts, RuntimeIsLimited DEF Init, TargetIdle, Operating
  <2>7. Budgeting /\ Answering /\ Unspent
    BY GrantsAreAmounts DEF Init, Budgeting, Answering, AnswersAreEarned, Unspent
  <2>8. QED BY <2>4, <2>6, <2>7 DEF OperationInv
<1>2. OperationInv /\ [Next]_vars => OperationInv'
  <2> SUFFICES ASSUME OperationInv, [Next]_vars PROVE OperationInv'
    OBVIOUS
  <2>1. CASE Step
    BY <2>1, NextIsSafe, RunningIsSafe, JobEndsIsSafe, RaisingIsSafe, AnswerIsSafe,
       AssistingIsSafe, AssistFailsIsSafe, ProposingIsSafe, ActingIsSafe DEF Step
  <2>2. CASE CancelJob
    BY <2>2, StandingStillIsSafe DEF CancelJob
  <2>3. CASE UNCHANGED vars
    BY <2>3, StandingStillIsSafe DEF vars, targetVars
  <2>4. QED BY <2>1, <2>2, <2>3 DEF Next
<1>3. QED BY <1>1, <1>2, PTL DEF Spec

\* Whatever fails, is refused or is cancelled, and however many targets an operation runs,
\* the tools of one target are called in the order, and after the failures, that
\* acquisition_failure_allows_switch and the Request permit.
THEOREM SwitchingHolds == Spec => []SwitchIsAllowed
<1>1. OperationInv => SwitchIsAllowed
  BY DEF OperationInv, TargetInv, Switching
<1>2. QED BY <1>1, OperationSafety, PTL

\* With any budget, any number of tries and any number of alternates, an operation stores
\* nothing it was not granted: the limits of every target are computed from what its
\* predecessors left, and a body that overspends them is never committed.
THEOREM BudgetHolds == Spec => []BudgetIsKept
<1>1. OperationInv => BudgetIsKept
  <2> SUFFICES ASSUME OperationInv PROVE BudgetIsKept
    OBVIOUS
  <2>1. StoredIsPaidFor
    BY DEF OperationInv, TargetInv, Paying
  <2>2. ASSUME operation = "retrieve" PROVE calls + Len(attempts) <= Tries
    <3>1. calls <= Tries /\ (at = "running" => request.tries = Tries - calls)
          /\ (at # "running" => attempts = <<>>)
      BY <2>2 DEF OperationInv, Operating, Budgeting, TargetInv, TargetTypes
    <3>2. Len(attempts) <= request.tries /\ Len(attempts) \in Nat /\ calls \in Nat
          /\ Tries \in Nat /\ request.tries \in Nat
      BY <2>1, GrantsAreAmounts
      DEF OperationInv, Operating, TargetInv, TargetTypes, Requests, StoredIsPaidFor
    <3>3. QED BY <3>1, <3>2
  <2>3. ASSUME stored # {} \/ \E i \in DOMAIN jobs : jobs[i].artifacts # {},
               NEW r \in Resources \ {"runtime"}
        PROVE  TotalSpent(r) <= Budget[r]
    <3>1. CASE stored # {}
      <4>1. at \in {"running", "acting"}
        BY <3>1 DEF OperationInv, Operating, TargetInv, Telling
      <4>2. QED BY <3>1, <4>1, StoredIsAffordable DEF TotalSpent
    <3>2. CASE stored = {}
      <4>1. PICK i \in DOMAIN jobs : jobs[i].artifacts # {}
        BY <2>3, <3>2
      <4>2. phase = "idle" /\ spent[r] <= Budget[r]
        BY <4>1 DEF OperationInv, Operating, Budgeting
      <4>3. used[r] = 0 /\ spent[r] \in Nat
        BY <4>2 DEF OperationInv, Operating, TargetInv, TargetTypes
      <4>4. QED BY <4>2, <4>3 DEF TotalSpent
    <3>3. QED BY <3>1, <3>2
  <2>4. QED BY <2>1, <2>2, <2>3 DEF BudgetIsKept, AlternatesShareTheBudget
<1>2. QED BY <1>1, OperationSafety, PTL

\* The status of every Result tells what was stored, and the answer of a retrieval what
\* its Results say, whatever was cancelled or raised on the way.
THEOREM AnswersHold == Spec => []AnswersAreTrue
<1>1. OperationInv => AnswersAreTrue
  BY StatusTells DEF OperationInv, Answering, AnswersAreTrue
<1>2. QED BY <1>1, OperationSafety, PTL

=============================================================================
