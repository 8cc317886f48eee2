----------------------------- MODULE SiteBatch -----------------------------
(***************************************************************************)
(* One multi-site batch, from its claim to its outcome: the site_batches   *)
(* row and its children (runtime/jobs.py), the serial loop over the sites  *)
(* (runtime/site_batch.py), the rule that derives the aggregate            *)
(* (result/site_batch.py) and the service code that drives them            *)
(* (runtime/service.py).  Child Results are checkpointed in the Job        *)
(* database, the grants of their artifacts in the artifact database: two   *)
(* commits, with a crash possible between any two steps.                   *)
(***************************************************************************)
EXTENDS Naturals, Sequences, FiniteSets

CONSTANTS
  Sites,         \* number of authorized sites
  MaxCrashes,    \* bound on crashes
  MayRaise,      \* the workflow of a child may raise
  MayLoseWrites, \* a database write may raise
  None

ASSUME SitesAreMany == Sites \in Nat \ {0, 1}
ASSUME FaultsAreSwitches == MaxCrashes \in Nat /\ {MayRaise, MayLoseWrites} \subseteq BOOLEAN
ASSUME NoneIsNothing == None \notin Nat

VARIABLES
  phase,     \* of the Request: its sites are explored first, or refreshed
  status,    \* site_batches.status
  cancel,    \* cancel_requested_at, dated by the number of children then durable
  children,  \* site_batch_children: the completed prefix of child Results
  outcome,   \* site_batches.result_json
  granted,   \* artifact database: the children whose contents the caller may read
  pc,        \* where the executing thread is; "lost" when it left the row running
  results,   \* its site results so far
  barred,    \* cancel_before_child: the child runs with its cancellation set
  crashes

durable == <<phase, status, cancel, children, outcome, granted>>
locals == <<pc, results, barred>>
batchVars == <<durable, locals, crashes>>

ResultStatus == {"completed", "partial", "rejected", "failed"}

\* A child Result: its status, whether it reports a cancellation, whether a tool was
\* called, and whether the file that was required, if one was, was found
\* (file_discovery_statuses).  A refresh is completed or partial, and may complete although
\* its last Transform was cancelled.
Children ==
  {c \in [status : ResultStatus, cancelled : BOOLEAN, tried : BOOLEAN, found : BOOLEAN] :
     /\ c.found => c.status = "completed"
     /\ c.status = "completed" => c.tried
     /\ c.status = "completed" /\ c.cancelled => phase = "refresh"
     /\ phase = "refresh" => c.status \in {"completed", "partial"} /\ (c.cancelled => c.tried)}

Finished == status \in ResultStatus

Cancellations(rs) == {i \in DOMAIN rs : rs[i].cancelled}

\* A cancellation ends a batch, so only the last Result may report one, and a batch
\* without one has a Result for every site.  Anything else is refused.
Derivable(rs) ==
  /\ rs # <<>>
  /\ IF Cancellations(rs) # {} THEN Cancellations(rs) = {Len(rs)} ELSE Len(rs) = Sites

\* Mutant of Completion: one completed site makes a completed batch.
CompletionOfAny(rs) ==
  IF Cancellations(rs) # {} THEN [status |-> "partial", stop |-> "cancelled"]
  ELSE IF \E i \in DOMAIN rs : rs[i].status = "completed"
  THEN [status |-> "completed", stop |-> "source_exhausted"]
  ELSE [status |-> "partial", stop |-> "partial"]

\* derive_site_batch_completion
Completion(rs) ==
  LET statuses == {rs[i].status : i \in DOMAIN rs} IN
  CASE Cancellations(rs) # {} -> [status |-> "partial", stop |-> "cancelled"]
    [] Cancellations(rs) = {} /\ statuses = {"completed"} /\ (\A i \in DOMAIN rs : rs[i].found)
         -> [status |-> "completed", stop |-> "source_exhausted"]
    [] Cancellations(rs) = {} /\ statuses = {"rejected"}
         -> [status |-> "rejected", stop |-> "rejected"]
    [] Cancellations(rs) = {} /\ statuses = {"failed"} -> [status |-> "failed", stop |-> "failed"]
    [] OTHER -> [status |-> "partial", stop |-> "partial"]

-----------------------------------------------------------------------------
(* The executing thread *)

Init ==
  /\ phase \in {"first", "refresh"}
  /\ status = "submitted" /\ cancel = None /\ children = <<>> /\ outcome = None
  /\ granted = {}
  /\ pc = "idle" /\ results = <<>> /\ barred = FALSE
  /\ crashes = 0

Claim ==
  /\ pc = "idle" /\ status = "submitted"
  /\ status' = "running" /\ pc' = "resume"
  /\ UNCHANGED <<phase, cancel, children, outcome, granted, results, barred, crashes>>

\* The durable prefix is reread, and granted once more: the grants of its last
\* child may have been lost.
Resume ==
  /\ pc = "resume" /\ pc' = "next"
  /\ results' = children
  /\ granted' = granted \cup DOMAIN children
  /\ UNCHANGED <<phase, status, cancel, children, outcome, barred, crashes>>

\* Mutant of NextChild: a cancelled batch goes on with its next site.
NextChildUnbarred ==
  /\ pc = "next"
  /\ barred' = FALSE
  /\ pc' = IF Len(results) < Sites THEN "child" ELSE "build"
  /\ UNCHANGED <<durable, results, crashes>>

\* The next site, if one is left: is the batch cancelled already?
NextChild ==
  /\ pc = "next"
  /\ IF Len(results) < Sites
     THEN pc' = "child" /\ barred' = (cancel # None)
     ELSE pc' = "build" /\ UNCHANGED barred
  /\ UNCHANGED <<durable, results, crashes>>

\* One site.  A barred exploration reports its cancellation at once; another child may see
\* a request that arrives while it runs.  A refresh whose Site Skill cannot be used is
\* rejected before it looks at the cancellation.
RunChild ==
  /\ pc = "child" /\ pc' = "checkpoint"
  /\ \E child \in Children :
       /\ barred => ~child.tried /\ (child.cancelled <=> phase = "first")
       /\ child.cancelled => cancel # None
       /\ results' = Append(results, child)
  /\ UNCHANGED <<durable, barred, crashes>>

\* A refresh that reads the cancellation before it calls a tool for a page makes a Result
\* without the Site Skill it ran under, which its own Result does not accept: it raises.
HaltChild ==
  /\ pc = "child" /\ pc' = "fail"
  /\ phase = "refresh" /\ cancel # None
  /\ UNCHANGED <<durable, results, barred, crashes>>

Checkpoint ==
  /\ pc = "checkpoint" /\ pc' = "grant"
  /\ status = "running" /\ Len(results) = Len(children) + 1
  /\ children' = Append(children, results[Len(results)])
  /\ UNCHANGED <<phase, status, cancel, outcome, granted, results, barred, crashes>>

Grant ==
  /\ pc = "grant"
  /\ granted' = granted \cup {Len(results)}
  /\ pc' = IF results[Len(results)].cancelled THEN "build" ELSE "next"
  /\ UNCHANGED <<phase, status, cancel, children, outcome, results, barred, crashes>>

Build ==
  /\ pc = "build"
  /\ pc' = IF Derivable(results) THEN "finish" ELSE "fail"
  /\ UNCHANGED <<durable, results, barred, crashes>>

\* finish_batch has no cancellation fence: a batch that completed before it noticed
\* a request stays completed.
Finish ==
  /\ pc = "finish" /\ pc' = "idle"
  /\ ~ Finished
  /\ status' = Completion(results).status
  /\ outcome' = [results |-> results, stop |-> Completion(results).stop]
  /\ UNCHANGED <<phase, cancel, children, granted, results, barred, crashes>>

\* Any exception becomes a failure without a Result; when that write raises too the
\* batch stays running until a restart.
Fail ==
  /\ pc = "fail"
  /\ \/ status' = "failed" /\ pc' = "idle"
     \/ MayLoseWrites /\ pc' = "lost" /\ UNCHANGED status
  /\ UNCHANGED <<phase, cancel, children, outcome, granted, results, barred, crashes>>

Raise ==
  /\ \/ MayRaise /\ pc = "child" /\ pc' = "fail"
     \/ MayLoseWrites /\ pc \in {"next", "checkpoint", "grant", "finish"} /\ pc' = "fail"
     \/ MayLoseWrites /\ pc = "resume" /\ pc' = "lost"
  /\ UNCHANGED <<durable, results, barred, crashes>>

-----------------------------------------------------------------------------
(* The others *)

\* Mutant of Cancel: a repeated request overwrites the first.
CancelAgain ==
  /\ ~ Finished
  /\ cancel' = Len(children)
  /\ UNCHANGED <<phase, status, children, outcome, granted, locals, crashes>>

\* Only the first request is dated, and none after the end.
Cancel ==
  /\ ~ Finished /\ cancel = None
  /\ cancel' = Len(children)
  /\ UNCHANGED <<phase, status, children, outcome, granted, locals, crashes>>

\* Mutant of Restart: a running batch is not returned to the queue.
RestartForgetting ==
  /\ crashes < MaxCrashes /\ crashes' = crashes + 1
  /\ ~ Finished
  /\ pc' = "idle" /\ results' = <<>> /\ barred' = FALSE
  /\ UNCHANGED durable

\* The process dies with its locals; the next server requeues the batch before its
\* workers start.
Restart ==
  /\ crashes < MaxCrashes /\ crashes' = crashes + 1
  /\ ~ Finished
  /\ status' = "submitted" /\ pc' = "idle"
  /\ results' = <<>> /\ barred' = FALSE
  /\ UNCHANGED <<phase, cancel, children, outcome, granted>>

Thread ==
  Claim \/ Resume \/ NextChild \/ RunChild \/ HaltChild \/ Checkpoint \/ Grant \/ Build
  \/ Finish \/ Fail

Next == Thread \/ Raise \/ Cancel \/ Restart

Spec == Init /\ [][Next]_batchVars

\* The thread that claimed the batch keeps running, as threads of a live process do.
FairSpec == Spec /\ WF_batchVars(Thread)

-----------------------------------------------------------------------------
(* Properties *)

\* An aggregate holds exactly the durable children, of every run, and the caller can read
\* the content of each: grants and checkpoints are in different databases, and a crash
\* between them is made good before the aggregate is persisted.  And it is true: completed
\* only if every site completed, cancelled exactly if a request stopped it.
AggregateIsSound ==
  outcome # None =>
    /\ outcome.results = children /\ DOMAIN children \subseteq granted
    /\ status = "completed" =>
         Len(children) = Sites /\ \A i \in 1..Sites : children[i].status = "completed"
    /\ outcome.stop = "cancelled" => cancel # None /\ children[Len(children)].cancelled
    /\ outcome.stop # "cancelled" => Len(children) = Sites

\* After a request only the child under way may call another tool, across crashes too.
CancelStopsAtTheNextChild ==
  cancel # None => \A i \in DOMAIN children : i > cancel + 1 => ~children[i].tried

\* A checkpointed child is never run or written again, the first cancellation
\* timestamp stands, and a finished batch never changes.
BatchHistoryStands ==
  [][/\ Len(children) <= Len(children')
     /\ \A i \in DOMAIN children : children'[i] = children[i]
     /\ granted \subseteq granted'
     /\ cancel # None => cancel' = cancel
     /\ Finished => UNCHANGED durable]_batchVars

\* A batch is at last left alone, whatever it was interrupted by, and then it has
\* ended, unless the write of its end was lost.
BatchEnds ==
  <>[](Finished \/ pc = "lost")

\* cancel_batch: "Request cancellation through acquisition and child boundaries."  Where
\* nothing fails and nothing restarts, a batch that is cancelled at such a boundary ends
\* like one that is not: with a Result, which holds its children.
EndsWithItsChildren == Finished => outcome # None
=============================================================================
