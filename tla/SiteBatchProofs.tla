-------------------------- MODULE SiteBatchProofs --------------------------
(***************************************************************************)
(* Proofs about SiteBatch, for any number of sites and crashes, and        *)
(* whether or not workflows and database writes raise.                     *)
(*                                                                         *)
(* The properties speak of durable rows; they hold because of how the      *)
(* thread's locals relate to them at every place it can be (IInv): its     *)
(* results are the durable children, or one more before their checkpoint;  *)
(* all of them but the one just checkpointed are granted; and the child    *)
(* it runs after a durable cancellation knows of it.                       *)
(***************************************************************************)
EXTENDS SiteBatch, SequenceTheorems, TLAPS

ChildResults == [status : ResultStatus, cancelled : BOOLEAN, tried : BOOLEAN, found : BOOLEAN]

Places == {"idle", "resume", "next", "child", "checkpoint", "grant", "build", "finish", "fail", "lost"}

\* Where the thread has its results.
Working == pc \in {"next", "child", "checkpoint", "grant", "build", "finish"}

BatchTypeOK ==
  /\ pc \in Places /\ status \in {"submitted", "running"} \cup ResultStatus
  /\ children \in Seq(ChildResults) /\ results \in Seq(ChildResults)
  /\ cancel \in Nat \cup {None} /\ barred \in BOOLEAN

\* Only a running batch has a thread at work, and only a finished one an aggregate.
StatusFollows ==
  /\ pc \notin {"idle", "lost"} => status = "running"
  /\ outcome # None => Finished

\* The thread's results are the durable children, or one more on its way to the checkpoint.
ResultsFollow ==
  /\ Working /\ pc # "checkpoint" => results = children
  /\ pc = "checkpoint" => \E child \in ChildResults : results = Append(children, child)

\* All durable children are granted while the thread works, but the one it just checkpointed.
GrantsFollow ==
  /\ Working /\ pc # "grant" => DOMAIN children \subseteq granted
  /\ pc = "grant" => children # <<>> /\ DOMAIN children \ {Len(children)} \subseteq granted

\* A cancellation that any Result reports was requested; one that is older than the durable
\* children bars the child that runs.
CancelFollows ==
  /\ cancel # None => cancel <= Len(children)
  /\ \A i \in DOMAIN children : children[i].cancelled => cancel # None
  /\ Working => \A i \in DOMAIN results : results[i].cancelled => cancel # None
  /\ pc = "child" /\ cancel # None /\ cancel < Len(children) => barred
  /\ pc = "checkpoint" /\ cancel # None /\ cancel < Len(children) =>
       ~results[Len(results)].tried

IInv ==
  /\ BatchTypeOK
  /\ StatusFollows
  /\ ResultsFollow
  /\ GrantsFollow
  /\ CancelFollows
  /\ pc = "finish" => Derivable(results)
  /\ AggregateIsSound
  /\ CancelStopsAtTheNextChild

-----------------------------------------------------------------------------

\* What derive_site_batch_completion makes of Results it accepts.
LEMMA CompletionIsTrue ==
  ASSUME NEW rs \in Seq(ChildResults), Derivable(rs)
  PROVE  /\ Completion(rs).status \in ResultStatus
         /\ Completion(rs).status = "completed" =>
              Len(rs) = Sites /\ \A i \in 1..Sites : rs[i].status = "completed"
         /\ Completion(rs).stop = "cancelled" => rs[Len(rs)].cancelled
         /\ Completion(rs).stop # "cancelled" => Len(rs) = Sites
<1>1. CASE Cancellations(rs) # {}
  <2>1. Completion(rs) = [status |-> "partial", stop |-> "cancelled"]
    BY <1>1 DEF Completion
  <2>2. rs[Len(rs)].cancelled
    BY <1>1 DEF Derivable, Cancellations
  <2> QED BY <2>1, <2>2 DEF ResultStatus
<1>2. CASE Cancellations(rs) = {}
  <2> DEFINE statuses == {rs[i].status : i \in DOMAIN rs}
  <2>1. Len(rs) = Sites /\ DOMAIN rs = 1..Sites
    BY <1>2 DEF Derivable
  <2>2. CASE statuses = {"completed"} /\ \A i \in DOMAIN rs : rs[i].found
    <3>1. Completion(rs) = [status |-> "completed", stop |-> "source_exhausted"]
      BY <1>2, <2>2 DEF Completion
    <3>2. \A i \in 1..Sites : rs[i].status = "completed"
      BY <2>1, <2>2
    <3> QED BY <2>1, <3>1, <3>2 DEF ResultStatus
  <2>3. CASE ~(statuses = {"completed"} /\ \A i \in DOMAIN rs : rs[i].found)
    <3>1. Completion(rs) \in {[status |-> "rejected", stop |-> "rejected"],
                              [status |-> "failed", stop |-> "failed"],
                              [status |-> "partial", stop |-> "partial"]}
      BY <1>2, <2>3 DEF Completion
    <3> QED BY <2>1, <3>1 DEF ResultStatus
  <2> QED BY <2>2, <2>3
<1> QED BY <1>1, <1>2

\* What is appended is the last, and nothing before it changes.
LEMMA AppendedLast ==
  ASSUME NEW S, NEW s \in Seq(S), NEW e \in S
  PROVE  /\ Append(s, e) \in Seq(S) /\ Append(s, e) # <<>>
         /\ Len(Append(s, e)) = Len(s) + 1
         /\ DOMAIN Append(s, e) = DOMAIN s \cup {Len(s) + 1}
         /\ \A i \in DOMAIN s : Append(s, e)[i] = s[i] /\ i <= Len(s)
         /\ Append(s, e)[Len(s) + 1] = e
  OBVIOUS

\* A thread begins without results.
LEMMA NoResults == <<>> \in Seq(ChildResults) /\ DOMAIN <<>> = {} /\ Len(<<>>) = 0
  OBVIOUS

LEMMA Begins == Init => IInv
  BY NoneIsNothing, NoResults
  DEF Init, IInv, BatchTypeOK, Places, StatusFollows, ResultsFollow, GrantsFollow, CancelFollows,
      Working, AggregateIsSound, CancelStopsAtTheNextChild

-----------------------------------------------------------------------------
(* The thread *)

LEMMA ClaimKeeps == IInv /\ Claim => IInv'
  BY DEF Claim, IInv, BatchTypeOK, Places, StatusFollows, ResultsFollow, GrantsFollow,
     CancelFollows, Working, AggregateIsSound, CancelStopsAtTheNextChild, Finished, ResultStatus

LEMMA ResumeKeeps == IInv /\ Resume => IInv'
  BY DEF Resume, IInv, BatchTypeOK, Places, StatusFollows, ResultsFollow, GrantsFollow,
     CancelFollows, Working, AggregateIsSound, CancelStopsAtTheNextChild, Finished, ResultStatus

LEMMA NextChildKeeps == IInv /\ NextChild => IInv'
  BY DEF NextChild, durable, IInv, BatchTypeOK, Places, StatusFollows, ResultsFollow, GrantsFollow,
     CancelFollows, Working, AggregateIsSound, CancelStopsAtTheNextChild, Finished, ResultStatus

\* A barred child calls no tool.
LEMMA RunChildKeeps == IInv /\ RunChild => IInv'
<1> SUFFICES ASSUME IInv, RunChild PROVE IInv'
  OBVIOUS
<1>1. PICK child \in Children :
        /\ barred => ~child.tried
        /\ child.cancelled => cancel # None
        /\ results' = Append(results, child)
  BY DEF RunChild
<1>2. child \in ChildResults /\ results = children /\ children \in Seq(ChildResults)
  BY DEF RunChild, Children, ChildResults, IInv, ResultsFollow, Working, BatchTypeOK
<1>3. /\ pc = "child" /\ pc' = "checkpoint"
      /\ UNCHANGED <<durable, barred, crashes>>
  BY DEF RunChild
<1>4. BatchTypeOK' /\ StatusFollows' /\ ResultsFollow' /\ GrantsFollow'
  BY <1>1, <1>2, <1>3, AppendedLast
  DEF durable, IInv, BatchTypeOK, Places, StatusFollows, ResultsFollow, GrantsFollow, Working,
      Finished
<1>5. CancelFollows'
  <2>1. \A i \in DOMAIN results' : results'[i].cancelled => cancel # None
    BY <1>1, <1>2, AppendedLast DEF IInv, CancelFollows
  <2>2. cancel # None /\ cancel < Len(children) => ~results'[Len(results')].tried
    BY <1>1, <1>2, <1>3, AppendedLast DEF IInv, CancelFollows
  <2> QED BY <1>3, <2>1, <2>2 DEF durable, IInv, CancelFollows
<1> QED BY <1>3, <1>4, <1>5
     DEF durable, IInv, AggregateIsSound, CancelStopsAtTheNextChild

LEMMA CheckpointKeeps == IInv /\ Checkpoint => IInv'
<1> SUFFICES ASSUME IInv, Checkpoint PROVE IInv'
  OBVIOUS
<1>1. PICK child \in ChildResults : results = Append(children, child)
  BY DEF Checkpoint, IInv, ResultsFollow
<1>2. children \in Seq(ChildResults)
  BY DEF IInv, BatchTypeOK
<1>3. children' = results /\ results' = results
  BY <1>1, <1>2, AppendedLast DEF Checkpoint
<1>4. /\ pc = "checkpoint" /\ pc' = "grant" /\ status = "running"
      /\ UNCHANGED <<phase, status, cancel, outcome, granted, barred, crashes>>
  BY DEF Checkpoint
<1>5. BatchTypeOK' /\ StatusFollows' /\ ResultsFollow'
  BY <1>1, <1>2, <1>3, <1>4
  DEF IInv, BatchTypeOK, Places, StatusFollows, ResultsFollow, Working, Finished
<1>6. GrantsFollow'
  BY <1>1, <1>2, <1>3, <1>4, AppendedLast DEF IInv, GrantsFollow, Working
<1>7. CancelFollows' /\ CancelStopsAtTheNextChild'
  BY <1>1, <1>2, <1>3, <1>4, AppendedLast
  DEF IInv, BatchTypeOK, CancelFollows, CancelStopsAtTheNextChild, Working
<1>8. outcome = None
  BY <1>4 DEF IInv, StatusFollows, Finished, ResultStatus
<1> QED BY <1>4, <1>5, <1>6, <1>7, <1>8 DEF IInv, AggregateIsSound

LEMMA GrantKeeps == IInv /\ Grant => IInv'
<1> SUFFICES ASSUME IInv, Grant PROVE IInv'
  OBVIOUS
<1>1. results = children /\ DOMAIN children \subseteq granted'
  BY DEF Grant, IInv, ResultsFollow, GrantsFollow, Working
<1> QED BY <1>1
     DEF Grant, IInv, BatchTypeOK, Places, StatusFollows, ResultsFollow, GrantsFollow,
         CancelFollows, Working, AggregateIsSound, CancelStopsAtTheNextChild, Finished

LEMMA BuildKeeps == IInv /\ Build => IInv'
  BY DEF Build, durable, IInv, BatchTypeOK, Places, StatusFollows, ResultsFollow, GrantsFollow,
     CancelFollows, Working, AggregateIsSound, CancelStopsAtTheNextChild, Finished, ResultStatus

LEMMA FinishKeeps == IInv /\ Finish => IInv'
<1> SUFFICES ASSUME IInv, Finish PROVE IInv'
  OBVIOUS
<1>1. /\ results = children /\ Derivable(children) /\ children \in Seq(ChildResults)
      /\ DOMAIN children \subseteq granted
  BY DEF Finish, IInv, ResultsFollow, GrantsFollow, Working, BatchTypeOK
<1>2. children[Len(children)].cancelled => cancel # None
  BY <1>1 DEF Derivable, IInv, CancelFollows
<1>3. /\ status' = Completion(children).status
      /\ outcome' = [results |-> children, stop |-> Completion(children).stop]
      /\ pc' = "idle" /\ UNCHANGED <<phase, cancel, children, granted, results, barred, crashes>>
  BY <1>1 DEF Finish
<1>4. AggregateIsSound'
  BY <1>1, <1>2, <1>3, CompletionIsTrue DEF AggregateIsSound
<1>5. status' \in ResultStatus
  BY <1>1, <1>3, CompletionIsTrue
<1> QED BY <1>3, <1>4, <1>5
     DEF IInv, BatchTypeOK, Places, StatusFollows, ResultsFollow, GrantsFollow, CancelFollows,
         Working, CancelStopsAtTheNextChild, Finished

LEMMA FailKeeps == IInv /\ (Fail \/ HaltChild \/ Raise) => IInv'
<1> SUFFICES ASSUME IInv, Fail \/ HaltChild \/ Raise PROVE IInv'
  OBVIOUS
<1> USE DEF durable, IInv, BatchTypeOK, Places, StatusFollows, ResultsFollow, GrantsFollow,
            CancelFollows, Working, AggregateIsSound, CancelStopsAtTheNextChild, Finished,
            ResultStatus
<1>1. CASE Fail
  BY <1>1 DEF Fail
<1>2. CASE HaltChild
  BY <1>2 DEF HaltChild
<1>3. CASE Raise
  BY <1>3 DEF Raise
<1> QED BY <1>1, <1>2, <1>3

-----------------------------------------------------------------------------
(* The others *)

\* A request is dated by what is durable: no durable child is younger.
LEMMA CancelKeeps == IInv /\ Cancel => IInv'
  BY DEF Cancel, locals, IInv, BatchTypeOK, Places, StatusFollows, ResultsFollow, GrantsFollow,
     CancelFollows, Working, AggregateIsSound, CancelStopsAtTheNextChild, Finished, ResultStatus

LEMMA RestartKeeps == IInv /\ Restart => IInv'
  BY NoResults DEF Restart, IInv, BatchTypeOK, Places, StatusFollows, ResultsFollow, GrantsFollow,
     CancelFollows, Working, AggregateIsSound, CancelStopsAtTheNextChild, Finished, ResultStatus

LEMMA NextKeeps == IInv /\ [Next]_batchVars => IInv'
<1> SUFFICES ASSUME IInv, [Next]_batchVars PROVE IInv'
  OBVIOUS
<1>1. CASE UNCHANGED batchVars
  BY <1>1 DEF batchVars, durable, locals, IInv, BatchTypeOK, StatusFollows, ResultsFollow,
     GrantsFollow, CancelFollows, Working, AggregateIsSound, CancelStopsAtTheNextChild, Finished
<1> QED BY <1>1, ClaimKeeps, ResumeKeeps, NextChildKeeps, RunChildKeeps, CheckpointKeeps,
     GrantKeeps, BuildKeeps, FinishKeeps, FailKeeps, CancelKeeps, RestartKeeps
     DEF Next, Thread

THEOREM InductiveHolds == Spec => []IInv
  BY Begins, NextKeeps, PTL DEF Spec

\* However a batch was interrupted, its aggregate holds exactly the durable children, the
\* caller can read the content of each, and it says completed or cancelled only where that
\* is so.
THEOREM AggregateHolds == Spec => []AggregateIsSound
<1>1. IInv => AggregateIsSound
  BY DEF IInv
<1> QED BY InductiveHolds, <1>1, PTL

\* After a request is in the row only the child under way may still call a tool.
THEOREM CancelHolds == Spec => []CancelStopsAtTheNextChild
<1>1. IInv => CancelStopsAtTheNextChild
  BY DEF IInv
<1> QED BY InductiveHolds, <1>1, PTL

\* No step rewrites a checkpointed child, takes back a grant, moves the first request or
\* touches a finished batch.
THEOREM HistoryHolds == Spec => BatchHistoryStands
<1> DEFINE Stands ==
      /\ Len(children) <= Len(children')
      /\ \A i \in DOMAIN children : children'[i] = children[i]
      /\ granted \subseteq granted'
      /\ cancel # None => cancel' = cancel
      /\ Finished => UNCHANGED durable
<1>1. IInv /\ [Next]_batchVars => [Stands]_batchVars
  <2> SUFFICES ASSUME IInv, Next PROVE Stands
    OBVIOUS
  <2>1. children \in Seq(ChildResults)
    BY DEF IInv, BatchTypeOK
  <2>2. pc \notin {"idle", "lost"} => ~Finished
    BY DEF IInv, StatusFollows, Finished, ResultStatus
  <2>3. CASE UNCHANGED durable
    BY <2>1, <2>3 DEF durable
  <2>4. CASE Claim \/ Resume \/ Grant \/ Finish \/ Fail \/ Cancel \/ Restart
    BY <2>1, <2>2, <2>4
    DEF Claim, Resume, Grant, Finish, Fail, Cancel, Restart, Finished, ResultStatus
  <2>5. CASE Checkpoint
    <3>1. PICK child \in ChildResults : results = Append(children, child)
      BY <2>5 DEF Checkpoint, IInv, ResultsFollow
    <3> QED BY <2>1, <2>2, <2>5, <3>1, AppendedLast DEF Checkpoint
  <2> QED BY <2>3, <2>4, <2>5
       DEF Next, Thread, NextChild, RunChild, HaltChild, Build, Raise
<1> QED BY InductiveHolds, <1>1, PTL DEF Spec, BatchHistoryStands
=============================================================================
