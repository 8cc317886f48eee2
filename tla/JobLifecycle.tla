---------------------------- MODULE JobLifecycle ----------------------------
(***************************************************************************)
(* What a persisted acquisition Job promises to its caller, without rows,  *)
(* tokens, clocks or processes: a Job is published once, starts once, ends *)
(* once, and its outcome never changes.  A cancellation request that is    *)
(* recorded before the end can no longer be answered by an ordinary        *)
(* outcome; content becomes readable only as part of the end of the Job.   *)
(***************************************************************************)
EXTENDS FiniteSets

CONSTANTS JobIds, Artifacts

VARIABLES
  phase,      \* the status a caller sees
  cancelled,  \* has a cancellation request been recorded?
  verdict,    \* how the Job ended: "ordinary", "cancelled", "interrupted" or "none"
  content     \* artifacts the Job made readable for its owner

vars == <<phase, cancelled, verdict, content>>

Ends == {"completed", "partial", "rejected", "failed"}

Init ==
  /\ phase = [j \in JobIds |-> "absent"]
  /\ cancelled = [j \in JobIds |-> FALSE]
  /\ verdict = [j \in JobIds |-> "none"]
  /\ content = [j \in JobIds |-> {}]

\* A Job appears, either queued or already running under its submitter.
Publish(j) ==
  /\ phase[j] = "absent"
  /\ \E p \in {"submitted", "running"} : phase' = [phase EXCEPT ![j] = p]
  /\ UNCHANGED <<cancelled, verdict, content>>

Start(j) ==
  /\ phase[j] = "submitted"
  /\ phase' = [phase EXCEPT ![j] = "running"]
  /\ UNCHANGED <<cancelled, verdict, content>>

RequestCancel(j) ==
  /\ phase[j] \in {"submitted", "running"}
  /\ cancelled' = [cancelled EXCEPT ![j] = TRUE]
  /\ UNCHANGED <<phase, verdict, content>>

\* Work that found artifacts ends completed or partial, any other work ends
\* rejected or failed; an interrupted Job yields nothing.
End(j) ==
  /\ phase[j] = "running"
  /\ \E e \in Ends, v \in {"ordinary", "cancelled", "interrupted"}, found \in SUBSET Artifacts :
       /\ cancelled[j] => v # "ordinary"
       /\ v = "interrupted" => e = "failed" /\ found = {}
       /\ v = "cancelled" => e # "completed"
       /\ found # {} <=> e \in {"completed", "partial"}
       /\ phase' = [phase EXCEPT ![j] = e]
       /\ verdict' = [verdict EXCEPT ![j] = v]
       /\ content' \in {content, [content EXCEPT ![j] = found]}
  /\ UNCHANGED cancelled

Next == \E j \in JobIds : Publish(j) \/ Start(j) \/ RequestCancel(j) \/ End(j)

Spec == Init /\ [][Next]_vars
=============================================================================
