--------------------------- MODULE MCJobExecution ---------------------------
(***************************************************************************)
(* Instances of JobExecution: one caller and key per Job, Results of each  *)
(* kind that cancellation and exceptions convert between.                  *)
(***************************************************************************)
EXTENDS JobExecution, TLC

CONSTANTS c1, k1, k2, q1, t1, t2, a1, w1, w2, p1

MCKinds == {
  [status |-> "completed", error |-> None, attempt |-> None, artifacts |-> {a1}],
  [status |-> "partial", error |-> Cancelled, attempt |-> None, artifacts |-> {a1}],
  [status |-> "partial", error |-> WorkflowFailed, attempt |-> None, artifacts |-> {a1}],
  [status |-> "failed", error |-> Cancelled, attempt |-> None, artifacts |-> {}],
  [status |-> "failed", error |-> WorkflowFailed, attempt |-> None, artifacts |-> {}] }
    \cup {[status |-> "rejected", error |-> code, attempt |-> None, artifacts |-> {}] :
            code \in RejectionCodes}

MCResults ==
  {[run |-> j, status |-> k.status, error |-> k.error, attempt |-> k.attempt,
    artifacts |-> k.artifacts, from |-> w[1], to |-> w[2]] :
      j \in JobIds, k \in MCKinds, w \in {v \in Times \X Times : v[1] <= v[2]}}

\* Enough where only the race between outcomes and cancellations matters.
MCPlainResults == {r \in MCResults : r.artifacts = {}}

MCSymmetry == Permutations({t1, t2}) \cup Permutations({k1, k2}) \cup Permutations({w1, w2})
=============================================================================
