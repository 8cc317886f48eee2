-------------------------- MODULE MCJobRepository --------------------------
(***************************************************************************)
(* Two Jobs, two callers sharing one idempotency key, two Requests, two    *)
(* clock readings, and the kinds of Result that the checks of a transition *)
(* tell apart, each for either run and over each time window.              *)
(***************************************************************************)
EXTENDS JobRepository, TLC

CONSTANTS c1, c2, q1, q2, t1, t2, k1, a1

MCKinds == {
  [status |-> "completed", error |-> None, attempt |-> None, artifacts |-> {a1}],
  [status |-> "partial", error |-> Cancelled, attempt |-> None, artifacts |-> {a1}],
  [status |-> "partial", error |-> None, attempt |-> Cancelled, artifacts |-> {a1}],
  [status |-> "failed", error |-> Cancelled, attempt |-> None, artifacts |-> {}],
  [status |-> "rejected", error |-> Interrupted, attempt |-> None, artifacts |-> {}] }

MCResults ==
  {[run |-> j, status |-> k.status, error |-> k.error, attempt |-> k.attempt,
    artifacts |-> k.artifacts, from |-> w[1], to |-> w[2]] :
      j \in JobIds, k \in MCKinds, w \in {<<0, 0>>, <<0, 1>>}}

MCSymmetry == Permutations({c1, c2}) \cup Permutations({q1, q2}) \cup Permutations({t1, t2})
=============================================================================
