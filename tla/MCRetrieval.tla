---------------------------- MODULE MCRetrieval ----------------------------
(* Retrieval with one alternate, two resources and a budget that runs out. *)
EXTENDS Retrieval

MCBudget == [requests |-> 2, runtime |-> 2]
MCLesser == [requests |-> 1, runtime |-> 1]

=============================================================================
