-------------------------- MODULE MCToolLifecycle --------------------------
(***************************************************************************)
(* ToolLifecycle with two versions and two administrators' processes.      *)
(***************************************************************************)
EXTENDS ToolLifecycle, TLC

AdminSymmetry == Permutations(Admins)

=============================================================================
