---------------------------- MODULE MCSiteBatch ----------------------------
(***************************************************************************)
(* Batches of a few sites; nothing to define beyond the constants.         *)
(***************************************************************************)
EXTENDS SiteBatch
=============================================================================
