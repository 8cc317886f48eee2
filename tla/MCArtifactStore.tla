-------------------------- MODULE MCArtifactStore --------------------------
(***************************************************************************)
(* Two contents that share a directory, two threads of one process.        *)
(***************************************************************************)
EXTENDS ArtifactStore, TLC

CONSTANTS x, y, w1, w2

MCFolder == [c \in Contents |-> "xy"]
MCOneProcess == [w \in Writers |-> "server"]
MCSymmetry == Permutations({w1, w2}) \cup Permutations({x, y})
=============================================================================
