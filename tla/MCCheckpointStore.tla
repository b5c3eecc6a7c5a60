-------------------------- MODULE MCCheckpointStore -------------------------
(***************************************************************************)
(* CheckpointStore with two documents and four files: the checkpoint can   *)
(* be held by up to three of them at once (two saves in a row whose        *)
(* directory was not synced) while a fourth is being written.              *)
(***************************************************************************)
EXTENDS CheckpointStore, TLC

CONSTANTS first, second, i1, i2, i3, i4

Symmetry == Permutations({first, second}) \cup Permutations({i1, i2, i3, i4})
=============================================================================
