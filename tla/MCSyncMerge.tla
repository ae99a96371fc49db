----------------------------- MODULE MCSyncMerge -----------------------------
(* Small instances of SyncMerge for TLC. *)
EXTENDS SyncMerge, TLC

Symmetry == Permutations(Id)
==============================================================================
