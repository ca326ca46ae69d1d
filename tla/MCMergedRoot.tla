---------------------------- MODULE MCMergedRoot ----------------------------
(* MergedRoot for TLC. *)
EXTENDS MergedRoot, TLC

Alike == Permutations(Versions)
=============================================================================
