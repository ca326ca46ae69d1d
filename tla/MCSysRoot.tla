------------------------------ MODULE MCSysRoot ------------------------------
(* SysRoot for TLC.  Releases are only compared for equality.              *)
EXTENDS SysRoot, TLC

Alike == Permutations(Releases)
=============================================================================
