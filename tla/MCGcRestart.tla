----------------------------- MODULE MCGcRestart -----------------------------
(* Instances of GCFtl and GcRestart for TLC; with MaxRestarts = 0 the file *)
(* is never written and there is one process.                              *)
EXTENDS GcRestart, TLC

AddrSymmetry == Permutations(Addr)
=============================================================================
