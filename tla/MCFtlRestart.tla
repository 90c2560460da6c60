---------------------------- MODULE MCFtlRestart ----------------------------
(* FtlRestart for TLC, as it is: its run checks liveness, so it has no     *)
(* symmetry.  The host does not use the address 0.                         *)
EXTENDS FtlRestart
=============================================================================
