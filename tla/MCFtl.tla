------------------------------- MODULE MCFtl -------------------------------
(* Instances of Ftl for TLC.  The host addresses are interchangeable in    *)
(* every safety property; the liveness runs do not use the symmetry.       *)
EXTENDS Ftl, TLC

AddrSymmetry == Permutations(Addr)
=============================================================================
