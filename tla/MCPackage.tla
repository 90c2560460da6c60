----------------------------- MODULE MCPackage -----------------------------
(* Instances of Package for TLC.                                           *)
EXTENDS Package, TLC

DataSymmetry == Permutations(Data)
=============================================================================
