------------------------- MODULE MCBufferedPackage -------------------------
(* Instances of BufferedPackage for TLC.                                   *)
EXTENDS BufferedPackage, TLC

DataSymmetry == Permutations(Data)
=============================================================================
