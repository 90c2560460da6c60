----------------------------- MODULE MCFrontBuffer -----------------------------
(* Instance of FrontBuffer for TLC.                                        *)
EXTENDS FrontBuffer
=============================================================================
