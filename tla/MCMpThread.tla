----------------------------- MODULE MCMpThread -----------------------------
(* Instances of MpThread for TLC.                                          *)
EXTENDS MpThread, TLC

Symmetry == Permutations(Workers)
=============================================================================
