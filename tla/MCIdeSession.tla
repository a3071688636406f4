---------------------------- MODULE MCIdeSession ----------------------------
(* Instances of IdeSession for TLC.                                         *)
EXTENDS IdeSession, TLC
=============================================================================
