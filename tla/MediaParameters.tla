--------------------------- MODULE MediaParameters ---------------------------
(***************************************************************************)
(* The parameters of MediaManager: what a program can hold of the media    *)
(* library.                                                                *)
(***************************************************************************)
EXTENDS Naturals, FiniteSets

CONSTANTS
  Buffers,   \* native buffers
  Slots      \* entries of vicap_images

None == "none"

ASSUME MediaAssumption == None \notin Slots /\ IsFiniteSet(Buffers)
=============================================================================
