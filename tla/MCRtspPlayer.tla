---------------------------- MODULE MCRtspPlayer ----------------------------
(* RtspPlayer for TLC. *)
EXTENDS RtspPlayer, TLC

CONSTANTS r1, r2
=============================================================================
