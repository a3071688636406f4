----------------------------- MODULE MCDeinitAll -----------------------------
(***************************************************************************)
(* What the soft reset takes down first, while it keeps the GIL and script *)
(* threads are still there: periodic transmitters and WebRTC peers, for    *)
(* liveness.  They share no state: each is explored while the other is in  *)
(* its initial state.                                                      *)
(***************************************************************************)
EXTENDS MCUartPeriodicTx

CONSTANTS Scripts, Peers, MaxPeers

VARIABLES stage, gil, at, todo, peer, registered, count, library

W == INSTANCE WebRtcPeer WITH Script <- Scripts

webrtc == <<stage, gil, at, todo, peer, registered, count, library>>

MCInit == Init /\ W!Init

MCNext ==
  \/ W!Init /\ Next /\ UNCHANGED webrtc
  \/ Init /\ W!Next /\ UNCHANGED vars

MCSpec == MCInit /\ [][MCNext]_<<vars, webrtc>> /\ Fairness /\ W!Fairness

\* Stopping a transmitter ends, also when the reset does it, and so does closing a peer; until then the last frame
\* leaves.
NoneWaitsForever == TransmitterProgresses /\ W!ClosesEnd
=============================================================================
