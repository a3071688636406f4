-------------------------- MODULE WebRtcParameters --------------------------
\* The parameters of WebRtcPeer, and what a thread, the holder of the GIL and the holder of a mutex may be besides.
CONSTANTS
  Script,     \* the script threads beside the main one
  Peers,      \* objects there may be at a time
  MaxPeers    \* WEBRTC_MAX_PEERS

Main == "main"
Nobody == "nobody"
Destroyed == "destroyed"

ASSUME WebRtcAssumption == Main \notin Script /\ {Nobody, Destroyed} \cap (Script \cup Peers) = {}
=============================================================================
