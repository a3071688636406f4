---------------------------- MODULE MCIndependent ----------------------------
(***************************************************************************)
(* An instance of seven components for TLC: MediaManager, FramePreview,    *)
(* StdoutRing, StdinRing, DisplayBuffers, MjpegEncoder and WebRtcPeer.     *)
(* Their modules share no state, so what one can reach does not depend on  *)
(* what the others do: each is explored while the others are in their      *)
(* initial states, and the run visits the sum of their states, not the     *)
(* product.                                                                *)
(***************************************************************************)
EXTENDS DisplayBuffers, MediaParameters, WebRtcParameters

CONSTANTS Blocks, StdoutSize, MaxPrint, MaxErrors, StdinSize, Bytes, MaxChunk, Readers, Params

VARIABLES
  buf, failures, pool, inited, backend, dev, stat, sensor, image, img, forgotten, pc,
  heap, fb, from, shown, sending, told, enablePic, previewTask, previewMain, enabled, encoderInited, record, held,
  frameHeld, venc,
  r, w, pending, torn, drain, probe, attached, disconnect, dtr, py, ringTask, errors,
  input, wptr, rptr, count, reader,
  jpeg, params, jpegRecord, jpegHeld, reads, encode, fault, misses,
  stage, gil, at, todo, peer, registered, peers, library

M == INSTANCE MediaManager
P == INSTANCE FramePreview WITH ide <- previewTask, main <- previewMain, inited <- encoderInited
R == INSTANCE StdoutRing WITH ide <- ringTask, Size <- StdoutSize
S == INSTANCE StdinRing WITH ring <- input, Size <- StdinSize
J == INSTANCE MjpegEncoder WITH state <- jpeg, record <- jpegRecord, held <- jpegHeld, call <- encode
W == INSTANCE WebRtcPeer WITH count <- peers

\* The names of no picture and of the snapshot are no blocks.
ASSUME PreviewAssumption == {P!None, P!Snapshot} \cap Blocks = {}

\* The output ring has room, and what is printed and what fails in a row is counted.
ASSUME StdoutAssumption == StdoutSize \in Nat \ {0} /\ MaxPrint \in Nat /\ MaxErrors \in Nat

\* The input ring has room, there are bytes to type, and the interrupt character is none of them.
ASSUME StdinAssumption == StdinSize \in Nat \ {0} /\ MaxChunk \in Nat /\ Bytes # {} /\ S!Ctrl \notin Bytes

media == <<buf, failures, pool, inited, backend, dev, stat, sensor, image, img, forgotten, pc>>
preview == <<heap, fb, from, shown, sending, told, enablePic, previewTask, previewMain, enabled, encoderInited, record,
             held, frameHeld, venc>>
stdout == <<r, w, pending, torn, drain, probe, attached, disconnect, dtr, py, ringTask, errors>>
stdin == <<input, wptr, rptr, count, reader>>
mjpeg == <<jpeg, params, jpegRecord, jpegHeld, reads, encode, fault, misses>>
webrtc == <<stage, gil, at, todo, peer, registered, peers, library>>

MCInit == Init /\ M!Init /\ P!Init /\ R!Init /\ S!Init /\ J!Init /\ W!Init

MCNext ==
  \/ M!Init /\ P!Init /\ R!Init /\ S!Init /\ J!Init /\ W!Init /\ Next
     /\ UNCHANGED <<media, preview, stdout, stdin, mjpeg, webrtc>>
  \/ Init /\ P!Init /\ R!Init /\ S!Init /\ J!Init /\ W!Init /\ M!Next
     /\ UNCHANGED <<vars, preview, stdout, stdin, mjpeg, webrtc>>
  \/ Init /\ M!Init /\ R!Init /\ S!Init /\ J!Init /\ W!Init /\ P!Next
     /\ UNCHANGED <<vars, media, stdout, stdin, mjpeg, webrtc>>
  \/ Init /\ M!Init /\ P!Init /\ S!Init /\ J!Init /\ W!Init /\ R!Next
     /\ UNCHANGED <<vars, media, preview, stdin, mjpeg, webrtc>>
  \/ Init /\ M!Init /\ P!Init /\ R!Init /\ J!Init /\ W!Init /\ S!Next
     /\ UNCHANGED <<vars, media, preview, stdout, mjpeg, webrtc>>
  \/ Init /\ M!Init /\ P!Init /\ R!Init /\ S!Init /\ W!Init /\ J!Next
     /\ UNCHANGED <<vars, media, preview, stdout, stdin, webrtc>>
  \/ Init /\ M!Init /\ P!Init /\ R!Init /\ S!Init /\ J!Init /\ W!Next
     /\ UNCHANGED <<vars, media, preview, stdout, stdin, mjpeg>>

MCSpec == MCInit /\ [][MCNext]_<<vars, media, preview, stdout, stdin, mjpeg, webrtc>> /\ R!Fairness

\* The values every variable of the seven components may take.
TypesOK == TypeOK /\ M!TypeOK /\ P!TypeOK /\ R!TypeOK /\ S!TypeOK /\ J!TypeOK /\ W!TypeOK

\* MediaManager: its memory and the camera are accounted for across failed calls, exceptions, retries and resets.
MediaAccounted == M!BuffersAccounted /\ M!CameraAccounted

\* FramePreview: a frame is handed from the program to the host once, as it was announced.
FrameHandover == P!FrameHandover

\* FramePreview: the encoder is set up, used and taken down as a whole, in order, whichever call fails.
EncoderSound == P!EncoderSound

\* StdoutRing: what can be read is what was printed and neither delivered nor discarded.
RingHoldsPending == R!RingHoldsPending

\* StdinRing: standard input is a queue that keeps the latest bytes.
StdinIsQueue == S!IsQueue

\* MjpegEncoder: resources are set up and released as a whole and in order, and the encoder recovers at once.
MjpegEncoderSound == J!MjpegEncoderSound

\* WebRtcPeer: peers are used while they are there and are gone with the VM, however calls, closes and a reset overlap.
PeersSound == W!PeersSound

\* StdoutRing: a drain ends, whether or not the host reads.
DrainsEnd == R!DrainsEnd
=============================================================================
