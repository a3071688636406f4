---------------------------- MODULE MjpegEncoder ----------------------------
(***************************************************************************)
(* MJPEGEncoder of modules/modmedia.mjpeg.c.  encode() sets the hardware   *)
(* channel up for the size and format of its picture, or uses the one that *)
(* is there; close() and the finaliser release it.  Every call holds the   *)
(* object's mutex from its check of closed to its end, also while encode() *)
(* gives the GIL up, so that calls follow one another: call is the one in  *)
(* progress.  Any call of the vendor's library may fail; a cleanup stops   *)
(* at the first that does, and a later call resumes it.                    *)
(***************************************************************************)
EXTENDS Naturals, Sequences, SequencesExt

CONSTANTS Params    \* the sizes and formats of pictures

None == "none"

VARIABLES
  state,     \* closed, and by what: "open", "closed", "finalised"
  params,    \* width, height, pixel_format
  record,    \* the resources the object has on record
  held,      \* the resources the library has given out
  reads,     \* does VENC read the input block?  "late": it may, since a call failed, until the channel is stopped
  call,      \* where the call in progress is, for which picture
  fault,     \* history: a call of the library failed during it
  misses     \* history: encodes in a row that failed without such a failure

vars == <<state, params, record, held, reads, call, fault, misses>>

\* The orders of mjpeg_encoder_init_locked, mjpeg_encoder_ensure_input_buffer_locked and mjpeg_encoder_cleanup_locked
Channel == <<"fd", "chn", "output", "attached", "created", "started">>
Input == <<"pool", "block", "map">>
Release == <<"started", "attached", "created", "chn", "fd", "output", "map", "block", "pool">>
Resources == ToSet(Release)

\* What each resource is built upon
Needs(r) ==
  CASE r = "chn"      -> {"fd"}
    [] r = "attached" -> {"chn", "output"}
    [] r = "created"  -> {"chn"}
    [] r = "started"  -> {"created", "attached"}
    [] r = "block"    -> {"pool"}
    [] r = "map"      -> {"block"}
    [] OTHER          -> {}

Idle == [at |-> "idle", params |-> None, staged |-> FALSE]
Goto(at) == call' = [call EXCEPT !.at = at]

Init ==
  /\ state = "open" /\ params = None
  /\ record = {} /\ held = {}
  /\ reads = "no"
  /\ call = Idle
  /\ fault = FALSE /\ misses = 0

-----------------------------------------------------------------------------
\* mjpeg_encoder_cleanup_locked fails at the kth resource, or at none if k is past the last.  fd_acquired is cleared
\* even if its release failed; the size is forgotten once channel and descriptor are gone.
CleanupTo(k) ==
  LET left == record \ {Release[i] : i \in 1 .. k - 1}
      failed == k <= Len(Release)
  IN /\ failed => Release[k] \in record
     /\ record' = left \ (IF failed /\ Release[k] = "fd" THEN {"fd"} ELSE {})
     /\ held' = (held \ record) \cup left
     /\ params' = IF k > 5 THEN None ELSE params
     /\ reads' = IF "started" \in left THEN reads ELSE "no"
     /\ fault' = (fault \/ failed)

Attempts == 1 .. Len(Release) + 1
Succeeded(k) == k = Len(Release) + 1

\* encode() returns, or raises after its cleanup
Return(ok) ==
  /\ call' = Idle
  /\ misses' = IF ok \/ fault' THEN 0 ELSE misses + 1

\* mjpeg_encoder_encode: with the mutex, a closed encoder is refused; the channel is kept if it fits.
Encode(p, staged) ==
  /\ call = Idle /\ state = "open"
  /\ call' = [at |-> IF "chn" \in record /\ params = p THEN "input" ELSE "clean", params |-> p, staged |-> staged]
  /\ fault' = FALSE
  /\ UNCHANGED <<state, params, record, held, reads, misses>>

\* A closed encoder refuses; one that was collected does nothing any more.
EncodeRefused ==
  /\ call = Idle /\ state # "open"
  /\ UNCHANGED vars

\* mjpeg_encoder_init_locked begins with what an earlier cleanup left.
InitCleans ==
  /\ call.at = "clean"
  /\ \E k \in Attempts :
       /\ CleanupTo(k)
       /\ IF Succeeded(k) THEN Goto("init") /\ UNCHANGED misses ELSE Return(FALSE)
  /\ UNCHANGED state

\* Resources are acquired in turn; one that fails leaves those before it on record, which mjpeg_encoder_init_locked
\* cleans up at once.  Without a descriptor there is nothing to clean up.
InitChannel ==
  /\ call.at = "init"
  /\ \E n \in 0 .. Len(Channel) :
       /\ record' = record \cup {Channel[i] : i \in 1 .. n}
       /\ held' = held \cup record'
       /\ IF n = Len(Channel)
          THEN params' = call.params /\ Goto("input") /\ UNCHANGED fault
          ELSE fault' = TRUE /\ Goto("undo") /\ UNCHANGED params
  /\ UNCHANGED <<state, reads, misses>>

\* mjpeg_encoder_ensure_input_buffer_locked, for an image: its size follows from params, so a block that is there is
\* large enough.  A failure gives back what this call acquired, which is taken to succeed.
EnsureInput ==
  /\ call.at = "input"
  /\ LET missing == IF call.staged /\ "block" \notin record THEN ToSet(Input) ELSE {}
     IN \/ /\ record' = record \cup missing /\ held' = held \cup missing
           /\ Goto("send") /\ UNCHANGED fault
        \/ /\ missing # {}
           /\ fault' = TRUE /\ Goto("undo") /\ UNCHANGED <<record, held>>
  /\ UNCHANGED <<state, params, reads, misses>>

\* The cache is flushed and the frame sent, which cannot succeed on a channel that is not complete.
SendFrame ==
  /\ call.at = "send"
  /\ \/ /\ ToSet(Channel) \subseteq record
        /\ reads' = IF reads # "no" THEN "late" ELSE IF call.staged THEN "now" ELSE "no"
        /\ Goto("take") /\ UNCHANGED fault
     \/ fault' = (ToSet(Channel) \subseteq record) /\ Goto("undo") /\ UNCHANGED reads
  /\ UNCHANGED <<state, params, record, held, misses>>

\* kd_mpi_venc_query_status, get_stream, the copy and release_stream; a stream of no use counts as a failure.
TakeStream ==
  /\ call.at = "take"
  /\ \/ reads' = (IF reads = "late" THEN "late" ELSE "no") /\ UNCHANGED fault /\ Return(TRUE)
     \/ /\ reads' \in IF reads = "now" THEN {"no", "late"} ELSE {reads}
        /\ fault' = TRUE /\ Goto("undo") /\ UNCHANGED misses
  /\ UNCHANGED <<state, params, record, held>>

Mut_FailsWithoutCleanup ==
  /\ call.at = "undo"
  /\ UNCHANGED <<state, params, record, held, reads, fault>>
  /\ Return(FALSE)

\* A failed encode cleans up; a failure of the cleanup leaves the rest for the next call.
EncodeFails ==
  /\ call.at = "undo"
  /\ \E k \in Attempts : CleanupTo(k)
  /\ Return(FALSE)
  /\ UNCHANGED state

\* mjpeg_encoder_close may be called again when its cleanup failed.
Close ==
  /\ call = Idle /\ state = "open"
  /\ \E k \in Attempts :
       /\ CleanupTo(k)
       /\ state' = IF Succeeded(k) THEN "closed" ELSE "open"
  /\ UNCHANGED <<call, misses>>

\* mjpeg_encoder_finalize gives up what it could not release.
Finalize ==
  /\ call = Idle /\ state = "open"
  /\ \E k \in Attempts : CleanupTo(k)
  /\ state' = "finalised"
  /\ UNCHANGED <<call, misses>>

Next ==
  \/ \E p \in Params, staged \in BOOLEAN : Encode(p, staged)
  \/ EncodeRefused
  \/ InitCleans \/ InitChannel \/ EnsureInput \/ SendFrame \/ TakeStream \/ EncodeFails
  \/ Close \/ Finalize

Spec == Init /\ [][Next]_vars

-----------------------------------------------------------------------------
\* The values every variable may take.
TypeOK ==
  /\ state \in {"open", "closed", "finalised"}
  /\ params \in Params \cup {None}
  /\ record \subseteq Resources /\ held \subseteq Resources
  /\ reads \in {"no", "now", "late"}
  /\ call \in [at : {"idle", "clean", "init", "input", "send", "take", "undo"},
               params : Params \cup {None}, staged : BOOLEAN]
  /\ fault \in BOOLEAN /\ misses \in Nat

\* What is held is on record, so that a later call can release it; only a descriptor whose release failed is not.
HeldOnRecord == record \subseteq held /\ held \ record \subseteq {"fd"}

\* No resource is released under another one that is built upon it.
ReleasedInOrder == \A r \in held : Needs(r) \subseteq held

\* A channel is set up over nothing that is left of the one before.
InitStartsClean == call.at = "init" => record = {}

\* While VENC may read the input block the channel has not been stopped and the block stays mapped.
InputOutlivesEncode == reads # "no" => {"started", "map"} \subseteq held

\* A stream is taken only from a whole channel of the picture's size and format, fed from a block that is there.
StreamFitsPicture ==
  call.at = "take" =>
    /\ params = call.params /\ ToSet(Channel) \subseteq record
    /\ call.staged => ToSet(Input) \subseteq record

\* close() that succeeds has released everything but such a descriptor.
ClosedIsEmpty == state = "closed" => held \subseteq {"fd"}

\* Whatever failed before, at most one encode pays for it: the next one meets a channel that is whole or none at all.
RecoversAtOnce == misses <= 1

\* The encoder's resources are set up and released as a whole and in order across failed calls, and it is usable again
\* afterwards.
MjpegEncoderSound ==
  HeldOnRecord /\ ReleasedInOrder /\ InitStartsClean /\ InputOutlivesEncode /\ StreamFitsPicture /\ ClosedIsEmpty
  /\ RecoversAtOnce
=============================================================================
