---------------------------- MODULE FramePreview ----------------------------
(***************************************************************************)
(* The picture the IDE shows: the frame buffer of omv/ide_dbg.c and the    *)
(* writeback encoder of omv/ide_dbg_vo_wbc.c.  The main thread sets frames *)
(* and enables, stops and tears down the encoder; the IDE task answers     *)
(* FRAME_SIZE, which fixes a picture, and FRAME_DUMP, which sends it.      *)
(*                                                                         *)
(* A section under fb_mutex is one step.  The encoder is used under        *)
(* g_wbc_lock by several steps, and every call of the vendor's library may *)
(* fail.  The heap blocks of frames are named, so that a leak, a second    *)
(* free or a use after free shows; the encoder's resources are named by    *)
(* the flags of ide_dbg_vo_wbc_ctx_t.                                      *)
(***************************************************************************)
EXTENDS Naturals, Sequences, SequencesExt

CONSTANTS Blocks    \* heap blocks for frames, other than the two below

None == "none"
Snapshot == "snapshot"    \* g_wbc_snapshot_buffer, kept for ever

VARIABLES
  heap,        \* allocated blocks
  fb, from,    \* fb_data, fb_from
  shown,       \* fb_pending_data and fb_pending_owned
  sending,     \* what FRAME_DUMP writes to the host, and whether it frees it
  told,        \* history: the picture whose size the host knows and has not fetched
  enablePic,   \* enable_pic
  ide, main,   \* where each thread is
  enabled,     \* g_wbc_enable
  inited,      \* g_wbc_ctx.inited
  record,      \* the resources g_wbc_ctx has on record
  held,        \* the resources the library has given out
  frameHeld,   \* frame_held
  venc         \* does the encoder read the frame?  "late": it may, since a wait for it failed, until it is stopped

slot == <<heap, fb, from, shown, sending, told, enablePic>>
encoder == <<enabled, inited, record, held, frameHeld, venc>>
vars == <<slot, ide, main, encoder>>

\* The order in which ide_dbg_vo_wbc_init acquires and wbc_cleanup_resources releases
Acquire == <<"fd", "chn", "pool", "block", "map", "attached", "created", "started">>
Release == <<"started", "attached", "created", "chn", "map", "block", "pool", "fd">>
Stages == ToSet(Acquire)

\* What each resource is built upon
Needs(s) ==
  CASE s = "chn"      -> {"fd"}
    [] s = "block"    -> {"pool"}
    [] s = "map"      -> {"block"}
    [] s = "attached" -> {"chn", "pool"}
    [] s = "created"  -> {"chn"}
    [] s = "started"  -> {"created", "attached"}
    [] OTHER          -> {}

NoPicture == [data |-> None, owned |-> FALSE]

Init ==
  /\ heap = {} /\ fb = None /\ from = "NONE"
  /\ shown = NoPicture /\ sending = NoPicture
  /\ told = None
  /\ enablePic = TRUE
  /\ ide = "idle" /\ main = "idle"
  /\ enabled = FALSE /\ inited = FALSE
  /\ record = {} /\ held = {}
  /\ frameHeld = FALSE /\ venc = "idle"

-----------------------------------------------------------------------------
(* The frame buffer. *)

Owned(p) == IF p.owned THEN {p.data} ELSE {}

\* ide_dbg_clear_fb
ClearFb(discardPending) ==
  /\ fb' = None /\ from' = "NONE"
  /\ heap' = heap \ ({fb} \cup (IF discardPending THEN Owned(shown) ELSE {}))
  /\ shown' = IF discardPending THEN NoPicture ELSE shown
  /\ told' = IF discardPending THEN None ELSE told
  /\ UNCHANGED sending

\* ide_set_fb; malloc may fail.
SetFb ==
  /\ main = "idle"
  /\ from' = "USER"
  /\ \/ \E b \in Blocks \ (heap \ {fb}) : fb' = b /\ heap' = (heap \ {fb}) \cup {b}
     \/ fb' = None /\ heap' = heap \ {fb}
  /\ UNCHANGED <<shown, sending, told, enablePic, ide, main, encoder>>

Mut_ScriptEndDiscards ==
  /\ main = "idle"
  /\ fb' = None /\ from' = "NONE"
  /\ heap' = heap \ ({fb} \cup Owned(shown))
  /\ shown' = NoPicture
  /\ UNCHANGED <<sending, told, enablePic, ide, main, encoder>>

\* ide_dbg_on_script_end, ide_dbg_on_soft_reset
ScriptEnd ==
  /\ main = "idle"
  /\ ClearFb(FALSE)
  /\ UNCHANGED <<enablePic, ide, main, encoder>>

\* ide_dbg_on_ide_script_end after SYS_RESET, with which the host gave up what it was told:
\* ide_dbg_set_attached(false) in the main thread
ScriptEndDetach ==
  /\ main = "idle"
  /\ ClearFb(TRUE)
  /\ UNCHANGED <<enablePic, ide, main, encoder>>

\* SYS_RESET, or the loss of the host
IdeDiscards ==
  /\ ide = "idle"
  /\ ClearFb(TRUE)
  /\ UNCHANGED <<enablePic, ide, main, encoder>>

\* cmd_fb_enable
FbEnable ==
  /\ ide = "idle"
  /\ enablePic' = ~enablePic
  /\ IF enablePic THEN ClearFb(TRUE) ELSE UNCHANGED <<heap, fb, from, shown, sending, told>>
  /\ UNCHANGED <<ide, main, encoder>>

\* cmd_frame_size answers without looking: pictures are disabled, or the last look was less than 33 ms ago.
FrameSizeZero ==
  /\ ide = "idle"
  /\ told' = None
  /\ UNCHANGED <<heap, fb, from, shown, sending, enablePic, ide, main, encoder>>

\* The frame of the program is taken over only if no other waits for its FRAME_DUMP.
TakesFrame == shown.data = None /\ from = "USER" /\ fb # None

FrameSize ==
  /\ ide = "idle" /\ enablePic
  /\ ~(shown.data = None /\ from = "WBC")
  /\ shown' = IF TakesFrame THEN [data |-> fb, owned |-> TRUE] ELSE shown
  /\ fb' = IF TakesFrame THEN None ELSE fb
  /\ told' = shown'.data
  /\ UNCHANGED <<heap, from, sending, enablePic, ide, main, encoder>>

FrameSizeCaptures ==
  /\ ide = "idle" /\ enablePic
  /\ shown.data = None /\ from = "WBC"
  /\ ide' = "capture"
  /\ UNCHANGED <<slot, main, encoder>>

\* cmd_frame_dump: the picture is detached, then written without a lock, then freed.
FrameDump ==
  /\ ide = "idle"
  /\ sending' = shown
  /\ shown' = NoPicture
  /\ told' = None
  /\ ide' = "dump"
  /\ UNCHANGED <<heap, fb, from, enablePic, main, encoder>>

FrameSent ==
  /\ ide = "dump"
  /\ heap' = heap \ Owned(sending)
  /\ sending' = NoPicture
  /\ ide' = "idle"
  /\ UNCHANGED <<fb, from, shown, told, enablePic, main, encoder>>

-----------------------------------------------------------------------------
(* The encoder. *)

\* The IDE task holds g_wbc_lock
Encoding == ide \in {"clean", "grab", "init", "undo", "send", "take"}

\* What is left on record after releases that fail at the first resource of Release from k on
LeftFrom(k) == record \ {Release[i] : i \in 1 .. k - 1}

Mut_CleanupGoesOn ==
  \E failed \in SUBSET record :
    /\ record' = failed \ {"fd"}
    /\ held' = (held \ record) \cup failed
    /\ venc' = IF "started" \in record' THEN venc ELSE "idle"

\* wbc_cleanup_resources fails at the kth resource and keeps the rest on record, or at none if k is past the last; only
\* fd_acquired is cleared whether or not the call succeeded.
CleanupTo(k) ==
  /\ k <= Len(Release) => Release[k] \in record
  /\ record' = LeftFrom(k) \ (IF k = Len(Release) THEN {"fd"} ELSE {})
  /\ held' = (held \ record) \cup LeftFrom(k)
  /\ venc' = IF "started" \in record' THEN venc ELSE "idle"

Attempts == 1 .. Len(Release) + 1

Cleanup == \E k \in Attempts : CleanupTo(k)

\* ide_dbg_vo_wbc_stop, in a soft reset and when the display is deinitialised
WbcStop ==
  /\ main = "idle" /\ ~Encoding
  /\ enabled' = FALSE /\ inited' = FALSE
  /\ frameHeld' = FALSE
  /\ Cleanup
  /\ UNCHANGED <<slot, ide, main>>

\* ide_dbg_vo_wbc_start: the source first, then the flag under g_wbc_lock
WbcSource ==
  /\ main = "idle"
  /\ from' = "WBC"
  /\ main' = "enable"
  /\ UNCHANGED <<heap, fb, shown, sending, told, enablePic, ide, encoder>>

WbcEnable ==
  /\ ~Encoding
  /\ \/ main = "enable" /\ enabled' = TRUE
     \/ main = "idle" /\ enabled' = FALSE
  /\ main' = "idle"
  /\ UNCHANGED <<slot, ide, inited, record, held, frameHeld, venc>>

\* ide_dbg_vo_wbc_dump_and_encode, under g_wbc_lock until it succeeds or fails
Fail == ide' = "idle" /\ told' = None

EncodeBegins ==
  /\ ide = "capture"
  /\ \/ enabled /\ ide' = (IF inited THEN "grab" ELSE "clean") /\ UNCHANGED told
     \/ ~enabled /\ Fail
  /\ UNCHANGED <<heap, fb, from, shown, sending, enablePic, main, encoder>>

\* What an earlier cleanup left is released first.
EncodeCleans ==
  /\ ide = "clean"
  /\ frameHeld' = FALSE
  /\ \E k \in Attempts :
       /\ CleanupTo(k)
       /\ IF k > Len(Release) THEN ide' = "grab" /\ UNCHANGED told ELSE Fail
  /\ UNCHANGED <<heap, fb, from, shown, sending, enablePic, main, enabled, inited>>

GrabFrame ==
  /\ ide = "grab"
  /\ \/ frameHeld' = TRUE /\ ide' = (IF inited THEN "send" ELSE "init") /\ UNCHANGED told
     \/ Fail /\ UNCHANGED frameHeld
  /\ UNCHANGED <<heap, fb, from, shown, sending, enablePic, main, enabled, inited, record, held, venc>>

\* ide_dbg_vo_wbc_init
EncoderInit ==
  /\ ide = "init"
  /\ record' = record \cup Stages /\ held' = held \cup Stages
  /\ inited' = TRUE
  /\ ide' = "send"
  /\ UNCHANGED <<slot, main, enabled, frameHeld, venc>>

\* It fails at some resource: those before it are on record, and the cleanup at _err follows at once.  A block that
\* cannot be mapped is given back by wbc_alloc_output_buffer itself, which is taken to succeed.
EncoderInitFails ==
  /\ ide = "init"
  /\ \E n \in (0 .. Len(Acquire) - 1) \ {4} :
       /\ record' = {Acquire[i] : i \in 1 .. n}
       /\ held' = held \cup record'
  /\ ide' = "undo"
  /\ UNCHANGED <<slot, main, enabled, inited, frameHeld, venc>>

EncoderInitUndo ==
  /\ ide = "undo"
  /\ frameHeld' = FALSE
  /\ Cleanup
  /\ Fail
  /\ UNCHANGED <<heap, fb, from, shown, sending, enablePic, main, enabled, inited>>

EncoderReads == IF venc = "late" THEN "late" ELSE "reading"

\* kd_mpi_venc_send_frame
SendFrame ==
  /\ ide = "send"
  /\ \/ venc' = EncoderReads /\ ide' = "take" /\ UNCHANGED <<told, frameHeld>>
     \/ frameHeld' = FALSE /\ Fail /\ UNCHANGED venc
  /\ UNCHANGED <<heap, fb, from, shown, sending, enablePic, main, enabled, inited, record, held>>

EncoderDone == IF venc = "late" THEN "late" ELSE "idle"

\* kd_mpi_venc_query_status and kd_mpi_venc_get_stream: the encoder is done with the frame, or the wait failed.
\* The stream may still be unusable; else it is copied to the snapshot and the lock is released.
TakeStream ==
  /\ ide = "take"
  /\ frameHeld' = FALSE
  /\ \/ venc' = EncoderDone /\ ide' = "captured" /\ UNCHANGED told
     \/ venc' \in {EncoderDone, "late"} /\ Fail
  /\ UNCHANGED <<heap, fb, from, shown, sending, enablePic, main, enabled, inited, record, held>>

\* The end of cmd_frame_size: the frame buffer is looked at again.
Captured ==
  /\ ide = "captured"
  /\ LET fits == shown.data = None /\ from = "WBC"
     IN /\ shown' = IF fits THEN [data |-> Snapshot, owned |-> FALSE] ELSE shown
        /\ told' = IF fits THEN Snapshot ELSE None
  /\ ide' = "idle"
  /\ UNCHANGED <<heap, fb, from, sending, enablePic, main, encoder>>

-----------------------------------------------------------------------------
Program == SetFb \/ ScriptEnd \/ ScriptEndDetach \/ WbcStop \/ WbcSource \/ WbcEnable

Command == IdeDiscards \/ FbEnable \/ FrameSizeZero \/ FrameSize \/ FrameSizeCaptures \/ FrameDump

Encode ==
  \/ EncodeBegins \/ EncodeCleans \/ GrabFrame \/ EncoderInit \/ EncoderInitFails \/ EncoderInitUndo
  \/ SendFrame \/ TakeStream \/ Captured

Next == Program \/ Command \/ FrameSent \/ Encode

Spec == Init /\ [][Next]_vars

-----------------------------------------------------------------------------
Picture == [data : Blocks \cup {None, Snapshot}, owned : BOOLEAN]

\* The values every variable may take.
TypeOK ==
  /\ heap \subseteq Blocks
  /\ fb \in Blocks \cup {None} /\ from \in {"NONE", "USER", "WBC"}
  /\ shown \in Picture /\ sending \in Picture
  /\ told \in Blocks \cup {None, Snapshot}
  /\ enablePic \in BOOLEAN /\ enabled \in BOOLEAN /\ inited \in BOOLEAN /\ frameHeld \in BOOLEAN
  /\ ide \in {"idle", "capture", "clean", "grab", "init", "undo", "send", "take", "captured", "dump"}
  /\ main \in {"idle", "enable"}
  /\ record \subseteq Stages /\ held \subseteq Stages
  /\ venc \in {"idle", "reading", "late"}

\* Every block of the heap has exactly one owner among fb_data, the fixed picture and the dump in flight: none
\* leaks, none is freed twice or used after it was freed.
BlocksOwnedOnce ==
  /\ heap = ({fb} \ {None}) \cup Owned(shown) \cup Owned(sending)
  /\ {fb} \cap (Owned(shown) \cup Owned(sending)) = {} /\ Owned(shown) \cap Owned(sending) = {}

\* A picture whose size the host was told is what the next FRAME_DUMP sends, whatever the program does to its frame
\* buffer in between: the host reads exactly that many bytes.
DumpIsAnnounced == told # None => shown.data = told

\* A frame is handed from the program to the host once, as it was announced.
FrameHandover == BlocksOwnedOnce /\ DumpIsAnnounced

\* An encode in progress, and inited, mean that every resource of the encoder is there.
EncoderReady == (inited \/ ide \in {"send", "take"}) => record = Stages

\* No resource is released while another one that is built upon it is held, whatever call failed before.
ReleasedInOrder == \A s \in held : Needs(s) \subseteq held

\* The encoder is set up only when nothing is left of an earlier one, which it would overwrite on record.
InitStartsClean == ide = "init" => record = {}

\* The writeback frame is kept while the encoder reads it (see venc), and given back before the lock is released.
FrameHeldWhileRead ==
  /\ venc = "reading" => frameHeld
  /\ ~Encoding => ~frameHeld

\* The encoder is set up, used and taken down as a whole, in order, whichever call fails.
EncoderSound == EncoderReady /\ ReleasedInOrder /\ InitStartsClean /\ FrameHeldWhileRead
=============================================================================
