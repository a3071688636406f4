---------------------------- MODULE MediaManager ----------------------------
(***************************************************************************)
(* What a program holds of the media library, and what a soft reset makes  *)
(* of it: Buffer and VBPool of modules/modvbmgmt.c, the camera of          *)
(* builtin_py/media/sensor.py and the records of core/mpp_vb_mgmt.c.       *)
(*                                                                         *)
(* Any call of the vendor's library may fail, and an exception may end     *)
(* run() and stop() between two of their calls.  The model keeps the       *)
(* records of the code beside what the library has given out: the former   *)
(* outlive the Python objects, because a soft reset has to free the rest.  *)
(* The main thread does all of this; one script thread takes snapshots.    *)
(***************************************************************************)
EXTENDS MediaParameters

VARIABLES
  buf,         \* for each buffer: on which list its record is, what the record says, what the library has given out
  failures,    \* py_media_vbmgmt_buffer_cleanup_failures
  pool,        \* py_media_vbmgmt_pool_list_head: has the script a VBPool?
  inited,      \* py_media_vbmgmt_inited
  backend,     \* is the library's VB module initialised?
  dev,         \* the VICAP device
  stat,        \* vicap_dev_stat
  sensor,      \* _vicap_init_started, _vicap_stream_start_started, _is_started, _vb_mgmt_registered
  image,       \* for each slot: its magic, whether the frame is out, and (history) whether its release has failed
  img,         \* _imgs: the slot of the last snapshot
  forgotten,   \* history: what the code has no record of any more although it is in use, after a call failed
  pc

buffers == <<buf, failures>>
vb == <<pool, inited, backend>>
camera == <<dev, stat, sensor, image, img>>
vars == <<buffers, vb, camera, forgotten, pc>>

Parts == {"map", "block", "mmz"}
NoBuffer == [at |-> "none", rec |-> {}, own |-> {}]
NoSensor == [init |-> FALSE, stream |-> FALSE, started |-> FALSE, registered |-> FALSE]
FreeSlot == [used |-> FALSE, held |-> FALSE, refused |-> FALSE]

Init ==
  /\ buf = [b \in Buffers |-> NoBuffer] /\ failures = 0
  /\ pool = FALSE /\ inited = FALSE /\ backend = FALSE
  /\ dev = "off" /\ stat = FALSE /\ sensor = NoSensor
  /\ image = [s \in Slots |-> FreeSlot] /\ img = None
  /\ forgotten = {}
  /\ pc = "boot"

On(list) == {b \in Buffers : buf[b].at = list}

-----------------------------------------------------------------------------
(* Buffers. *)

\* py_media_vbmgmt_buffer_release_resource: the mapping, then the block; what was released is taken off the record.
Released(b) == {done \in SUBSET buf[b].rec : "block" \in done => "map" \notin buf[b].rec \ done}

\* py_media_vbmgmt_buffer_queue_cleanup: a buffer that could not be released as a whole becomes pending.
After(b, done) ==
  IF done = buf[b].rec THEN NoBuffer
  ELSE [buf[b] EXCEPT !.at = "pending", !.rec = @ \ done, !.own = @ \ done]

CountFailures(gone, left) == failures + Cardinality(left \ On("pending")) - Cardinality(gone \cap On("pending"))

\* py_media_vbmgmt_buffer_destroy of the tracked buffers among tried, or a retry of the pending ones
ReleaseBuffers(tried) ==
  \E done \in [tried -> SUBSET Parts] :
    /\ \A b \in tried : done[b] \in Released(b)
    /\ buf' = [b \in Buffers |-> IF b \in tried THEN After(b, done[b]) ELSE buf[b]]
    /\ LET gone == {b \in tried : done[b] = buf[b].rec} IN failures' = CountFailures(gone, tried \ gone)

\* Buffer.get and Buffer.alloc.  The block of a get that fails later is taken to be given back.
GetBuffer(b) ==
  /\ pc = "idle" /\ buf[b].at = "none"
  /\ \E parts \in {{"mmz"}} \cup (IF backend THEN {{"map", "block"}} ELSE {}) :
       buf' = [buf EXCEPT ![b] = [at |-> "tracked", rec |-> parts, own |-> parts]]
  /\ UNCHANGED <<failures, vb, camera, forgotten, pc>>

\* destroy(), free() and the finaliser: what is pending is retried first.
DestroyBuffer(b) ==
  /\ pc = "idle" /\ buf[b].at = "tracked"
  /\ ReleaseBuffers({b} \cup On("pending"))
  /\ UNCHANGED <<vb, camera, forgotten, pc>>

PoolCreate ==
  /\ pc = "idle" /\ backend /\ ~pool
  /\ pool' = TRUE
  /\ UNCHANGED <<buffers, inited, backend, camera, forgotten, pc>>

\* vbmgmt_pool_destroy_c: the record goes whether or not the library destroys the pool.
PoolDestroy ==
  /\ pc = "idle" /\ pool
  /\ pool' = FALSE
  /\ UNCHANGED <<buffers, inited, backend, camera, forgotten, pc>>

-----------------------------------------------------------------------------
(* Frames. *)

\* vb_mgmt_release_vicap_frame unmaps the frame and gives it back; its record stays unless both succeed.  The record
\* does not say which of them did, so a retry repeats both.
FrameAfter(s) == {FreeSlot} \cup [used : {TRUE}, held : {FALSE, image[s].held}, refused : {TRUE}]

ReleaseFrames(S) ==
  \E after \in [S -> UNION {FrameAfter(s) : s \in S}] :
    /\ \A s \in S : after[s] \in FrameAfter(s)
    /\ image' = [s \in Slots |-> IF s \in S THEN after[s] ELSE image[s]]

\* snapshot: the last frame first
SnapshotRelease ==
  /\ pc = "idle" /\ img # None
  /\ ReleaseFrames({img})
  /\ img' = None
  /\ UNCHANGED <<buffers, vb, dev, stat, sensor, forgotten, pc>>

UsedSlots == {s \in Slots : image[s].used}

\* vb_mgmt_dump_vicap_frame.  The slot is free again if the dump fails; a frame that cannot be mapped is given back,
\* which is taken to succeed.
Snapshot ==
  /\ pc = "idle" /\ img = None /\ dev = "stream"
  /\ \E s \in Slots \ UsedSlots :
       /\ image' = [image EXCEPT ![s] = [used |-> TRUE, held |-> TRUE, refused |-> FALSE]]
       /\ img' = s
  /\ UNCHANGED <<buffers, vb, dev, stat, sensor, forgotten, pc>>

-----------------------------------------------------------------------------
(* The camera. *)

\* What kd_mpi_vicap_stop_stream and kd_mpi_vicap_deinit leave
AfterStop == IF dev = "stream" THEN {"init", "stream"} ELSE {dev}
AfterDeinit == {"off"} \cup AfterStop

Forget(drop) == forgotten' = IF dev' = "off" THEN forgotten \ {"device"}
                             ELSE IF drop THEN forgotten \cup {"device"} ELSE forgotten

\* run(): each flag is set before its call, the registration comes last.
RunInit ==
  /\ pc = "idle" /\ ~sensor.started /\ backend
  /\ sensor' = [sensor EXCEPT !.init = TRUE]
  /\ \/ dev = "off" /\ dev' = "init" /\ pc' = "init"
     \/ UNCHANGED <<dev, pc>>
  /\ UNCHANGED <<buffers, vb, stat, image, img, forgotten>>

RunStart ==
  /\ pc = "init"
  /\ sensor' = [sensor EXCEPT !.stream = TRUE]
  /\ \/ dev' = "stream" /\ pc' = "start"
     \/ pc' = "idle" /\ UNCHANGED dev
  /\ UNCHANGED <<buffers, vb, stat, image, img, forgotten>>

RunRegister ==
  /\ pc = "start"
  /\ sensor' = [sensor EXCEPT !.started = TRUE, !.registered = TRUE]
  /\ stat' = TRUE
  /\ pc' = "idle"
  /\ UNCHANGED <<buffers, vb, dev, image, img, forgotten>>

\* An exception of the IDE or of the soft reset
Interrupt ==
  /\ pc \in {"init", "start", "stop"}
  /\ pc' = "idle"
  /\ UNCHANGED <<buffers, vb, camera, forgotten>>

CleanupNeeded == sensor.init \/ sensor.stream \/ sensor.started

\* stop(), up to the pause after kd_mpi_vicap_stop_stream
StopStream ==
  /\ pc = "idle" /\ CleanupNeeded
  /\ IF img # None THEN ReleaseFrames({img}) ELSE UNCHANGED image
  /\ img' = None
  /\ dev' \in (IF sensor.stream THEN AfterStop ELSE {dev})
  /\ pc' = "stop"
  /\ UNCHANGED <<buffers, vb, stat, sensor, forgotten>>

Mut_StopUnregisters ==
  /\ pc = "stop"
  /\ dev' \in {"off", dev}
  /\ stat' = FALSE
  /\ sensor' = NoSensor
  /\ Forget(~sensor.registered)
  /\ pc' = "idle"
  /\ UNCHANGED <<buffers, vb, image, img>>

\* The rest of it: the flags are cleared in any case, the registration stays if kd_mpi_vicap_deinit fails.
StopDeinit ==
  /\ pc = "stop"
  /\ dev' \in {"off", dev}
  /\ stat' = (stat /\ ~(sensor.registered /\ dev' = "off"))
  /\ sensor' = NoSensor
  /\ Forget(~stat)
  /\ pc' = "idle"
  /\ UNCHANGED <<buffers, vb, image, img>>

-----------------------------------------------------------------------------
(* The soft reset. *)

\* py_media_vbmgmt_deinit_pre and the sweep of the heap: buffers are destroyed; Python objects are gone, be it that
\* Sensor.__del__ is called, which stops the device, or not.
ResetPre ==
  /\ pc = "idle"
  /\ ReleaseBuffers(On("tracked") \cup On("pending"))
  /\ \/ CleanupNeeded /\ dev' \in AfterDeinit /\ stat' = (stat /\ ~(sensor.registered /\ dev' = "off"))
     \/ UNCHANGED <<dev, stat>>
  /\ Forget(~stat)
  /\ sensor' = NoSensor /\ img' = None
  /\ pc' = "deinit"
  /\ UNCHANGED <<vb, image>>

\* vb_mgmt_deinit: frames, then streams, then devices; vicap_dev_stat is cleared also if kd_mpi_vicap_deinit fails.
DeinitProducers ==
  /\ pc = "deinit" /\ inited
  /\ ReleaseFrames(UsedSlots)
  /\ dev' \in (IF stat THEN AfterDeinit ELSE {dev})
  /\ Forget(stat)
  /\ stat' = FALSE
  /\ pc' = "backend"
  /\ UNCHANGED <<buffers, vb, sensor, img>>

DeinitNothing ==
  /\ pc = "deinit" /\ ~inited
  /\ pc' = "boot"
  /\ UNCHANGED <<buffers, vb, camera, forgotten>>

HeldSlots == {s \in Slots : image[s].held}

BlocksOut == dev # "off" \/ (\E b \in Buffers : "block" \in buf[b].own) \/ HeldSlots # {} \/ "frame" \in forgotten

\* The backend is kept while a buffer is pending.
RetryPending ==
  /\ pc = "backend"
  /\ ReleaseBuffers(On("pending"))
  /\ pc' = IF failures' > 0 THEN "boot" ELSE "pools"
  /\ UNCHANGED <<vb, camera, forgotten>>

DestroyPools ==
  /\ pc = "pools"
  /\ pool' = FALSE
  /\ pc' = "exit"
  /\ UNCHANGED <<buffers, inited, backend, camera, forgotten>>

\* kd_mpi_vb_exit, which refuses while a block is out: the flag stays, and the next reset tries again.
ExitBackend ==
  /\ pc = "exit"
  /\ backend' \in {BlocksOut, TRUE}
  /\ inited' = backend'
  /\ pc' = "boot"
  /\ UNCHANGED <<buffers, pool, camera, forgotten>>

\* py_media_vbmgmt_init: vb_mgmt_init tries the frames again and drops their records in any case.
Boot ==
  /\ pc = "boot"
  /\ image' = [s \in Slots |-> FreeSlot]
  /\ \/ HeldSlots # {} /\ forgotten' = forgotten \cup {"frame"}
     \/ UNCHANGED forgotten
  /\ ReleaseBuffers(On("pending"))
  /\ backend' \in {inited, TRUE} /\ inited' = backend'
  /\ pc' = "idle"
  /\ UNCHANGED <<pool, dev, stat, sensor, img>>

-----------------------------------------------------------------------------
ScriptStep ==
  \/ \E b \in Buffers : GetBuffer(b) \/ DestroyBuffer(b)
  \/ PoolCreate \/ PoolDestroy
  \/ SnapshotRelease \/ Snapshot
  \/ RunInit \/ RunStart \/ RunRegister \/ Interrupt \/ StopStream \/ StopDeinit

Reset ==
  \/ ResetPre \/ DeinitProducers \/ DeinitNothing \/ RetryPending \/ DestroyPools \/ ExitBackend \/ Boot

Next == ScriptStep \/ Reset

Spec == Init /\ [][Next]_vars

-----------------------------------------------------------------------------
\* The values every variable may take.
TypeOK ==
  /\ buf \in [Buffers -> [at : {"none", "tracked", "pending"}, rec : SUBSET Parts, own : SUBSET Parts]]
  /\ failures \in 0 .. Cardinality(Buffers)
  /\ pool \in BOOLEAN /\ inited \in BOOLEAN /\ backend \in BOOLEAN
  /\ dev \in {"off", "init", "stream"} /\ stat \in BOOLEAN
  /\ sensor \in [init : BOOLEAN, stream : BOOLEAN, started : BOOLEAN, registered : BOOLEAN]
  /\ image \in [Slots -> [used : BOOLEAN, held : BOOLEAN, refused : BOOLEAN]] /\ img \in Slots \cup {None}
  /\ forgotten \subseteq {"device", "frame"}
  /\ pc \in {"boot", "idle", "init", "start", "stop", "deinit", "backend", "pools", "exit"}

\* What is recorded of a buffer is what the library has given out, after any sequence of failed releases, retries
\* and resets: nothing leaks and no part of it is released a second time.
BuffersOnRecord == \A b \in Buffers : buf[b].own = buf[b].rec /\ (buf[b].at = "none" => buf[b].rec = {})

\* The count that decides whether the backend is kept is the number of pending buffers: one too low tears pools
\* down under a block, one too high keeps the backend for ever.
FailuresCounted == failures = Cardinality(On("pending"))

\* A soft reset does not touch the pools while a buffer still has a block (modvbmgmt.c:835-841).
PoolsOutliveBlocks == pc \in {"pools", "exit"} => \A b \in Buffers : "block" \notin buf[b].own

\* The flag says whether the backend is up: else the next reset would not stop the producers (modvbmgmt.c:845-852).
FlagFollowsBackend == inited = backend

\* The memory of the media manager is accounted for across failed releases, retries and resets.
BuffersAccounted == BuffersOnRecord /\ FailuresCounted /\ PoolsOutliveBlocks /\ FlagFollowsBackend

\* A device in use is on a record by which stop() or the next reset finds it, whichever call failed and wherever an
\* exception ended run() or stop().  It is lost only where the code gives up a device whose deinit failed or, if no
\* finaliser runs, one that was not registered yet (see forgotten).
DeviceOnRecord == dev # "off" => stat \/ sensor.init \/ "device" \in forgotten

\* A frame is given back, or that was tried, when the next one is taken, before its stream is stopped, and before
\* the backend is torn down.
FramesReturned == \A s \in UsedSlots : image[s].refused \/ s = img \/ pc = "deinit"

\* The camera is accounted for across failed calls, exceptions and resets.
CameraAccounted == DeviceOnRecord /\ FramesReturned
=============================================================================
