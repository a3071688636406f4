-------------------------- MODULE Independent_proofs --------------------------
(***************************************************************************)
(* Proofs about the instance in MCIndependent, for all values of the       *)
(* constants.  MediaManager, MjpegEncoder, FramePreview, StdoutRing and    *)
(* StdinRing are each proved from their own specification, M!Spec, J!Spec, *)
(* P!Spec, R!Spec and S!Spec, in a section of its own: an inductive        *)
(* strengthening, its steps, and what follows from it.  The last section   *)
(* puts them together with DisplayBuffers and WebRtcPeer, whose proofs are *)
(* in modules of their own.                                                *)
(***************************************************************************)
EXTENDS MCIndependent, DisplayBuffers_proofs, WebRtcPeer_proofs, Integers, FiniteSetTheorems, SequenceTheorems,
        TLAPS

-----------------------------------------------------------------------------
(***************************************************************************)
(* MediaManager: buffers, pools and the camera                             *)
(***************************************************************************)

\* From the destruction of the buffers to the next boot no buffer is tracked and there is no snapshot.
Resetting == pc \in {"deinit", "backend", "pools", "exit"} => M!On("tracked") = {} /\ img = M!None

\* run() is past the flag of kd_mpi_vicap_init, and past the call.
Running == (pc \in {"init", "start"} => sensor.init) /\ (pc = "init" => dev # "off")

\* The backend goes down only when the device and the frames are gone.
BackendDown == ~backend => dev = "off" /\ \A s \in M!UsedSlots : image[s].refused

MediaInv == M!TypeOK /\ MediaAccounted /\ Resetting /\ Running /\ BackendDown

FrameRecords == [used : BOOLEAN, held : BOOLEAN, refused : BOOLEAN]
SensorRecords == [init : BOOLEAN, stream : BOOLEAN, started : BOOLEAN, registered : BOOLEAN]
BufferRecords == [at : {"none", "tracked", "pending"}, rec : SUBSET M!Parts, own : SUBSET M!Parts]

(* The instance has an operator of its own for the size of a set.          *)
LEMMA MediaCardinality == \A X : M!Cardinality(X) = Cardinality(X)
BY DEF M!Cardinality, Cardinality

(* What a release makes of one frame.                                      *)
LEMMA FrameFacts ==
  ASSUME M!TypeOK
  PROVE  /\ M!FreeSlot \in FrameRecords /\ ~M!FreeSlot.used
         /\ \A s \in Slots : \A f \in M!FrameAfter(s) : f \in FrameRecords /\ (f.used => f.refused)
<1>1. M!FreeSlot \in FrameRecords /\ ~M!FreeSlot.used
  BY DEF M!FreeSlot, FrameRecords
<1>2. ASSUME NEW s \in Slots, NEW f \in M!FrameAfter(s)
      PROVE  f \in FrameRecords /\ (f.used => f.refused)
  <2>1. image[s].held \in BOOLEAN
    BY DEF M!TypeOK
  <2>2. CASE f = M!FreeSlot
    BY <1>1, <2>2
  <2>3. CASE f \in [used : {TRUE}, held : {FALSE, image[s].held}, refused : {TRUE}]
    BY <2>1, <2>3 DEF FrameRecords
  <2> QED
    BY <1>2, <2>2, <2>3 DEF M!FrameAfter
<1> QED
  BY <1>1, <1>2

(* What a release makes of one buffer.                                     *)
LEMMA AfterFacts ==
  ASSUME M!TypeOK, M!BuffersOnRecord, NEW b \in Buffers, NEW done \in SUBSET M!Parts
  PROVE  /\ M!After(b, done) \in BufferRecords
         /\ M!After(b, done).own = M!After(b, done).rec
         /\ M!After(b, done).at = (IF done = buf[b].rec THEN "none" ELSE "pending")
         /\ M!After(b, done).at = "none" => M!After(b, done).rec = {}
<1>1. buf[b] \in BufferRecords /\ buf[b].own = buf[b].rec
  BY DEF M!TypeOK, M!BuffersOnRecord, BufferRecords
<1>2. CASE done = buf[b].rec
  BY <1>2 DEF M!After, M!NoBuffer, BufferRecords
<1>3. CASE done # buf[b].rec
  <2>1. M!After(b, done) = [buf[b] EXCEPT !.at = "pending", !.rec = @ \ done, !.own = @ \ done]
    BY <1>3 DEF M!After
  <2> QED
    BY <1>1, <1>3, <2>1, ZenonT(60) DEF BufferRecords
<1> QED
  BY <1>2, <1>3

(* A release, whichever parts of it fail, leaves the records exact and the *)
(* count right.                                                            *)
LEMMA ReleaseFacts ==
  ASSUME M!TypeOK, M!BuffersOnRecord, M!FailuresCounted, NEW tried \in SUBSET Buffers, M!ReleaseBuffers(tried)
  PROVE  /\ buf' \in [Buffers -> BufferRecords]
         /\ M!BuffersOnRecord' /\ M!FailuresCounted'
         /\ failures' \in 0 .. Cardinality(Buffers)
         /\ \A b \in tried : buf'[b].at # "tracked"
         /\ \A b \in Buffers \ tried : buf'[b] = buf[b]
<1>t. buf \in [Buffers -> BufferRecords] /\ IsFiniteSet(Buffers)
  BY MediaAssumption DEF M!TypeOK, BufferRecords
<1>1. PICK done \in [tried -> SUBSET M!Parts] :
        /\ buf' = [b \in Buffers |-> IF b \in tried THEN M!After(b, done[b]) ELSE buf[b]]
        /\ failures' = M!CountFailures({b \in tried : done[b] = buf[b].rec}, tried \ {b \in tried : done[b] = buf[b].rec})
  BY DEF M!ReleaseBuffers
<1>2. \A b \in tried : buf'[b] = M!After(b, done[b]) /\ done[b] \in SUBSET M!Parts
  BY <1>1
<1>3. \A b \in Buffers \ tried : buf'[b] = buf[b]
  BY <1>1
<1>4. \A b \in tried :
        /\ buf'[b] \in BufferRecords
        /\ buf'[b].own = buf'[b].rec
        /\ buf'[b].at = (IF done[b] = buf[b].rec THEN "none" ELSE "pending")
        /\ buf'[b].at = "none" => buf'[b].rec = {}
  BY <1>2, AfterFacts
<1>5. buf' \in [Buffers -> BufferRecords]
  BY <1>1, <1>3, <1>4, <1>t
<1>6. M!BuffersOnRecord'
  BY <1>3, <1>4 DEF M!BuffersOnRecord
<1>7. \A b \in tried : buf'[b].at # "tracked"
  BY <1>4
<1> DEFINE gone == {b \in tried : done[b] = buf[b].rec}
           left == tried \ gone
           Pending == {b \in Buffers : buf[b].at = "pending"}
           Later == {b \in Buffers : buf'[b].at = "pending"}
<1>8. failures = Cardinality(Pending)
      /\ failures' = failures + Cardinality(left \ Pending) - Cardinality(gone \cap Pending)
  BY <1>1, MediaCardinality DEF M!FailuresCounted, M!CountFailures, M!On
<1>9. Later = (Pending \ gone) \cup (left \ Pending)
  BY <1>3, <1>4
<1>10. /\ IsFiniteSet(Pending) /\ IsFiniteSet(left \ Pending) /\ IsFiniteSet(Later)
  BY <1>t, FS_Subset
<1>11. IsFiniteSet(Pending \ gone)
       /\ Cardinality(Pending \ gone) = Cardinality(Pending) - Cardinality(Pending \cap gone)
  BY <1>10, FS_Difference
<1> DEFINE Kept == Pending \ gone
           New == left \ Pending
<1>12. Cardinality(Kept \cup New) = Cardinality(Kept) + Cardinality(New) - Cardinality(Kept \cap New)
  BY <1>10, <1>11, FS_Union
<1>13. Kept \cap New = {} /\ Pending \cap gone = gone \cap Pending /\ Later = Kept \cup New
  BY <1>9
<1>14. /\ Cardinality(Pending) \in Nat /\ Cardinality(New) \in Nat /\ Cardinality(Later) \in Nat
       /\ Cardinality(Pending \cap gone) \in Nat /\ Cardinality(Later) <= Cardinality(Buffers)
       /\ Cardinality(Buffers) \in Nat
  BY <1>10, <1>t, FS_CardinalityType, FS_Subset, FS_Intersection
<1>15. Cardinality(Kept \cap New) = 0
  BY <1>13, FS_EmptySet
<1>16. failures' = Cardinality(Later)
  <2>1. /\ Cardinality(Later) = Cardinality(Kept) + Cardinality(New)
        /\ Cardinality(Kept) = Cardinality(Pending) - Cardinality(gone \cap Pending)
        /\ failures' = Cardinality(Pending) + Cardinality(New) - Cardinality(gone \cap Pending)
        /\ Cardinality(gone \cap Pending) \in Nat
    <3>1. Cardinality(Kept) \in Nat
      BY <1>11, FS_CardinalityType
    <3> HIDE DEF Kept, New, Pending, gone, left, Later
    <3>2. Cardinality(Later) = Cardinality(Kept) + Cardinality(New)
      BY <1>12, <1>13, <1>14, <1>15, <3>1
    <3>3. Cardinality(gone \cap Pending) \in Nat
      BY <1>13, <1>14
    <3> USE DEF Kept, New
    <3>4. Cardinality(Kept) = Cardinality(Pending) - Cardinality(gone \cap Pending)
      BY <1>11, <1>13
    <3>5. failures' = Cardinality(Pending) + Cardinality(New) - Cardinality(gone \cap Pending)
      BY <1>8
    <3> QED
      BY <3>2, <3>3, <3>4, <3>5
  <2> HIDE DEF Kept, New, Pending, gone, left, Later
  <2> QED
    BY <1>14, <2>1
<1>17. M!FailuresCounted'
  BY <1>16, MediaCardinality DEF M!FailuresCounted, M!On
<1>18. failures' \in 0 .. Cardinality(Buffers)
  BY <1>14, <1>16
<1> QED
  BY <1>3, <1>5, <1>6, <1>7, <1>17, <1>18

-----------------------------------------------------------------------------
(* Every step keeps the types,                                             *)
LEMMA MediaTypeStep ==
  ASSUME MediaInv, [M!Next]_M!vars
  PROVE  M!TypeOK'
<1>t. /\ buf \in [Buffers -> BufferRecords] /\ failures \in 0 .. Cardinality(Buffers)
      /\ pool \in BOOLEAN /\ inited \in BOOLEAN /\ backend \in BOOLEAN
      /\ dev \in {"off", "init", "stream"} /\ stat \in BOOLEAN
      /\ sensor \in SensorRecords
      /\ image \in [Slots -> FrameRecords] /\ img \in Slots \cup {M!None}
      /\ forgotten \subseteq {"device", "frame"}
      /\ pc \in {"boot", "idle", "init", "start", "stop", "deinit", "backend", "pools", "exit"}
  BY MediaCardinality DEF MediaInv, M!TypeOK, BufferRecords, FrameRecords, SensorRecords
<1>c. M!NoSensor \in SensorRecords /\ M!FreeSlot \in FrameRecords
  BY DEF M!NoSensor, SensorRecords, M!FreeSlot, FrameRecords
<1> DEFINE BuffersTyped == buf' \in [Buffers -> BufferRecords] /\ failures' \in 0 .. Cardinality(Buffers)
           BackendTyped == pool' \in BOOLEAN /\ inited' \in BOOLEAN /\ backend' \in BOOLEAN
           DeviceTyped == dev' \in {"off", "init", "stream"} /\ stat' \in BOOLEAN
           CameraTyped == sensor' \in SensorRecords
           FramesTyped == /\ image' \in [Slots -> FrameRecords]
                     /\ img' \in Slots \cup {M!None}
           ControlTyped == /\ forgotten' \subseteq {"device", "frame"}
                      /\ pc' \in {"boot", "idle", "init", "start", "stop", "deinit", "backend", "pools", "exit"}
<1>n. BuffersTyped /\ BackendTyped /\ DeviceTyped /\ CameraTyped /\ FramesTyped /\ ControlTyped => M!TypeOK'
  BY MediaCardinality DEF M!TypeOK, BufferRecords, FrameRecords, SensorRecords
<1>r. ASSUME NEW set \in SUBSET Slots, M!ReleaseFrames(set)
      PROVE  image' \in [Slots -> FrameRecords]
  <2>1. PICK after \in [set -> UNION {M!FrameAfter(s) : s \in set}] :
          /\ \A s \in set : after[s] \in M!FrameAfter(s)
          /\ image' = [s \in Slots |-> IF s \in set THEN after[s] ELSE image[s]]
    BY <1>r DEF M!ReleaseFrames
  <2>2. \A s \in set : M!FrameAfter(s) \subseteq FrameRecords
    BY FrameFacts DEF MediaInv
  <2> QED
    BY <1>t, <2>1, <2>2
<1>b. ASSUME NEW tried \in SUBSET Buffers, M!ReleaseBuffers(tried)
      PROVE  BuffersTyped
  BY <1>b, ReleaseFacts DEF MediaInv, MediaAccounted, M!BuffersAccounted
<1>o. M!On("pending") \subseteq Buffers /\ M!On("tracked") \subseteq Buffers
  BY DEF M!On
<1>1. ASSUME NEW b \in Buffers, M!GetBuffer(b) \/ M!DestroyBuffer(b)
      PROVE  M!TypeOK'
  <2>1. BuffersTyped
    <3>1. CASE M!GetBuffer(b)
      BY <1>t, <3>1 DEF M!GetBuffer, M!Parts, BufferRecords
    <3>2. CASE M!DestroyBuffer(b)
      BY <1>b, <1>o, <3>2 DEF M!DestroyBuffer
    <3> QED
      BY <1>1, <3>1, <3>2
  <2>2. BackendTyped /\ DeviceTyped /\ CameraTyped /\ FramesTyped /\ ControlTyped
    BY <1>1, <1>t DEF M!GetBuffer, M!DestroyBuffer, M!vb, M!camera
  <2> QED
    BY <1>n, <2>1, <2>2
<1>2. CASE M!PoolCreate \/ M!PoolDestroy \/ M!DestroyPools \/ M!Interrupt \/ M!DeinitNothing
  BY <1>2, <1>n, <1>t DEF M!PoolCreate, M!PoolDestroy, M!DestroyPools, M!Interrupt, M!DeinitNothing, M!buffers,
    M!vb, M!camera
<1>3. CASE M!SnapshotRelease \/ M!Snapshot \/ M!StopStream
  <2>1. image' \in [Slots -> FrameRecords]
    <3>1. [used |-> TRUE, held |-> TRUE, refused |-> FALSE] \in FrameRecords
      BY DEF FrameRecords
    <3> QED
      BY <1>3, <1>r, <1>t, <3>1 DEF M!SnapshotRelease, M!Snapshot, M!StopStream
  <2>2. img' \in Slots \cup {M!None}
    BY <1>3, <1>t DEF M!SnapshotRelease, M!Snapshot, M!StopStream
  <2>3. BuffersTyped /\ BackendTyped /\ CameraTyped /\ ControlTyped
    BY <1>3, <1>t DEF M!SnapshotRelease, M!Snapshot, M!StopStream, M!buffers, M!vb
  <2>4. DeviceTyped
    BY <1>3, <1>t DEF M!SnapshotRelease, M!Snapshot, M!StopStream, M!AfterStop
  <2> QED
    BY <1>n, <2>1, <2>2, <2>3, <2>4
<1>4. CASE M!RunInit \/ M!RunStart \/ M!RunRegister
  <2>1. BuffersTyped /\ BackendTyped /\ FramesTyped /\ ControlTyped
    BY <1>4, <1>t DEF M!RunInit, M!RunStart, M!RunRegister, M!buffers, M!vb
  <2>2. DeviceTyped
    BY <1>4, <1>t DEF M!RunInit, M!RunStart, M!RunRegister
  <2>3. CameraTyped
    BY <1>4, <1>t DEF M!RunInit, M!RunStart, M!RunRegister, SensorRecords
  <2> QED
    BY <1>n, <2>1, <2>2, <2>3
<1>5. CASE M!StopDeinit \/ M!ResetPre \/ M!DeinitProducers
  <2>1. BuffersTyped
    BY <1>5, <1>b, <1>o, <1>t DEF M!StopDeinit, M!ResetPre, M!DeinitProducers, M!buffers
  <2>2. FramesTyped
    <3>1. M!UsedSlots \subseteq Slots
      BY DEF M!UsedSlots
    <3> QED
      BY <1>5, <1>r, <1>t, <3>1 DEF M!StopDeinit, M!ResetPre, M!DeinitProducers
  <2>3. CameraTyped
    BY <1>5, <1>c, <1>t DEF M!StopDeinit, M!ResetPre, M!DeinitProducers
  <2>4. dev' \in {"off", "init", "stream"}
    BY <1>5, <1>t DEF M!StopDeinit, M!ResetPre, M!DeinitProducers, M!AfterDeinit, M!AfterStop
  <2>5. stat' \in BOOLEAN
    BY <1>5, <1>t DEF M!StopDeinit, M!ResetPre, M!DeinitProducers
  <2>6. ControlTyped
    BY <1>5, <1>t DEF M!StopDeinit, M!ResetPre, M!DeinitProducers, M!Forget
  <2>7. BackendTyped
    BY <1>5, <1>t DEF M!StopDeinit, M!ResetPre, M!DeinitProducers, M!vb
  <2> QED
    BY <1>n, <2>1, <2>2, <2>3, <2>4, <2>5, <2>6, <2>7
<1>6. CASE M!RetryPending \/ M!ExitBackend \/ M!Boot
  <2>1. BuffersTyped
    BY <1>6, <1>b, <1>o, <1>t DEF M!RetryPending, M!ExitBackend, M!Boot, M!buffers
  <2>2. BackendTyped
    BY <1>6, <1>t DEF M!RetryPending, M!ExitBackend, M!Boot, M!vb, M!BlocksOut
  <2>3. DeviceTyped /\ CameraTyped
    BY <1>6, <1>t DEF M!RetryPending, M!ExitBackend, M!Boot, M!camera
  <2>4. FramesTyped
    BY <1>6, <1>c, <1>t DEF M!RetryPending, M!ExitBackend, M!Boot, M!camera
  <2>5. ControlTyped
    BY <1>6, <1>t DEF M!RetryPending, M!ExitBackend, M!Boot
  <2> QED
    BY <1>n, <2>1, <2>2, <2>3, <2>4, <2>5
<1>7. CASE UNCHANGED M!vars
  BY <1>7, <1>n, <1>t DEF M!vars, M!buffers, M!vb, M!camera
<1> QED
  BY <1>1, <1>2, <1>3, <1>4, <1>5, <1>6, <1>7 DEF M!Next, M!ScriptStep, M!Reset

(* the records of the buffers and the flag of the backend,                 *)
LEMMA BuffersStep ==
  ASSUME MediaInv, [M!Next]_M!vars
  PROVE  M!BuffersAccounted' /\ Resetting'
<1>i. M!TypeOK /\ M!BuffersOnRecord /\ M!FailuresCounted /\ M!PoolsOutliveBlocks /\ M!FlagFollowsBackend
      /\ Resetting
  BY DEF MediaInv, MediaAccounted, M!BuffersAccounted
<1>t. /\ buf \in [Buffers -> BufferRecords] /\ IsFiniteSet(Buffers)
      /\ inited \in BOOLEAN /\ backend \in BOOLEAN
  BY <1>i, MediaAssumption DEF M!TypeOK, BufferRecords
<1>o. M!On("pending") \subseteq Buffers /\ M!On("tracked") \subseteq Buffers
  BY DEF M!On
<1> DEFINE Halting == {"deinit", "backend", "pools", "exit"}
<1>k. ASSUME UNCHANGED M!buffers
      PROVE  M!BuffersOnRecord' /\ M!FailuresCounted'
  BY <1>i, <1>k DEF M!buffers, M!BuffersOnRecord, M!FailuresCounted, M!On
<1>p. ASSUME NEW tried \in SUBSET Buffers, M!ReleaseBuffers(tried)
      PROVE  M!BuffersOnRecord' /\ M!FailuresCounted' /\ \A b \in tried : buf'[b].at # "tracked"
  BY <1>i, <1>p, ReleaseFacts
<1>1. ASSUME NEW b \in Buffers, M!GetBuffer(b)
      PROVE  M!BuffersAccounted' /\ Resetting'
  <2>1. PICK parts \in SUBSET M!Parts : buf' = [buf EXCEPT ![b] = [at |-> "tracked", rec |-> parts, own |-> parts]]
    BY <1>1 DEF M!GetBuffer, M!Parts
  <2>2. /\ buf'[b].at = "tracked" /\ buf'[b].rec = parts /\ buf'[b].own = parts
        /\ \A c \in Buffers \ {b} : buf'[c] = buf[c]
    BY <1>t, <2>1
  <2>3. M!BuffersOnRecord'
    BY <1>i, <2>2 DEF M!BuffersOnRecord
  <2>4. M!On("pending")' = M!On("pending")
    BY <1>1, <2>2 DEF M!On, M!GetBuffer
  <2>5. M!FailuresCounted'
    BY <1>1, <1>i, <2>4 DEF M!FailuresCounted, M!GetBuffer
  <2> QED
    BY <1>1, <1>i, <2>3, <2>5
       DEF M!GetBuffer, M!vb, M!BuffersAccounted, M!PoolsOutliveBlocks, M!FlagFollowsBackend, Resetting
<1>2. ASSUME NEW b \in Buffers, M!DestroyBuffer(b)
      PROVE  M!BuffersAccounted' /\ Resetting'
  <2>1. M!BuffersOnRecord' /\ M!FailuresCounted'
    BY <1>2, <1>o, <1>p DEF M!DestroyBuffer
  <2> QED
    BY <1>2, <1>i, <2>1
       DEF M!DestroyBuffer, M!vb, M!BuffersAccounted, M!PoolsOutliveBlocks, M!FlagFollowsBackend, Resetting
<1>3. CASE \/ M!PoolCreate \/ M!PoolDestroy \/ M!SnapshotRelease \/ M!Snapshot \/ M!RunInit \/ M!RunStart
              \/ M!RunRegister
           \/ M!Interrupt \/ M!StopStream \/ M!StopDeinit \/ M!DeinitNothing
  <2>1. UNCHANGED M!buffers
    BY <1>3
       DEF M!PoolCreate, M!PoolDestroy, M!SnapshotRelease, M!Snapshot, M!RunInit, M!RunStart, M!RunRegister,
       M!Interrupt, M!StopStream,
           M!StopDeinit, M!DeinitNothing
  <2>2. pc' \notin Halting
    BY <1>3
       DEF M!PoolCreate, M!PoolDestroy, M!SnapshotRelease, M!Snapshot, M!RunInit, M!RunStart, M!RunRegister,
       M!Interrupt, M!StopStream,
           M!StopDeinit, M!DeinitNothing
  <2>3. UNCHANGED <<inited, backend>>
    BY <1>3
       DEF M!PoolCreate, M!PoolDestroy, M!SnapshotRelease, M!Snapshot, M!RunInit, M!RunStart, M!RunRegister,
       M!Interrupt, M!StopStream,
           M!StopDeinit, M!DeinitNothing, M!vb
  <2> QED
    BY <1>i, <1>k, <2>1, <2>2, <2>3 DEF M!BuffersAccounted, M!PoolsOutliveBlocks, M!FlagFollowsBackend, Resetting
<1>4. CASE M!ResetPre
  <2>1. M!BuffersOnRecord' /\ M!FailuresCounted'
        /\ \A b \in M!On("tracked") \cup M!On("pending") : buf'[b].at # "tracked"
    BY <1>4, <1>o, <1>p DEF M!ResetPre
  <2>2. \A b \in Buffers \ (M!On("tracked") \cup M!On("pending")) : buf'[b] = buf[b]
    BY <1>4, <1>i, <1>o, ReleaseFacts DEF M!ResetPre
  <2>3. M!On("tracked")' = {}
    BY <2>1, <2>2 DEF M!On
  <2> QED
    BY <1>4, <1>i, <2>1, <2>3
       DEF M!ResetPre, M!vb, M!BuffersAccounted, M!PoolsOutliveBlocks, M!FlagFollowsBackend, Resetting
<1>5. CASE M!DeinitProducers \/ M!DestroyPools
  <2>1. UNCHANGED M!buffers /\ UNCHANGED <<inited, backend, img>> /\ pc \in Halting
        /\ (pc' = "exit" => pc = "pools")
        /\ pc' # "pools"
    BY <1>5 DEF M!DeinitProducers, M!DestroyPools, M!vb, M!camera
  <2>2. M!On("tracked")' = M!On("tracked")
    BY <2>1 DEF M!On, M!buffers
  <2> QED
    BY <1>i, <1>k, <2>1, <2>2 DEF M!buffers, M!BuffersAccounted, M!PoolsOutliveBlocks, M!FlagFollowsBackend,
      Resetting
<1>6. CASE M!RetryPending
  <2>1. /\ M!BuffersOnRecord' /\ M!FailuresCounted' /\ \A b \in M!On("pending") : buf'[b].at # "tracked"
        /\ \A b \in Buffers \ M!On("pending") : buf'[b] = buf[b]
        /\ failures' \in 0 .. Cardinality(Buffers) /\ buf' \in [Buffers -> BufferRecords]
    BY <1>6, <1>i, <1>o, ReleaseFacts DEF M!RetryPending
  <2>2. M!On("tracked")' = {} /\ img' = M!None
    BY <1>6, <1>i, <2>1 DEF M!On, M!RetryPending, Resetting, M!camera
  <2>3. ASSUME pc' \in {"pools", "exit"}, NEW b \in Buffers
        PROVE  "block" \notin buf'[b].own
    <3>1. failures' = 0
      BY <1>6, <2>1, <2>3 DEF M!RetryPending
    <3>2. M!On("pending")' \subseteq Buffers /\ Cardinality(M!On("pending")') = 0
      BY <2>1, <3>1, MediaCardinality DEF M!On, M!FailuresCounted
    <3>3. M!On("pending")' = {}
      BY <1>t, <3>2, FS_Subset, FS_EmptySet
    <3>4. buf'[b].at = "none"
      BY <2>1, <2>2, <3>3 DEF M!On, BufferRecords
    <3> QED
      BY <2>1, <3>4 DEF M!BuffersOnRecord
  <2>4. M!PoolsOutliveBlocks'
    BY <2>3 DEF M!PoolsOutliveBlocks
  <2>5. M!FlagFollowsBackend' /\ Resetting'
    BY <1>6, <1>i, <2>2 DEF M!RetryPending, M!vb, M!FlagFollowsBackend, Resetting
  <2> QED
    BY <2>1, <2>4, <2>5 DEF M!BuffersAccounted
<1>7. CASE M!ExitBackend
  BY <1>7, <1>i, <1>k DEF M!ExitBackend, M!BuffersAccounted, M!PoolsOutliveBlocks, M!FlagFollowsBackend, Resetting
<1>8. CASE M!Boot
  <2>1. M!BuffersOnRecord' /\ M!FailuresCounted'
    BY <1>8, <1>o, <1>p DEF M!Boot
  <2> QED
    BY <1>8, <2>1 DEF M!Boot, M!BuffersAccounted, M!PoolsOutliveBlocks, M!FlagFollowsBackend, Resetting
<1>9. CASE UNCHANGED M!vars
  <2>1. M!On("tracked")' = M!On("tracked")
    BY <1>9 DEF M!vars, M!buffers, M!On
  <2> QED
    BY <1>9, <1>i, <1>k, <2>1
       DEF M!vars, M!buffers, M!vb, M!camera, M!BuffersAccounted, M!PoolsOutliveBlocks, M!FlagFollowsBackend,
       Resetting
<1> QED
  BY <1>1, <1>2, <1>3, <1>4, <1>5, <1>6, <1>7, <1>8, <1>9 DEF M!Next, M!ScriptStep, M!Reset

(* and the record of the device and the frames.                            *)
LEMMA CameraStep ==
  ASSUME MediaInv, [M!Next]_M!vars
  PROVE  M!CameraAccounted' /\ Running' /\ BackendDown'
<1>i. /\ M!DeviceOnRecord /\ M!FramesReturned /\ M!FlagFollowsBackend /\ Resetting /\ Running /\ BackendDown
      /\ M!None \notin Slots
  BY MediaAssumption DEF None, M!None, MediaInv, MediaAccounted, M!BuffersAccounted, M!CameraAccounted
<1>t. /\ dev \in {"off", "init", "stream"} /\ stat \in BOOLEAN /\ inited \in BOOLEAN /\ backend \in BOOLEAN
      /\ sensor \in SensorRecords
      /\ image \in [Slots -> FrameRecords] /\ img \in Slots \cup {M!None}
  BY DEF MediaInv, M!TypeOK, FrameRecords, SensorRecords
\* The frames: a slot that is in use and has not been tried before is the snapshot, or the reset is about to try it.
<1>f. ASSUME NEW set \in SUBSET Slots, M!ReleaseFrames(set)
      PROVE  /\ \A s \in set : image'[s].used => image'[s].refused
             /\ \A s \in Slots \ set : image'[s] = image[s]
  <2>1. PICK after \in [set -> UNION {M!FrameAfter(s) : s \in set}] :
          /\ \A s \in set : after[s] \in M!FrameAfter(s)
          /\ image' = [s \in Slots |-> IF s \in set THEN after[s] ELSE image[s]]
    BY <1>f DEF M!ReleaseFrames
  <2>2. \A s \in set : \A f \in M!FrameAfter(s) : f.used => f.refused
    BY FrameFacts DEF MediaInv
  <2> QED
    BY <2>1, <2>2
<1>d. M!DeviceOnRecord' /\ M!FramesReturned' => M!CameraAccounted'
  BY DEF M!CameraAccounted
<1>s. ASSUME UNCHANGED <<dev, stat, sensor, image, img, backend>>, forgotten \subseteq forgotten',
             pc' \notin {"init", "start"}, pc # "deinit" \/ pc' = "deinit"
      PROVE  M!CameraAccounted' /\ Running' /\ BackendDown'
  BY <1>i, <1>s DEF M!CameraAccounted, M!DeviceOnRecord, M!FramesReturned, Running, BackendDown, M!UsedSlots
<1>1. ASSUME NEW b \in Buffers, M!GetBuffer(b) \/ M!DestroyBuffer(b)
      PROVE  M!CameraAccounted' /\ Running' /\ BackendDown'
  BY <1>1, <1>s DEF M!GetBuffer, M!DestroyBuffer, M!vb, M!camera
<1>2. CASE M!PoolCreate \/ M!PoolDestroy \/ M!Interrupt \/ M!RetryPending \/ M!DestroyPools
  BY <1>2, <1>s DEF M!PoolCreate, M!PoolDestroy, M!Interrupt, M!RetryPending, M!DestroyPools, M!vb, M!camera
<1>3. CASE M!SnapshotRelease
  <2>1. img \in Slots
    BY <1>3, <1>t DEF M!SnapshotRelease
  <2>2. (image'[img].used => image'[img].refused) /\ \A s \in Slots \ {img} : image'[s] = image[s]
    BY <1>3, <1>f, <2>1 DEF M!SnapshotRelease
  <2> QED
    BY <1>3, <1>d, <1>i, <2>1, <2>2
       DEF M!SnapshotRelease, M!vb, M!DeviceOnRecord, M!FramesReturned, Running, BackendDown, M!UsedSlots
<1>4. CASE M!Snapshot
  <2>1. PICK s \in Slots \ M!UsedSlots :
          image' = [image EXCEPT ![s] = [used |-> TRUE, held |-> TRUE, refused |-> FALSE]] /\ img' = s
    BY <1>4 DEF M!Snapshot
  <2>2. \A q \in Slots \ {s} : image'[q] = image[q]
    BY <1>t, <2>1
  <2>3. backend
    BY <1>4, <1>i DEF M!Snapshot, BackendDown
  <2> QED
    BY <1>4, <1>d, <1>i, <2>1, <2>2, <2>3
       DEF M!Snapshot, M!vb, M!DeviceOnRecord, M!FramesReturned, Running, BackendDown, M!UsedSlots
<1>5. CASE M!RunInit
  <2>1. sensor'.init /\ backend /\ backend' = backend /\ dev' \in {dev, "init"} /\ (pc' = "init" => dev' # "off")
        /\ pc' \in {"idle", "init"} /\ pc = "idle" /\ UNCHANGED <<image, img>>
    BY <1>5, <1>t DEF M!RunInit, M!vb, SensorRecords
  <2> QED
    BY <1>d, <1>i, <2>1 DEF M!DeviceOnRecord, M!FramesReturned, Running, BackendDown, M!UsedSlots
<1>6. CASE M!RunStart
  <2>1. sensor'.init /\ backend' = backend /\ dev' \in {dev, "stream"} /\ pc' \in {"idle", "start"} /\ pc = "init"
        /\ UNCHANGED <<image, img>>
    BY <1>6, <1>i, <1>t DEF M!RunStart, M!vb, Running, SensorRecords
  <2>2. backend
    BY <1>i, <2>1 DEF Running, BackendDown
  <2> QED
    BY <1>d, <1>i, <2>1, <2>2 DEF M!DeviceOnRecord, M!FramesReturned, Running, BackendDown, M!UsedSlots
<1>7. CASE M!RunRegister
  BY <1>7, <1>d, <1>i, <1>t DEF M!RunRegister, SensorRecords, M!vb, M!DeviceOnRecord, M!FramesReturned, Running,
    BackendDown, M!UsedSlots
<1>8. CASE M!StopStream
  <2>1. \A s \in Slots : image'[s].used => image'[s].refused \/ (image'[s] = image[s] /\ s # img)
    <3>1. CASE img # M!None
      BY <1>8, <1>f, <1>t, <3>1 DEF M!StopStream
    <3>2. CASE img = M!None
      BY <1>8, <1>i, <3>2 DEF M!StopStream
    <3> QED
      BY <3>1, <3>2
  <2>2. /\ dev' # "off" => dev # "off"
        /\ UNCHANGED <<stat, sensor, forgotten, backend>> /\ pc = "idle" /\ pc' = "stop"
    BY <1>8, <1>t DEF M!StopStream, M!AfterStop, M!vb
  <2> QED
    BY <1>d, <1>i, <2>1, <2>2 DEF M!DeviceOnRecord, M!FramesReturned, Running, BackendDown, M!UsedSlots
<1>9. CASE M!StopDeinit
  <2>1. /\ dev' \in {"off", dev} /\ (dev' # "off" => stat' = stat /\ (stat \/ "device" \in forgotten'))
        /\ UNCHANGED <<image, img, backend>> /\ pc = "stop" /\ pc' = "idle"
    BY <1>9, <1>t DEF M!StopDeinit, M!Forget, M!vb
  <2> QED
    BY <1>d, <1>i, <2>1 DEF M!DeviceOnRecord, M!FramesReturned, Running, BackendDown, M!UsedSlots
<1>10. CASE M!ResetPre
  <2>1. /\ dev' # "off" => dev # "off" /\ stat' = stat /\ (stat \/ "device" \in forgotten')
        /\ UNCHANGED <<image, backend>> /\ pc' = "deinit"
    BY <1>10, <1>t DEF M!ResetPre, M!Forget, M!AfterDeinit, M!AfterStop, M!vb
  <2> QED
    BY <1>d, <1>i, <2>1 DEF M!DeviceOnRecord, M!FramesReturned, Running, BackendDown, M!UsedSlots
<1>11. CASE M!DeinitProducers
  <2>1. \A s \in Slots : image'[s].used => image'[s].refused
    BY <1>11, <1>f DEF M!DeinitProducers, M!UsedSlots
  <2>2. /\ dev' # "off" => "device" \in forgotten' \/ (~stat /\ dev' = dev /\ forgotten' = forgotten)
        /\ UNCHANGED <<sensor, backend>> /\ backend /\ pc' = "backend"
    BY <1>11, <1>i, <1>t DEF M!DeinitProducers, M!Forget, M!vb, M!FlagFollowsBackend
  <2> QED
    BY <1>d, <1>i, <2>1, <2>2 DEF M!DeviceOnRecord, M!FramesReturned, Running, BackendDown, M!UsedSlots
<1>12. CASE M!DeinitNothing
  <2>1. ~backend
    BY <1>12, <1>i, <1>t DEF M!DeinitNothing, M!FlagFollowsBackend
  <2> QED
    BY <1>12, <1>d, <1>i, <2>1 DEF M!DeinitNothing, M!vb, M!camera, M!DeviceOnRecord, M!FramesReturned, Running,
      BackendDown, M!UsedSlots
<1>13. CASE M!ExitBackend
  <2>1. img = M!None /\ \A s \in M!UsedSlots : image[s].refused
    BY <1>13, <1>i DEF M!ExitBackend, Resetting, M!FramesReturned, M!UsedSlots
  <2>2. ~backend' => dev = "off"
    BY <1>13 DEF M!ExitBackend, M!BlocksOut
  <2>3. UNCHANGED <<dev, stat, sensor, image, img, forgotten>> /\ pc' = "boot"
    BY <1>13 DEF M!ExitBackend, M!camera
  <2> QED
    BY <1>d, <1>i, <2>1, <2>2, <2>3 DEF M!DeviceOnRecord, M!FramesReturned, Running, BackendDown, M!UsedSlots
<1>14. CASE M!Boot
  <2>1. \A s \in Slots : ~image'[s].used
    BY <1>14 DEF M!Boot, M!FreeSlot
  <2>2. /\ UNCHANGED <<dev, stat, sensor>> /\ forgotten \subseteq forgotten' /\ pc' = "idle"
        /\ ~backend' => ~backend
    BY <1>14, <1>i DEF M!Boot, M!FlagFollowsBackend
  <2> QED
    BY <1>d, <1>i, <2>1, <2>2 DEF M!DeviceOnRecord, M!FramesReturned, Running, BackendDown, M!UsedSlots
<1>15. CASE UNCHANGED M!vars
  BY <1>15, <1>i DEF M!vars, M!vb, M!camera, M!CameraAccounted, M!DeviceOnRecord, M!FramesReturned, Running, BackendDown,
    M!UsedSlots
<1> QED
  BY <1>1, <1>2, <1>3, <1>4, <1>5, <1>6, <1>7, <1>8, <1>9, <1>10, <1>11, <1>12, <1>13, <1>14, <1>15
     DEF M!Next, M!ScriptStep, M!Reset

\* A boot starts with nothing on record.
LEMMA MediaInitially == M!Init => MediaInv
<1> SUFFICES ASSUME M!Init PROVE MediaInv
  OBVIOUS
<1>1. \A list \in {"tracked", "pending"} : M!On(list) = {}
  BY DEF M!Init, M!On, M!NoBuffer
<1>2. Cardinality(Buffers) \in Nat /\ failures = 0
  BY MediaAssumption, FS_CardinalityType DEF M!Init
<1>3. M!TypeOK
  <2>1. /\ M!NoBuffer \in [at : {"none", "tracked", "pending"}, rec : SUBSET M!Parts, own : SUBSET M!Parts]
        /\ M!NoSensor \in [init : BOOLEAN, stream : BOOLEAN, started : BOOLEAN, registered : BOOLEAN]
        /\ M!FreeSlot \in [used : BOOLEAN, held : BOOLEAN, refused : BOOLEAN]
    BY DEF M!NoBuffer, M!NoSensor, M!FreeSlot
  <2>2. /\ buf \in [Buffers -> [at : {"none", "tracked", "pending"}, rec : SUBSET M!Parts, own : SUBSET M!Parts]]
        /\ sensor \in [init : BOOLEAN, stream : BOOLEAN, started : BOOLEAN, registered : BOOLEAN]
        /\ image \in [Slots -> [used : BOOLEAN, held : BOOLEAN, refused : BOOLEAN]]
    BY <2>1 DEF M!Init
  <2>3. failures \in 0 .. Cardinality(Buffers)
    BY <1>2
  <2>4. /\ pool \in BOOLEAN /\ inited \in BOOLEAN /\ backend \in BOOLEAN
        /\ dev \in {"off", "init", "stream"} /\ stat \in BOOLEAN /\ img \in Slots \cup {M!None}
        /\ forgotten \subseteq {"device", "frame"}
        /\ pc \in {"boot", "idle", "init", "start", "stop", "deinit", "backend", "pools", "exit"}
    BY DEF M!Init
  <2> QED
    BY <2>2, <2>3, <2>4, MediaCardinality DEF M!TypeOK
<1>4. M!BuffersAccounted
  BY <1>1, <1>2, FS_EmptySet, MediaCardinality
     DEF M!Init, M!BuffersAccounted, M!BuffersOnRecord, M!FailuresCounted, M!PoolsOutliveBlocks,
     M!FlagFollowsBackend, M!NoBuffer
<1>5. M!CameraAccounted /\ Resetting /\ Running /\ BackendDown
  BY DEF M!Init, M!CameraAccounted, M!DeviceOnRecord, M!FramesReturned, Resetting, Running, BackendDown, M!UsedSlots,
    M!FreeSlot
<1> QED
  BY <1>3, <1>4, <1>5 DEF MediaInv, MediaAccounted

\* The strengthening is inductive,
LEMMA MediaInductive == MediaInv /\ [M!Next]_M!vars => MediaInv'
BY MediaTypeStep, BuffersStep, CameraStep DEF MediaInv, MediaAccounted

\* and holds in every state, for every set of buffers and of snapshots.
THEOREM MediaInvariant == M!Spec => []MediaInv
BY MediaInitially, MediaInductive, PTL DEF M!Spec

\* Whichever call fails and wherever an exception or a reset comes between, the buffers and pools, and the camera and
\* its frames, are on record while they are there, and failed releases are counted.
THEOREM MediaIsAccounted == M!Spec => []MediaAccounted
<1>1. MediaInv => MediaAccounted
  BY DEF MediaInv, MediaAccounted
<1> QED
  BY <1>1, MediaInvariant, PTL

\* The types of the media library.
THEOREM MediaTypes == M!Spec => []M!TypeOK
<1>1. MediaInv => M!TypeOK
  BY DEF MediaInv
<1> QED
  BY <1>1, MediaInvariant, PTL

-----------------------------------------------------------------------------
(***************************************************************************)
(* MjpegEncoder: however calls of the library fail                         *)
(***************************************************************************)

\* A call is in progress on an open encoder only, and between its steps the channel is as far as the step before left
\* it.
Calling ==
  /\ encode.at = "idle" => encode = J!Idle
  /\ encode.at # "idle" => jpeg = "open"
  /\ encode.at \in {"input", "send", "take"} => params = encode.params /\ "chn" \in jpegRecord
  /\ encode.at \in {"send", "take"} /\ encode.staged => J!ToSet(J!Input) \subseteq jpegRecord
  /\ encode.at = "take" => J!ToSet(J!Channel) \subseteq jpegRecord

\* While the channel exists, the input block is there as a whole or not at all.
InputWhole == "chn" \in jpegRecord => J!ToSet(J!Input) \subseteq jpegRecord \/ J!ToSet(J!Input) \cap jpegRecord = {}

\* After an encode that failed without a failure of the library, there is no channel, or a whole one, or a failure.
Recovering ==
  misses = 0 \/
    /\ misses = 1
    /\ encode.at \in {"idle", "clean", "init"} => jpegRecord = {}
    /\ encode.at \in {"input", "send", "take"} => J!ToSet(J!Channel) \subseteq jpegRecord
    /\ encode.at = "undo" => fault

EncoderInv == J!TypeOK /\ J!MjpegEncoderSound /\ Calling /\ InputWhole /\ Recovering

EncoderFields == [at : {"idle", "clean", "init", "input", "send", "take", "undo"},
                  params : Params \cup {J!None}, staged : BOOLEAN]

\* The place of a resource in the order of release
Rank(res) ==
  CASE res = "started" -> 1
    [] res = "attached" -> 2
    [] res = "created" -> 3
    [] res = "chn" -> 4
    [] res = "fd" -> 5
    [] res = "output" -> 6
    [] res = "map" -> 7
    [] res = "block" -> 8
    [] res = "pool" -> 9

\* The resources, in the order in which they are released.
LEMMA Sets ==
  /\ J!Resources = {"started", "attached", "created", "chn", "fd", "output", "map", "block", "pool"}
  /\ J!ToSet(J!Channel) = {"fd", "chn", "output", "attached", "created", "started"}
  /\ J!ToSet(J!Input) = {"pool", "block", "map"}
<1>1. /\ Len(J!Release) = 9 /\ J!Release[1] = "started" /\ J!Release[2] = "attached" /\ J!Release[3] = "created"
      /\ J!Release[4] = "chn" /\ J!Release[5] = "fd" /\ J!Release[6] = "output" /\ J!Release[7] = "map"
      /\ J!Release[8] = "block"
      /\ J!Release[9] = "pool"
  BY DEF J!Release
<1>2. /\ Len(J!Channel) = 6 /\ J!Channel[1] = "fd" /\ J!Channel[2] = "chn" /\ J!Channel[3] = "output"
      /\ J!Channel[4] = "attached" /\ J!Channel[5] = "created" /\ J!Channel[6] = "started"
  BY DEF J!Channel
<1>3. Len(J!Input) = 3 /\ J!Input[1] = "pool" /\ J!Input[2] = "block" /\ J!Input[3] = "map"
  BY DEF J!Input
<1>a. \A i \in 1 .. 9 : i \in {1, 2, 3, 4, 5, 6, 7, 8, 9}
  OBVIOUS
<1>4. J!ToSet(J!Release) = {J!Release[i] : i \in 1 .. 9}
  BY <1>1 DEF J!ToSet, J!Release
<1>5. J!ToSet(J!Channel) = {J!Channel[i] : i \in 1 .. 6}
  BY <1>2 DEF J!ToSet, J!Channel
<1>6. J!ToSet(J!Input) = {J!Input[i] : i \in 1 .. 3}
  BY <1>3 DEF J!ToSet, J!Input
<1>7. \A i \in 1 .. 6 : i = 1 \/ i = 2 \/ i = 3 \/ i = 4 \/ i = 5 \/ i = 6
  OBVIOUS
<1>8. J!Resources = {"started", "attached", "created", "chn", "fd", "output", "map", "block", "pool"}
  BY <1>1, <1>a, <1>4 DEF J!Resources
<1>9. J!ToSet(J!Channel) = {"fd", "chn", "output", "attached", "created", "started"}
  BY <1>2, <1>5, <1>7
<1>10. J!ToSet(J!Input) = {"pool", "block", "map"}
  BY <1>3, <1>6
<1> QED
  BY <1>8, <1>9, <1>10

\* The releases before the k-th one are those of the resources of lower rank.
LEMMA Removed ==
  ASSUME NEW k \in J!Attempts
  PROVE  \A res \in J!Resources : res \in {J!Release[i] : i \in 1 .. k - 1} <=> Rank(res) < k
<1>1. /\ Len(J!Release) = 9 /\ J!Release[1] = "started" /\ J!Release[2] = "attached" /\ J!Release[3] = "created"
      /\ J!Release[4] = "chn" /\ J!Release[5] = "fd" /\ J!Release[6] = "output" /\ J!Release[7] = "map"
      /\ J!Release[8] = "block"
      /\ J!Release[9] = "pool"
  BY DEF J!Release
<1>2. k \in 1 .. 10
  BY <1>1 DEF J!Attempts
<1>3. \A i \in 1 .. 9 : Rank(J!Release[i]) = i
  <2>1. \A i \in 1 .. 9 : i \in {1, 2, 3, 4, 5, 6, 7, 8, 9}
    OBVIOUS
  <2> QED
    BY <1>1, <2>1 DEF Rank
<1>4. \A res \in J!Resources : Rank(res) \in 1 .. 9 /\ J!Release[Rank(res)] = res
  BY <1>1, Sets DEF Rank
<1> QED
  BY <1>2, <1>3, <1>4

\* A cleanup, wherever a failing release stops it, leaves what is held on record and does not release an input that is
\* still read.
LEMMA CleanupFacts ==
  ASSUME J!TypeOK, J!HeldOnRecord, J!ReleasedInOrder, J!InputOutlivesEncode, InputWhole, NEW k \in J!Attempts,
         J!CleanupTo(k)
  PROVE  /\ jpegRecord' \subseteq jpegRecord /\ jpegHeld' \subseteq jpegHeld
         /\ params' \in {params, J!None} /\ reads' \in {reads, "no"} /\ fault' \in BOOLEAN
         /\ J!HeldOnRecord' /\ J!ReleasedInOrder' /\ J!InputOutlivesEncode' /\ InputWhole'
         /\ J!Succeeded(k) => jpegRecord' = {} /\ fault' = fault
         /\ ~J!Succeeded(k) => fault' /\ jpegRecord # {}
<1>1. k \in 1 .. 10 /\ Len(J!Release) = 9
  BY DEF J!Attempts, J!Release
<1> DEFINE left == jpegRecord \ {J!Release[i] : i \in 1 .. k - 1}
<1>2. left = {res \in jpegRecord : Rank(res) >= k}
  <2>1. \A res \in J!Resources : Rank(res) \in 1 .. 9
    BY Sets DEF Rank
  <2>2. jpegRecord \subseteq J!Resources
    BY DEF J!TypeOK
  <2> QED
    BY <1>1, <2>1, <2>2, Removed
<1>3. /\ jpegRecord' \subseteq left /\ left \ jpegRecord' \subseteq {"fd"}
      /\ jpegHeld' = (jpegHeld \ jpegRecord) \cup left
      /\ params' = (IF k > 5 THEN J!None ELSE params)
      /\ reads' = (IF "started" \in left THEN reads ELSE "no")
      /\ fault' = (fault \/ k <= Len(J!Release))
      /\ k <= Len(J!Release) => J!Release[k] \in jpegRecord
      /\ k <= Len(J!Release) /\ J!Release[k] = "fd" => jpegRecord' = left \ {"fd"}
      /\ ~(k <= Len(J!Release) /\ J!Release[k] = "fd") => jpegRecord' = left
  BY DEF J!CleanupTo
<1>4. /\ Rank("started") = 1 /\ Rank("attached") = 2 /\ Rank("created") = 3 /\ Rank("chn") = 4 /\ Rank("fd") = 5
      /\ Rank("output") = 6 /\ Rank("map") = 7 /\ Rank("block") = 8 /\ Rank("pool") = 9
  BY DEF Rank
<1>t. jpegRecord \subseteq J!Resources /\ jpegHeld \subseteq J!Resources /\ reads \in {"no", "now", "late"}
      /\ fault \in BOOLEAN
  BY DEF J!TypeOK
<1> HIDE DEF left
<1>5. J!HeldOnRecord'
  BY <1>2, <1>3 DEF J!HeldOnRecord
<1>6. J!ReleasedInOrder'
  <2> SUFFICES ASSUME NEW res \in jpegHeld', NEW n \in J!Needs(res)
               PROVE  n \in jpegHeld'
    BY DEF J!ReleasedInOrder
  <2>1. res \in jpegHeld /\ n \in jpegHeld
    BY <1>2, <1>3 DEF J!HeldOnRecord, J!ReleasedInOrder
  <2>2. /\ res \in {"started", "attached", "created", "chn", "block", "map"}
        /\ n \in {"fd", "chn", "output", "created", "attached", "pool", "block"}
        /\ Rank(res) <= Rank(n)
    BY <1>4 DEF J!Needs
  <2>3. res \in left
    BY <1>3, <2>2 DEF J!HeldOnRecord
  <2>4. Rank(res) >= k
    BY <1>2, <2>3
  <2>5. Rank(n) >= k
    BY <1>1, <1>4, <2>2, <2>4
  <2> QED
    BY <1>2, <1>3, <2>1, <2>5
<1>7. J!InputOutlivesEncode'
  <2> SUFFICES ASSUME reads' # "no"
               PROVE  {"started", "map"} \subseteq jpegHeld'
    BY DEF J!InputOutlivesEncode
  <2>1. "started" \in left /\ "map" \in jpegHeld
    BY <1>3 DEF J!InputOutlivesEncode
  <2>2. k = 1
    BY <1>1, <1>2, <1>4, <2>1
  <2>3. Rank("map") >= k
    BY <1>4, <2>2
  <2> QED
    BY <1>2, <1>3, <2>1, <2>3
<1>8. InputWhole'
  <2> SUFFICES ASSUME "chn" \in jpegRecord'
               PROVE  J!ToSet(J!Input) \subseteq jpegRecord' \/ J!ToSet(J!Input) \cap jpegRecord' = {}
    BY DEF InputWhole
  <2>1. k <= 4 /\ "chn" \in jpegRecord
    BY <1>1, <1>2, <1>3, <1>4
  <2>2. \A res \in J!ToSet(J!Input) : res \in jpegRecord' <=> res \in jpegRecord
    <3>1. \A res \in J!ToSet(J!Input) : Rank(res) >= k /\ res # "fd"
      BY <1>1, <1>4, <2>1, Sets
    <3> QED
      BY <1>2, <1>3, <3>1
  <2> QED
    BY <2>1, <2>2 DEF InputWhole
<1>9. J!Succeeded(k) => jpegRecord' = {} /\ fault' = fault
  <2> SUFFICES ASSUME k = 10
               PROVE  jpegRecord' = {} /\ fault' = fault
    BY <1>1 DEF J!Succeeded
  <2>1. \A res \in J!Resources : ~(Rank(res) >= 10)
    BY <1>4, Sets
  <2> QED
    BY <1>1, <1>2, <1>3, <1>t, <2>1
<1>10. ~J!Succeeded(k) => fault' /\ jpegRecord # {}
  <2> SUFFICES ASSUME k <= Len(J!Release)
               PROVE  fault' /\ jpegRecord # {}
    BY <1>1 DEF J!Succeeded
  <2>1. jpegRecord # {}
    BY <1>3
  <2>2. fault'
    BY <1>3
  <2> QED
    BY <2>1, <2>2
<1>11. jpegRecord' \subseteq jpegRecord /\ jpegHeld' \subseteq jpegHeld
  BY <1>2, <1>3 DEF J!HeldOnRecord
<1>12. params' \in {params, J!None} /\ reads' \in {reads, "no"} /\ fault' \in BOOLEAN
  BY <1>3, <1>t
<1> QED
  BY <1>5, <1>6, <1>7, <1>8, <1>9, <1>10, <1>11, <1>12

\* Every step of the encoder keeps the strengthening.
LEMMA EncoderStep ==
  ASSUME EncoderInv, [J!Next]_J!vars
  PROVE  EncoderInv'
<1>i. /\ J!TypeOK /\ J!HeldOnRecord /\ J!ReleasedInOrder /\ J!InitStartsClean /\ J!InputOutlivesEncode
      /\ J!StreamFitsPicture
      /\ J!ClosedIsEmpty /\ J!RecoversAtOnce /\ Calling /\ InputWhole /\ Recovering
  BY DEF EncoderInv, J!MjpegEncoderSound
<1>t. /\ jpeg \in {"open", "closed", "finalised"} /\ params \in Params \cup {J!None}
      /\ jpegRecord \subseteq J!Resources /\ jpegHeld \subseteq J!Resources
      /\ reads \in {"no", "now", "late"} /\ encode \in EncoderFields /\ fault \in BOOLEAN /\ misses \in Nat
  BY <1>i DEF J!TypeOK, EncoderFields
<1>f. /\ J!Idle \in EncoderFields /\ J!Idle.at = "idle"
      /\ \A c \in EncoderFields :
           c.at \in {"idle", "clean", "init", "input", "send", "take", "undo"} /\ c.params \in Params \cup {J!None}
           /\ c.staged \in BOOLEAN
  BY DEF J!Idle, EncoderFields
<1>g. ASSUME NEW a \in {"init", "input", "send", "take", "undo"}, J!Goto(a)
      PROVE  /\ encode' \in EncoderFields /\ encode'.at = a /\ encode'.params = encode.params
             /\ encode'.staged = encode.staged
  BY <1>g, <1>t DEF J!Goto, EncoderFields
<1> DEFINE Typed == /\ jpeg' \in {"open", "closed", "finalised"} /\ params' \in Params \cup {J!None}
                    /\ jpegRecord' \subseteq J!Resources /\ jpegHeld' \subseteq J!Resources
                    /\ reads' \in {"no", "now", "late"} /\ encode' \in EncoderFields /\ fault' \in BOOLEAN
                    /\ misses' \in Nat
           HasOwned == J!HeldOnRecord' /\ J!ReleasedInOrder' /\ J!InputOutlivesEncode' /\ InputWhole'
           Between == J!InitStartsClean' /\ J!StreamFitsPicture' /\ Calling'
           Ends == J!ClosedIsEmpty' /\ Recovering'
<1>n. Typed /\ HasOwned /\ Between /\ Ends => EncoderInv'
  <2>1. Recovering' => J!RecoversAtOnce'
    BY DEF Recovering, J!RecoversAtOnce
  <2> QED
    BY <2>1 DEF EncoderInv, J!MjpegEncoderSound, J!TypeOK, EncoderFields
\* What every step that releases nothing keeps
<1>o. ASSUME UNCHANGED <<jpegRecord, jpegHeld, reads>>
      PROVE  HasOwned
  BY <1>i, <1>o DEF J!HeldOnRecord, J!ReleasedInOrder, J!InputOutlivesEncode, InputWhole
<1>c. ASSUME NEW k \in J!Attempts, J!CleanupTo(k)
      PROVE  /\ jpegRecord' \subseteq jpegRecord /\ jpegHeld' \subseteq jpegHeld /\ HasOwned
             /\ params' \in Params \cup {J!None} /\ reads' \in {"no", "now", "late"} /\ fault' \in BOOLEAN
             /\ J!Succeeded(k) => jpegRecord' = {} /\ fault' = fault
             /\ ~J!Succeeded(k) => fault' /\ jpegRecord # {}
  <2>1. /\ jpegRecord' \subseteq jpegRecord /\ jpegHeld' \subseteq jpegHeld
        /\ params' \in {params, J!None} /\ reads' \in {reads, "no"} /\ fault' \in BOOLEAN
        /\ J!HeldOnRecord' /\ J!ReleasedInOrder' /\ J!InputOutlivesEncode' /\ InputWhole'
        /\ J!Succeeded(k) => jpegRecord' = {} /\ fault' = fault
        /\ ~J!Succeeded(k) => fault' /\ jpegRecord # {}
    BY <1>c, <1>i, CleanupFacts
  <2> QED
    BY <1>t, <2>1
<1>res. ASSUME NEW ok \in BOOLEAN, J!Return(ok)
      PROVE  /\ encode' = J!Idle /\ encode' \in EncoderFields /\ encode'.at = "idle" /\ misses' \in Nat
             /\ J!InitStartsClean' /\ J!StreamFitsPicture' /\ Calling'
             /\ ok \/ fault' => misses' = 0
             /\ ~(ok \/ fault') => misses' = misses + 1
  <2>1. encode' = J!Idle /\ encode' \in EncoderFields /\ encode'.at = "idle"
    BY <1>f, <1>res DEF J!Return
  <2>2. ok \/ fault' => misses' = 0
    BY <1>res DEF J!Return
  <2>3. ~(ok \/ fault') => misses' = misses + 1
    BY <1>res DEF J!Return
  <2>4. misses' \in Nat
    BY <1>t, <2>2, <2>3
  <2> QED
    BY <2>1, <2>2, <2>3, <2>4 DEF J!InitStartsClean, J!StreamFitsPicture, Calling
<1>a. "fd" \in J!Resources /\ J!ToSet(J!Channel) \subseteq J!Resources /\ J!ToSet(J!Input) \subseteq J!Resources
  BY Sets
<1> HIDE DEF Typed, HasOwned, Between, Ends
<1>1. ASSUME NEW p \in Params, NEW staged \in BOOLEAN, J!Encode(p, staged)
      PROVE  EncoderInv'
  <2>1. /\ encode = J!Idle /\ jpeg = "open" /\ ~fault' /\ fault' \in BOOLEAN
        /\ UNCHANGED <<jpeg, params, jpegRecord, jpegHeld, reads, misses>>
    BY <1>1 DEF J!Encode
  <2>2. /\ encode' \in EncoderFields /\ encode'.at \in {"input", "clean"}
        /\ encode'.at = "input" => "chn" \in jpegRecord /\ params = encode'.params
    <3>1. CASE "chn" \in jpegRecord /\ params = p
      BY <1>1, <3>1 DEF J!Encode, EncoderFields
    <3>2. CASE ~("chn" \in jpegRecord /\ params = p)
      BY <1>1, <3>2 DEF J!Encode, EncoderFields
    <3> QED
      BY <3>1, <3>2
  <2>3. HasOwned
    BY <1>o, <2>1
  <2>4. Between
    BY <2>1, <2>2 DEF Between, J!InitStartsClean, J!StreamFitsPicture, Calling
  <2>5. Ends
    <3>1. misses = 0 \/ (misses = 1 /\ jpegRecord = {})
      BY <1>f, <1>i, <2>1 DEF Recovering
    <3> QED
      BY <1>i, <2>1, <2>2, <3>1 DEF Ends, J!ClosedIsEmpty, Recovering
  <2>6. Typed
    BY <1>t, <2>1, <2>2 DEF Typed
  <2> QED
    BY <1>n, <2>3, <2>4, <2>5, <2>6
<1>2. CASE J!InitCleans
  <2>1. PICK k \in J!Attempts :
          /\ J!CleanupTo(k)
          /\ IF J!Succeeded(k) THEN J!Goto("init") /\ UNCHANGED misses ELSE J!Return(FALSE)
    BY <1>2 DEF J!InitCleans
  <2>2. encode.at = "clean" /\ jpeg' = jpeg
    BY <1>2 DEF J!InitCleans
  <2>3. /\ jpegRecord' \subseteq jpegRecord /\ jpegHeld' \subseteq jpegHeld /\ HasOwned
        /\ params' \in Params \cup {J!None} /\ reads' \in {"no", "now", "late"} /\ fault' \in BOOLEAN
        /\ J!Succeeded(k) => jpegRecord' = {} /\ fault' = fault
        /\ ~J!Succeeded(k) => fault' /\ jpegRecord # {}
    BY <1>c, <2>1
  <2>4. jpeg = "open"
    BY <1>i, <2>2 DEF Calling
  <2>5. CASE J!Succeeded(k)
    <3>1. J!Goto("init") /\ misses' = misses /\ jpegRecord' = {}
      BY <2>1, <2>3, <2>5
    <3>2. encode' \in EncoderFields /\ encode'.at = "init"
      BY <1>g, <3>1
    <3>3. Between /\ Ends
      BY <1>i, <2>2, <2>4, <3>1, <3>2
         DEF Between, Ends, J!InitStartsClean, J!StreamFitsPicture, Calling, J!ClosedIsEmpty, Recovering
    <3>4. Typed
      BY <1>t, <2>2, <2>3, <3>1, <3>2 DEF Typed
    <3> QED
      BY <1>n, <2>3, <3>3, <3>4
  <2>6. CASE ~J!Succeeded(k)
    <3>1. J!Return(FALSE) /\ fault'
      BY <2>1, <2>3, <2>6
    <3>2. encode' \in EncoderFields /\ Between /\ misses' = 0
      BY <1>res, <3>1 DEF Between
    <3>3. Ends
      BY <2>2, <2>4, <3>2 DEF Ends, J!ClosedIsEmpty, Recovering
    <3>4. Typed
      BY <1>t, <2>2, <2>3, <3>2 DEF Typed
    <3> QED
      BY <1>n, <2>3, <3>2, <3>3, <3>4
  <2> QED
    BY <2>5, <2>6
<1>3. CASE J!InitChannel
  <2>1. PICK n \in 0 .. Len(J!Channel) :
       /\ jpegRecord' = jpegRecord \cup {J!Channel[i] : i \in 1 .. n}
       /\ jpegHeld' = jpegHeld \cup jpegRecord'
       /\ IF n = Len(J!Channel)
          THEN params' = encode.params /\ J!Goto("input") /\ UNCHANGED fault
          ELSE fault' = TRUE /\ J!Goto("undo") /\ UNCHANGED params
    BY <1>3 DEF J!InitChannel
  <2>2. encode.at = "init" /\ UNCHANGED <<jpeg, reads, misses>>
    BY <1>3 DEF J!InitChannel
  <2>3. jpeg = "open" /\ jpegRecord = {} /\ (misses = 0 \/ misses = 1)
    BY <1>i, <2>2 DEF Calling, J!InitStartsClean, Recovering
  <2>c. /\ Len(J!Channel) = 6 /\ J!Channel[1] = "fd" /\ J!Channel[2] = "chn" /\ J!Channel[3] = "output"
        /\ J!Channel[4] = "attached" /\ J!Channel[5] = "created" /\ J!Channel[6] = "started"
    BY DEF J!Channel
  <2>4. \A i \in 1 .. 6 : i = 1 \/ i = 2 \/ i = 3 \/ i = 4 \/ i = 5 \/ i = 6
    OBVIOUS
  <2>5. jpegRecord' \subseteq J!ToSet(J!Channel) /\ (n = 6 => jpegRecord' = J!ToSet(J!Channel))
    <3>1. n \in 0 .. 6
      BY <2>c
    <3>2. \A i \in 1 .. n : J!Channel[i] \in J!ToSet(J!Channel)
      BY <2>4, <2>c, <3>1, Sets
    <3>3. n = 6 => J!ToSet(J!Channel) \subseteq {J!Channel[i] : i \in 1 .. n}
      BY <2>c, Sets
    <3> QED
      BY <2>1, <2>3, <3>2, <3>3
  <2>6. jpegHeld \subseteq {"fd"} /\ jpegHeld' = jpegHeld \cup jpegRecord' /\ reads' = "no"
    <3>1. jpegHeld \subseteq {"fd"}
      BY <1>i, <2>3 DEF J!HeldOnRecord
    <3> QED
      BY <1>i, <1>t, <2>1, <2>2, <3>1 DEF J!InputOutlivesEncode
  <2>7. \A res \in jpegHeld' : J!Needs(res) \subseteq jpegHeld'
    <3>1. "chn" \in jpegRecord' => "fd" \in jpegRecord'
      BY <2>1, <2>3, <2>4, <2>c
    <3>2. "attached" \in jpegRecord' => "chn" \in jpegRecord' /\ "output" \in jpegRecord'
      BY <2>1, <2>3, <2>4, <2>c
    <3>3. "created" \in jpegRecord' => "chn" \in jpegRecord'
      BY <2>1, <2>3, <2>4, <2>c
    <3>4. "started" \in jpegRecord' => "created" \in jpegRecord' /\ "attached" \in jpegRecord'
      BY <2>1, <2>3, <2>4, <2>c
    <3>5. \A res \in jpegHeld' : res \in {"fd", "chn", "output", "attached", "created", "started"}
          /\ (res # "fd" => res \in jpegRecord')
      BY <2>5, <2>6, Sets
    <3> QED
      BY <2>6, <3>1, <3>2, <3>3, <3>4, <3>5 DEF J!Needs
  <2>8. HasOwned
    <3>1. J!ToSet(J!Input) \cap jpegRecord' = {}
      BY <2>5, Sets
    <3> QED
      BY <2>6, <2>7, <3>1 DEF HasOwned, J!HeldOnRecord, J!ReleasedInOrder, J!InputOutlivesEncode, InputWhole
  <2>9. CASE n = 6
    <3>1. params' = encode.params /\ J!Goto("input") /\ UNCHANGED fault
      BY <2>1, <2>9, <2>c
    <3>2. encode' \in EncoderFields /\ encode'.at = "input" /\ encode'.params = encode.params
      BY <1>g, <3>1
    <3>3. "chn" \in jpegRecord' /\ J!ToSet(J!Channel) \subseteq jpegRecord'
      BY <2>5, <2>9, Sets
    <3>4. Between /\ Ends
      BY <2>2, <2>3, <3>1, <3>2, <3>3
         DEF Between, Ends, J!InitStartsClean, J!StreamFitsPicture, Calling, J!ClosedIsEmpty, Recovering
    <3>5. Typed
      BY <1>a, <1>f, <1>t, <2>2, <2>5, <2>6, <3>1, <3>2 DEF Typed
    <3> QED
      BY <1>n, <2>8, <3>4, <3>5
  <2>10. CASE n # 6
    <3>1. fault' = TRUE /\ J!Goto("undo") /\ UNCHANGED params
      BY <2>1, <2>10, <2>c
    <3>2. encode' \in EncoderFields /\ encode'.at = "undo"
      BY <1>g, <3>1
    <3>3. Between /\ Ends
      BY <2>2, <2>3, <3>1, <3>2
         DEF Between, Ends, J!InitStartsClean, J!StreamFitsPicture, Calling, J!ClosedIsEmpty, Recovering
    <3>4. Typed
      BY <1>a, <1>t, <2>2, <2>5, <2>6, <3>1, <3>2 DEF Typed
    <3> QED
      BY <1>n, <2>8, <3>3, <3>4
  <2> QED
    BY <2>9, <2>10
<1>4. CASE J!EnsureInput
  <2> DEFINE missing == IF encode.staged /\ "block" \notin jpegRecord THEN J!ToSet(J!Input) ELSE {}
  <2>1. \/ jpegRecord' = jpegRecord \cup missing /\ jpegHeld' = jpegHeld \cup missing /\ J!Goto("send")
           /\ UNCHANGED fault
        \/ fault' = TRUE /\ J!Goto("undo") /\ UNCHANGED <<jpegRecord, jpegHeld>>
    BY <1>4 DEF J!EnsureInput
  <2>2. encode.at = "input" /\ UNCHANGED <<jpeg, params, reads, misses>>
    BY <1>4 DEF J!EnsureInput
  <2>3. jpeg = "open" /\ params = encode.params /\ "chn" \in jpegRecord
    BY <1>i, <2>2 DEF Calling
  <2>4. CASE jpegRecord' = jpegRecord \cup missing /\ jpegHeld' = jpegHeld \cup missing /\ J!Goto("send")
             /\ UNCHANGED fault
    <3>1. /\ encode' \in EncoderFields /\ encode'.at = "send" /\ encode'.params = encode.params
          /\ encode'.staged = encode.staged
      BY <1>g, <2>4
    <3>2. encode.staged => J!ToSet(J!Input) \subseteq jpegRecord'
      BY <1>i, <2>3, <2>4, Sets DEF InputWhole
    <3>3. /\ missing = {} \/ missing = {"pool", "block", "map"}
          /\ jpegRecord' = jpegRecord \cup missing /\ jpegHeld' = jpegHeld \cup missing
      BY <2>4, Sets
    <3> HIDE DEF missing
    <3>4. J!ReleasedInOrder'
      <4>1. \A res \in missing : J!Needs(res) \subseteq missing
        BY <3>3 DEF J!Needs
      <4> QED
        BY <1>i, <3>3, <4>1 DEF J!ReleasedInOrder
    <3>5. J!HeldOnRecord' /\ J!InputOutlivesEncode'
      BY <1>i, <2>2, <3>3 DEF J!HeldOnRecord, J!InputOutlivesEncode
    <3>6. InputWhole'
      BY <1>i, <2>3, <3>3, Sets DEF InputWhole
    <3>7. Between
      BY <2>2, <2>3, <3>1, <3>2, <3>3 DEF Between, J!InitStartsClean, J!StreamFitsPicture, Calling
    <3>8. Ends
      BY <1>i, <2>2, <2>3, <3>1, <3>3 DEF Ends, J!ClosedIsEmpty, Recovering
    <3>9. Typed
      BY <1>a, <1>t, <2>2, <2>4, <3>1, <3>3, Sets DEF Typed
    <3> QED
      BY <1>n, <3>4, <3>5, <3>6, <3>7, <3>8, <3>9 DEF HasOwned
  <2>5. CASE fault' = TRUE /\ J!Goto("undo") /\ UNCHANGED <<jpegRecord, jpegHeld>>
    <3>1. encode' \in EncoderFields /\ encode'.at = "undo"
      BY <1>g, <2>5
    <3>2. HasOwned
      BY <1>o, <2>2, <2>5
    <3>3. Between /\ Ends
      BY <1>i, <2>2, <2>3, <2>5, <3>1
         DEF Between, Ends, J!InitStartsClean, J!StreamFitsPicture, Calling, J!ClosedIsEmpty, Recovering
    <3>4. Typed
      BY <1>t, <2>2, <2>5, <3>1 DEF Typed
    <3> QED
      BY <1>n, <3>2, <3>3, <3>4
  <2> QED
    BY <2>1, <2>4, <2>5
<1>5. CASE J!SendFrame
  <2>1. encode.at = "send" /\ UNCHANGED <<jpeg, params, jpegRecord, jpegHeld, misses>>
    BY <1>5 DEF J!SendFrame
  <2>2. /\ jpeg = "open" /\ params = encode.params /\ "chn" \in jpegRecord
        /\ encode.staged => J!ToSet(J!Input) \subseteq jpegRecord
        /\ misses = 0 \/ (misses = 1 /\ J!ToSet(J!Channel) \subseteq jpegRecord)
    BY <1>i, <2>1 DEF Calling, Recovering
  <2>3. CASE /\ J!ToSet(J!Channel) \subseteq jpegRecord
             /\ reads' = IF reads # "no" THEN "late" ELSE IF encode.staged THEN "now" ELSE "no"
             /\ J!Goto("take") /\ UNCHANGED fault
    <3>1. /\ encode' \in EncoderFields /\ encode'.at = "take" /\ encode'.params = encode.params
          /\ encode'.staged = encode.staged
      BY <1>g, <2>3
    <3>2. J!InputOutlivesEncode'
      BY <1>i, <2>1, <2>2, <2>3, Sets DEF J!InputOutlivesEncode, J!HeldOnRecord
    <3>3. HasOwned
      BY <1>i, <2>1, <3>2 DEF HasOwned, J!HeldOnRecord, J!ReleasedInOrder, InputWhole
    <3>4. Between
      BY <2>1, <2>2, <2>3, <3>1 DEF Between, J!InitStartsClean, J!StreamFitsPicture, Calling
    <3>5. Ends
      BY <1>i, <2>1, <2>2, <2>3, <3>1 DEF Ends, J!ClosedIsEmpty, Recovering
    <3>6. Typed
      BY <1>t, <2>1, <2>3, <3>1 DEF Typed
    <3> QED
      BY <1>n, <3>3, <3>4, <3>5, <3>6
  <2>4. CASE fault' = (J!ToSet(J!Channel) \subseteq jpegRecord) /\ J!Goto("undo") /\ UNCHANGED reads
    <3>1. encode' \in EncoderFields /\ encode'.at = "undo"
      BY <1>g, <2>4
    <3>2. fault' \in BOOLEAN /\ (J!ToSet(J!Channel) \subseteq jpegRecord => fault')
      BY <2>4
    <3>3. HasOwned
      BY <1>o, <2>1, <2>4
    <3>4. Between
      BY <2>1, <2>2, <3>1 DEF Between, J!InitStartsClean, J!StreamFitsPicture, Calling
    <3>5. Ends
      BY <2>1, <2>2, <3>1, <3>2 DEF Ends, J!ClosedIsEmpty, Recovering
    <3>6. Typed
      BY <1>t, <2>1, <2>4, <3>1, <3>2 DEF Typed
    <3> QED
      BY <1>n, <3>3, <3>4, <3>5, <3>6
  <2> QED
    BY <1>5, <2>3, <2>4 DEF J!SendFrame
<1>6. CASE J!TakeStream
  <2>1. encode.at = "take" /\ UNCHANGED <<jpeg, params, jpegRecord, jpegHeld>>
    BY <1>6 DEF J!TakeStream
  <2>2. jpeg = "open" /\ (misses = 0 \/ misses = 1)
    BY <1>i, <2>1 DEF Calling, Recovering
  <2>3. reads' \in {"no", "now", "late"} /\ (reads' # "no" => reads # "no")
    BY <1>6, <1>t DEF J!TakeStream
  <2>4. HasOwned
    BY <1>i, <2>1, <2>3 DEF HasOwned, J!HeldOnRecord, J!ReleasedInOrder, J!InputOutlivesEncode, InputWhole
  <2>5. CASE UNCHANGED fault /\ J!Return(TRUE)
    <3>1. encode' \in EncoderFields /\ Between /\ misses' = 0
      BY <1>res, <2>5 DEF Between
    <3>2. Ends
      BY <2>1, <2>2, <3>1 DEF Ends, J!ClosedIsEmpty, Recovering
    <3>3. Typed
      BY <1>t, <2>1, <2>3, <2>5, <3>1 DEF Typed
    <3> QED
      BY <1>n, <2>4, <3>1, <3>2, <3>3
  <2>6. CASE fault' = TRUE /\ J!Goto("undo") /\ UNCHANGED misses
    <3>1. encode' \in EncoderFields /\ encode'.at = "undo"
      BY <1>g, <2>6
    <3>2. Between /\ Ends
      BY <2>1, <2>2, <2>6, <3>1
         DEF Between, Ends, J!InitStartsClean, J!StreamFitsPicture, Calling, J!ClosedIsEmpty, Recovering
    <3>3. Typed
      BY <1>t, <2>1, <2>3, <2>6, <3>1 DEF Typed
    <3> QED
      BY <1>n, <2>4, <3>2, <3>3
  <2> QED
    BY <1>6, <2>5, <2>6 DEF J!TakeStream
<1>7. CASE J!EncodeFails
  <2>1. PICK k \in J!Attempts : J!CleanupTo(k)
    BY <1>7 DEF J!EncodeFails
  <2>2. encode.at = "undo" /\ J!Return(FALSE) /\ jpeg' = jpeg
    BY <1>7 DEF J!EncodeFails
  <2>3. /\ jpegRecord' \subseteq jpegRecord /\ jpegHeld' \subseteq jpegHeld /\ HasOwned
        /\ params' \in Params \cup {J!None} /\ reads' \in {"no", "now", "late"} /\ fault' \in BOOLEAN
        /\ J!Succeeded(k) => jpegRecord' = {} /\ fault' = fault
        /\ ~J!Succeeded(k) => fault'
    BY <1>c, <2>1
  <2>4. /\ encode' \in EncoderFields /\ Between /\ misses' \in Nat /\ encode'.at = "idle"
        /\ fault' => misses' = 0
        /\ ~fault' => misses' = misses + 1
    BY <1>res, <2>2 DEF Between
  <2>5. jpeg = "open" /\ (misses = 0 \/ fault)
    BY <1>i, <2>2 DEF Calling, Recovering
  <2>6. misses' = 0 \/ (misses' = 1 /\ jpegRecord' = {})
    <3>1. CASE fault'
      BY <2>4, <3>1
    <3>2. CASE ~fault'
      <4>1. jpegRecord' = {} /\ ~fault
        BY <2>3, <3>2
      <4>2. misses' = 1
        BY <2>4, <2>5, <3>2, <4>1
      <4> QED
        BY <4>1, <4>2
    <3> QED
      BY <3>1, <3>2
  <2>7. Ends
    BY <2>2, <2>4, <2>5, <2>6 DEF Ends, J!ClosedIsEmpty, Recovering
  <2>8. Typed
    BY <1>t, <2>2, <2>3, <2>4 DEF Typed
  <2> QED
    BY <1>n, <2>3, <2>4, <2>7, <2>8
<1>8. CASE J!Close \/ J!Finalize
  <2>1. PICK k \in J!Attempts : J!CleanupTo(k) /\ (jpeg' = "closed" => J!Succeeded(k))
    <3>1. CASE J!Close
      BY <3>1 DEF J!Close
    <3>2. CASE J!Finalize
      BY <3>2 DEF J!Finalize
    <3> QED
      BY <1>8, <3>1, <3>2
  <2>2. /\ encode = J!Idle /\ UNCHANGED <<encode, misses>> /\ jpeg' \in {"open", "closed", "finalised"}
    BY <1>8 DEF J!Close, J!Finalize
  <2>3. /\ jpegRecord' \subseteq jpegRecord /\ jpegHeld' \subseteq jpegHeld /\ HasOwned
        /\ params' \in Params \cup {J!None} /\ reads' \in {"no", "now", "late"} /\ fault' \in BOOLEAN
        /\ J!Succeeded(k) => jpegRecord' = {}
    BY <1>c, <2>1
  <2>4. Between
    BY <1>f, <2>2 DEF Between, J!InitStartsClean, J!StreamFitsPicture, Calling
  <2>5. Ends
    <3>1. J!ClosedIsEmpty'
      BY <2>1, <2>3 DEF HasOwned, J!ClosedIsEmpty, J!HeldOnRecord
    <3>2. Recovering'
      BY <1>f, <1>i, <2>2, <2>3 DEF Recovering
    <3> QED
      BY <3>1, <3>2 DEF Ends
  <2>6. Typed
    BY <1>t, <2>2, <2>3 DEF Typed
  <2> QED
    BY <1>n, <2>3, <2>4, <2>5, <2>6
<1>9. CASE J!EncodeRefused \/ UNCHANGED J!vars
  <2>1. UNCHANGED J!vars
    BY <1>9 DEF J!EncodeRefused
  <2> QED
    BY <1>i, <2>1
       DEF J!vars, EncoderInv, J!MjpegEncoderSound, J!TypeOK, J!HeldOnRecord, J!ReleasedInOrder, J!InitStartsClean,
           J!InputOutlivesEncode, J!StreamFitsPicture, J!ClosedIsEmpty, J!RecoversAtOnce, Calling, InputWhole, Recovering
<1> QED
  BY <1>1, <1>2, <1>3, <1>4, <1>5, <1>6, <1>7, <1>8, <1>9 DEF J!Next

\* The encoder starts closed, with nothing held.
LEMMA EncoderInitially == J!Init => EncoderInv
<1> SUFFICES ASSUME J!Init PROVE EncoderInv
  OBVIOUS
<1>1. J!TypeOK
  BY DEF J!Init, J!TypeOK, J!Idle
<1>2. J!MjpegEncoderSound
  BY DEF J!Init, J!Idle, J!MjpegEncoderSound, J!HeldOnRecord, J!ReleasedInOrder, J!InitStartsClean,
    J!InputOutlivesEncode,
         J!StreamFitsPicture, J!ClosedIsEmpty, J!RecoversAtOnce
<1>3. Calling /\ InputWhole /\ Recovering
  BY DEF J!Init, J!Idle, Calling, InputWhole, Recovering
<1> QED
  BY <1>1, <1>2, <1>3 DEF EncoderInv

\* Whichever call of the library fails and wherever a cleanup stops, the encoder sets its resources up and releases
\* them as a whole and in order, keeps the input while it is read, and starts again from nothing.
THEOREM EncoderIsSound == J!Spec => []MjpegEncoderSound
<1>1. EncoderInv => MjpegEncoderSound
  BY DEF EncoderInv, MjpegEncoderSound
<1> QED
  BY <1>1, EncoderInitially, EncoderStep, PTL DEF J!Spec

\* The types of the encoder.
THEOREM MjpegTypes == J!Spec => []J!TypeOK
<1>1. EncoderInv => J!TypeOK
  BY DEF EncoderInv
<1> QED
  BY <1>1, EncoderInitially, EncoderStep, PTL DEF J!Spec

-----------------------------------------------------------------------------
(***************************************************************************)
(* FramePreview: the picture and the preview encoder                       *)
(***************************************************************************)

\* A dump has its picture to itself until it is sent.
Dumping == previewTask # "dump" => sending = P!NoPicture

\* What is held is on record, so that a later cleanup can release it; only a descriptor whose release failed is not.
Recorded == record \subseteq held /\ held \ record \subseteq {"fd"}

\* How far an encode has come: what is left is cleaned up before a frame is grabbed, and that frame is held until the
\* encoder is done with it.
Capturing ==
  /\ previewTask \in {"clean", "init", "undo"} => ~encoderInited
  /\ previewTask = "grab" /\ ~encoderInited => record = {}
  /\ previewTask \in {"clean", "grab"} => ~frameHeld
  /\ previewTask \in {"init", "send", "take"} => frameHeld
  /\ venc = "reading" => previewTask = "take"

PreviewInv == P!TypeOK /\ P!FrameHandover /\ P!EncoderSound /\ Dumping /\ Recorded /\ Capturing

\* The place of a resource in the order of release
Place(s) ==
  CASE s = "started" -> 1
    [] s = "attached" -> 2
    [] s = "created" -> 3
    [] s = "chn" -> 4
    [] s = "map" -> 5
    [] s = "block" -> 6
    [] s = "pool" -> 7
    [] s = "fd" -> 8

\* The resources of the preview encoder.
LEMMA StageSet == P!Stages = {"fd", "chn", "pool", "block", "map", "attached", "created", "started"}
<1>1. /\ Len(P!Acquire) = 8 /\ P!Acquire[1] = "fd" /\ P!Acquire[2] = "chn" /\ P!Acquire[3] = "pool"
      /\ P!Acquire[4] = "block"
      /\ P!Acquire[5] = "map" /\ P!Acquire[6] = "attached" /\ P!Acquire[7] = "created" /\ P!Acquire[8] = "started"
  BY DEF P!Acquire
<1>2. \A i \in 1 .. 8 : i \in {1, 2, 3, 4, 5, 6, 7, 8}
  OBVIOUS
<1>3. P!Stages = {P!Acquire[i] : i \in 1 .. 8}
  BY <1>1 DEF P!Stages, P!ToSet, P!Acquire
<1> QED
  BY <1>1, <1>2, <1>3

\* What a cleanup leaves that comes to the k-th release.
LEMMA LeftFacts ==
  ASSUME record \subseteq P!Stages, NEW k \in P!Attempts
  PROVE  P!LeftFrom(k) = {s \in record : Place(s) >= k}
<1>1. /\ Len(P!Release) = 8 /\ P!Release[1] = "started" /\ P!Release[2] = "attached" /\ P!Release[3] = "created"
      /\ P!Release[4] = "chn" /\ P!Release[5] = "map" /\ P!Release[6] = "block" /\ P!Release[7] = "pool"
      /\ P!Release[8] = "fd"
  BY DEF P!Release
<1>2. k \in 1 .. 9
  BY <1>1 DEF P!Attempts
<1>3. \A i \in 1 .. 8 : Place(P!Release[i]) = i
  <2>1. \A i \in 1 .. 8 : i \in {1, 2, 3, 4, 5, 6, 7, 8}
    OBVIOUS
  <2> QED
    BY <1>1, <2>1 DEF Place
<1>4. \A s \in P!Stages : Place(s) \in 1 .. 8 /\ P!Release[Place(s)] = s
  BY <1>1, StageSet DEF Place
<1>5. \A s \in P!Stages : s \in {P!Release[i] : i \in 1 .. k - 1} <=> Place(s) < k
  BY <1>2, <1>3, <1>4
<1> QED
  BY <1>2, <1>4, <1>5 DEF P!LeftFrom

\* A cleanup, wherever a failing release stops it, leaves what is held on record.
LEMMA PreviewCleanup ==
  ASSUME P!TypeOK, Recorded, P!ReleasedInOrder, venc # "reading", NEW k \in P!Attempts, P!CleanupTo(k)
  PROVE  /\ record' \subseteq P!Stages /\ held' \subseteq P!Stages
         /\ Recorded' /\ P!ReleasedInOrder'
         /\ venc' \in {"idle", "late"}
         /\ k > Len(P!Release) => record' = {}
<1>1. k \in 1 .. 9 /\ Len(P!Release) = 8
  BY DEF P!Attempts, P!Release
<1>t. record \subseteq P!Stages /\ held \subseteq P!Stages /\ venc \in {"idle", "reading", "late"}
  BY DEF P!TypeOK
<1> DEFINE left == P!LeftFrom(k)
<1>2. left = {s \in record : Place(s) >= k}
  BY <1>t, LeftFacts
<1>3. /\ record' = left \ (IF k = Len(P!Release) THEN {"fd"} ELSE {})
      /\ held' = (held \ record) \cup left
      /\ venc' = (IF "started" \in record' THEN venc ELSE "idle")
  BY DEF P!CleanupTo
<1> HIDE DEF left
<1>4. record' \subseteq left /\ left \ record' \subseteq {"fd"}
  BY <1>3
<1>5. Recorded'
  BY <1>2, <1>3, <1>4 DEF Recorded
<1>6. P!ReleasedInOrder'
  <2> SUFFICES ASSUME NEW s \in held', NEW n \in P!Needs(s)
               PROVE  n \in held'
    BY DEF P!ReleasedInOrder
  <2>1. s \in held /\ n \in held
    BY <1>2, <1>3 DEF Recorded, P!ReleasedInOrder
  <2>2. /\ s \in {"started", "attached", "created", "chn", "block", "map"}
        /\ n \in {"fd", "chn", "pool", "created", "attached", "block"}
        /\ Place(s) \in 1 .. 8 /\ Place(n) \in 1 .. 8 /\ Place(s) <= Place(n)
    BY DEF P!Needs, Place
  <2>3. s \in left
    BY <1>3, <2>2 DEF Recorded
  <2>4. Place(s) >= k
    BY <1>2, <2>3
  <2>5. Place(n) >= k
    BY <1>1, <2>2, <2>4
  <2> QED
    BY <1>2, <1>3, <2>1, <2>5
<1>7. k > Len(P!Release) => record' = {}
  <2>1. \A s \in P!Stages : ~(Place(s) >= 9)
    BY StageSet DEF Place
  <2> QED
    BY <1>1, <1>2, <1>4, <1>t, <2>1
<1>8. venc' \in {"idle", "late"}
  BY <1>3, <1>t
<1>9. record' \subseteq P!Stages /\ held' \subseteq P!Stages
  BY <1>2, <1>3, <1>t
<1> QED
  BY <1>5, <1>6, <1>7, <1>8, <1>9

-----------------------------------------------------------------------------
\* Every step keeps the types,
LEMMA PreviewTypeStep ==
  ASSUME PreviewInv, [P!Next]_P!vars
  PROVE  P!TypeOK'
<1>t. /\ heap \subseteq Blocks
      /\ fb \in Blocks \cup {P!None} /\ from \in {"NONE", "USER", "WBC"}
      /\ shown \in P!Picture /\ sending \in P!Picture
      /\ told \in Blocks \cup {P!None, P!Snapshot}
      /\ enablePic \in BOOLEAN /\ enabled \in BOOLEAN /\ encoderInited \in BOOLEAN /\ frameHeld \in BOOLEAN
      /\ previewTask \in {"idle", "capture", "clean", "grab", "init", "undo", "send", "take", "captured", "dump"}
      /\ previewMain \in {"idle", "enable"}
      /\ record \subseteq P!Stages /\ held \subseteq P!Stages
      /\ venc \in {"idle", "reading", "late"}
  BY DEF PreviewInv, P!TypeOK
<1> DEFINE FrameTypes == /\ heap' \subseteq Blocks
                         /\ fb' \in Blocks \cup {P!None} /\ from' \in {"NONE", "USER", "WBC"}
                         /\ shown' \in P!Picture /\ sending' \in P!Picture
           HostTypes == told' \in Blocks \cup {P!None, P!Snapshot} /\ enablePic' \in BOOLEAN
           ThreadTypes ==
             /\ previewTask' \in {"idle", "capture", "clean", "grab", "init", "undo", "send", "take", "captured", "dump"}
             /\ previewMain' \in {"idle", "enable"}
           EncoderTypes == /\ enabled' \in BOOLEAN /\ encoderInited' \in BOOLEAN /\ frameHeld' \in BOOLEAN
                           /\ record' \subseteq P!Stages /\ held' \subseteq P!Stages
                           /\ venc' \in {"idle", "reading", "late"}
<1>n. FrameTypes /\ HostTypes /\ ThreadTypes /\ EncoderTypes => P!TypeOK'
  BY DEF P!TypeOK
<1>p. /\ P!NoPicture \in P!Picture
      /\ \A b \in Blocks : [data |-> b, owned |-> TRUE] \in P!Picture
      /\ [data |-> P!Snapshot, owned |-> FALSE] \in P!Picture
      /\ shown.data \in Blocks \cup {P!None, P!Snapshot}
  BY <1>t DEF P!NoPicture, P!Picture
<1>c. ASSUME venc # "reading", P!Cleanup
      PROVE  record' \subseteq P!Stages /\ held' \subseteq P!Stages /\ venc' \in {"idle", "reading", "late"}
  BY <1>c, PreviewCleanup DEF P!Cleanup, PreviewInv, P!EncoderSound
<1>v. venc = "reading" => previewTask = "take"
  BY DEF PreviewInv, Capturing
<1>1. CASE P!SetFb \/ P!ScriptEnd \/ P!ScriptEndDetach \/ P!WbcSource
  BY <1>1, <1>n, <1>p, <1>t DEF P!SetFb, P!ScriptEnd, P!ScriptEndDetach, P!WbcSource, P!ClearFb, P!encoder, P!slot
<1>2. CASE P!WbcStop
  <2>1. venc # "reading"
    BY <1>2, <1>v DEF P!WbcStop, P!Encoding
  <2> QED
    BY <1>2, <1>c, <1>n, <1>t, <2>1 DEF P!WbcStop, P!slot
<1>3. CASE P!WbcEnable
  <2>1. enabled' \in BOOLEAN /\ previewMain' = "idle"
    BY <1>3 DEF P!WbcEnable
  <2>2. UNCHANGED <<heap, fb, from, shown, sending, told, enablePic, previewTask, encoderInited, record, held,
                    frameHeld, venc>>
    BY <1>3 DEF P!WbcEnable, P!slot
  <2> QED
    BY <1>n, <1>t, <2>1, <2>2
<1>4. CASE P!IdeDiscards \/ P!FrameSizeZero \/ P!FrameSizeCaptures \/ P!FrameDump \/ P!FrameSent
  BY <1>4, <1>n, <1>p, <1>t
     DEF P!IdeDiscards, P!FrameSizeZero, P!FrameSizeCaptures, P!FrameDump, P!FrameSent, P!ClearFb, P!encoder, P!slot
<1>5. CASE P!FbEnable
  <2>1. FrameTypes
    BY <1>5, <1>p, <1>t DEF P!FbEnable, P!ClearFb
  <2>2. HostTypes /\ ThreadTypes /\ EncoderTypes
    BY <1>5, <1>t DEF P!FbEnable, P!ClearFb, P!encoder
  <2> QED
    BY <1>n, <2>1, <2>2
<1>6. CASE P!FrameSize
  <2>1. shown' \in P!Picture /\ fb' \in Blocks \cup {P!None}
    BY <1>6, <1>p, <1>t DEF P!FrameSize, P!TakesFrame
  <2>2. told' \in Blocks \cup {P!None, P!Snapshot}
    BY <1>6, <2>1 DEF P!FrameSize, P!Picture
  <2> QED
    BY <1>6, <1>n, <1>t, <2>1, <2>2 DEF P!FrameSize, P!encoder
<1>7. CASE P!EncodeBegins \/ P!GrabFrame
  <2>1. CASE P!EncodeBegins
    BY <1>n, <1>t, <2>1 DEF P!EncodeBegins, P!Fail, P!encoder
  <2>2. CASE P!GrabFrame
    BY <1>n, <1>t, <2>2, ZenonT(60) DEF P!GrabFrame, P!Fail, P!encoder
  <2> QED
    BY <1>7, <2>1, <2>2
<1>8. CASE P!EncodeCleans
  <2>1. PICK k \in P!Attempts : /\ P!CleanupTo(k)
                                /\ IF k > Len(P!Release) THEN previewTask' = "grab" /\ UNCHANGED told ELSE P!Fail
    BY <1>8 DEF P!EncodeCleans
  <2>2. P!Cleanup /\ venc # "reading"
    BY <1>8, <1>v, <2>1 DEF P!Cleanup, P!EncodeCleans
  <2>3. record' \subseteq P!Stages /\ held' \subseteq P!Stages /\ venc' \in {"idle", "reading", "late"}
    BY <1>c, <2>2
  <2>4. previewTask' \in {"grab", "idle"} /\ told' \in {told, P!None}
    BY <2>1 DEF P!Fail
  <2> QED
    BY <1>8, <1>n, <1>t, <2>3, <2>4 DEF P!EncodeCleans
<1>9. CASE P!EncoderInit
  BY <1>9, <1>n, <1>t DEF P!EncoderInit, P!slot
<1>10. CASE P!EncoderInitFails
  <2>1. PICK n \in (0 .. Len(P!Acquire) - 1) \ {4} :
          record' = {P!Acquire[i] : i \in 1 .. n} /\ held' = held \cup record'
    BY <1>10 DEF P!EncoderInitFails
  <2>2. Len(P!Acquire) = 8 /\ \A i \in 1 .. 8 : P!Acquire[i] \in P!Stages
    BY DEF P!Acquire, P!Stages, P!ToSet
  <2>3. record' \subseteq P!Stages /\ held' \subseteq P!Stages
    BY <1>t, <2>1, <2>2
  <2> QED
    BY <1>10, <1>n, <1>t, <2>3 DEF P!EncoderInitFails, P!slot
<1>11. CASE P!EncoderInitUndo
  <2>1. venc # "reading"
    BY <1>11, <1>v DEF P!EncoderInitUndo
  <2>2. record' \subseteq P!Stages /\ held' \subseteq P!Stages /\ venc' \in {"idle", "reading", "late"}
    BY <1>11, <1>c, <2>1 DEF P!EncoderInitUndo
  <2> QED
    BY <1>11, <1>n, <1>t, <2>2 DEF P!EncoderInitUndo, P!Fail
<1>12. CASE P!SendFrame \/ P!TakeStream
  BY <1>12, <1>n, <1>t DEF P!SendFrame, P!TakeStream, P!EncoderReads, P!EncoderDone, P!Fail
<1>13. CASE P!Captured
  <2>1. shown' \in P!Picture /\ told' \in Blocks \cup {P!None, P!Snapshot}
    BY <1>13, <1>p, <1>t DEF P!Captured
  <2> QED
    BY <1>13, <1>n, <1>t, <2>1 DEF P!Captured, P!encoder
<1>14. CASE UNCHANGED P!vars
  BY <1>14, <1>n, <1>t DEF P!vars, P!slot, P!encoder
<1> QED
  BY <1>1, <1>2, <1>3, <1>4, <1>5, <1>6, <1>7, <1>8, <1>9, <1>10, <1>11, <1>12, <1>13, <1>14
     DEF P!Next, P!Program, P!Command, P!Encode

\* the frames where they belong,
LEMMA HandoverStep ==
  ASSUME PreviewInv, [P!Next]_P!vars
  PROVE  P!FrameHandover' /\ Dumping'
<1>i. /\ P!TypeOK /\ P!DumpIsAnnounced /\ Dumping
      /\ heap = ({fb} \ {P!None}) \cup P!Owned(shown) \cup P!Owned(sending)
      /\ {fb} \cap (P!Owned(shown) \cup P!Owned(sending)) = {} /\ P!Owned(shown) \cap P!Owned(sending) = {}
  BY DEF PreviewInv, P!FrameHandover, P!BlocksOwnedOnce
<1>t. heap \subseteq Blocks /\ fb \in Blocks \cup {P!None} /\ P!None \notin Blocks /\ P!Snapshot \notin Blocks
      /\ P!None # P!Snapshot
  BY <1>i, PreviewAssumption DEF P!TypeOK, P!None, P!Snapshot
<1>o. /\ P!Owned(shown) \subseteq Blocks /\ P!Owned(sending) \subseteq Blocks
      /\ P!Owned(P!NoPicture) = {} /\ P!NoPicture.data = P!None
      /\ shown.data = P!None => P!Owned(shown) = {}
      /\ \A b : P!Owned([data |-> b, owned |-> TRUE]) = {b} /\ P!Owned([data |-> b, owned |-> FALSE]) = {}
  <2>1. P!Owned(shown) \subseteq Blocks /\ P!Owned(sending) \subseteq Blocks
    BY <1>i, <1>t
  <2>2. shown.data = P!None => P!Owned(shown) = {}
    BY <1>t, <2>1 DEF P!Owned
  <2>3. P!Owned(P!NoPicture) = {} /\ P!NoPicture.data = P!None
    BY DEF P!Owned, P!NoPicture
  <2>4. \A b : P!Owned([data |-> b, owned |-> TRUE]) = {b} /\ P!Owned([data |-> b, owned |-> FALSE]) = {}
    BY DEF P!Owned
  <2> QED
    BY <2>1, <2>2, <2>3, <2>4
<1> DEFINE Once == /\ heap' = ({fb'} \ {P!None}) \cup P!Owned(shown') \cup P!Owned(sending')
                   /\ {fb'} \cap (P!Owned(shown') \cup P!Owned(sending')) = {}
                   /\ P!Owned(shown') \cap P!Owned(sending') = {}
<1>n. Once => P!BlocksOwnedOnce'
  BY DEF P!BlocksOwnedOnce, P!Owned
<1>h. P!BlocksOwnedOnce' /\ P!DumpIsAnnounced' => P!FrameHandover'
  BY DEF P!FrameHandover
<1> HIDE DEF Once
\* What a step keeps that leaves the frames where they are,
<1>k. ASSUME UNCHANGED <<heap, fb, shown, sending>>, told' \in {told, P!None},
             previewTask' = previewTask \/ previewTask # "dump"
      PROVE  P!FrameHandover' /\ Dumping'
  <2>1. Once
    BY <1>i, <1>k DEF Once
  <2>2. P!DumpIsAnnounced' /\ Dumping'
    BY <1>i, <1>k DEF P!DumpIsAnnounced, Dumping
  <2> QED
    BY <1>h, <1>n, <2>1, <2>2
\* and one that clears them.
<1>c. ASSUME NEW all \in BOOLEAN, P!ClearFb(all), UNCHANGED previewTask
      PROVE  P!FrameHandover' /\ Dumping'
  <2>1. CASE all
    <3>1. fb' = P!None /\ heap' = heap \ ({fb} \cup P!Owned(shown)) /\ shown' = P!NoPicture /\ told' = P!None
          /\ sending' = sending
      BY <1>c, <2>1 DEF P!ClearFb
    <3>2. Once
      BY <1>i, <1>o, <1>t, <3>1 DEF Once
    <3> QED
      BY <1>c, <1>h, <1>i, <1>n, <3>1, <3>2 DEF P!DumpIsAnnounced, Dumping
  <2>2. CASE ~all
    <3>1. fb' = P!None /\ heap' = heap \ {fb} /\ shown' = shown /\ told' = told /\ sending' = sending
      BY <1>c, <2>2 DEF P!ClearFb
    <3>2. Once
      BY <1>i, <1>o, <1>t, <3>1 DEF Once
    <3> QED
      BY <1>c, <1>h, <1>i, <1>n, <3>1, <3>2 DEF P!DumpIsAnnounced, Dumping
  <2> QED
    BY <2>1, <2>2
<1>1. CASE P!SetFb
  <2>1. UNCHANGED <<shown, sending, told, previewTask>>
    BY <1>1 DEF P!SetFb
  <2>2. Once
    <3>1. CASE fb' = P!None /\ heap' = heap \ {fb}
      BY <1>i, <1>o, <1>t, <2>1, <3>1 DEF Once
    <3>2. ASSUME NEW b \in Blocks \ (heap \ {fb}), fb' = b /\ heap' = (heap \ {fb}) \cup {b}
          PROVE  Once
      BY <1>i, <1>o, <1>t, <2>1, <3>2 DEF Once
    <3> QED
      BY <1>1, <3>1, <3>2 DEF P!SetFb
  <2> QED
    BY <1>h, <1>i, <1>n, <2>1, <2>2 DEF P!DumpIsAnnounced, Dumping
<1>2. CASE P!ScriptEnd \/ P!ScriptEndDetach \/ P!IdeDiscards
  BY <1>2, <1>c DEF P!ScriptEnd, P!ScriptEndDetach, P!IdeDiscards
<1>3. CASE P!FbEnable
  <2>1. CASE enablePic
    BY <1>3, <1>c, <2>1 DEF P!FbEnable
  <2>2. CASE ~enablePic
    BY <1>3, <1>k, <2>2 DEF P!FbEnable
  <2> QED
    BY <2>1, <2>2
<1>4. CASE P!FrameSize
  <2>1. UNCHANGED <<heap, sending, previewTask>> /\ told' = shown'.data
    BY <1>4 DEF P!FrameSize
  <2>2. CASE P!TakesFrame
    <3>1. shown' = [data |-> fb, owned |-> TRUE] /\ fb' = P!None /\ shown.data = P!None /\ fb # P!None
      BY <1>4, <2>2 DEF P!FrameSize, P!TakesFrame
    <3>2. Once
      BY <1>i, <1>o, <1>t, <2>1, <3>1 DEF Once
    <3> QED
      BY <1>h, <1>i, <1>n, <2>1, <3>2 DEF P!DumpIsAnnounced, Dumping
  <2>3. CASE ~P!TakesFrame
    <3>1. shown' = shown /\ fb' = fb
      BY <1>4, <2>3 DEF P!FrameSize
    <3>2. Once
      BY <1>i, <2>1, <3>1 DEF Once
    <3> QED
      BY <1>h, <1>i, <1>n, <2>1, <3>2 DEF P!DumpIsAnnounced, Dumping
  <2> QED
    BY <2>2, <2>3
<1>5. CASE P!FrameDump
  <2>1. sending = P!NoPicture /\ sending' = shown /\ shown' = P!NoPicture /\ told' = P!None /\ previewTask' = "dump"
        /\ UNCHANGED <<heap, fb>>
    BY <1>5, <1>i DEF P!FrameDump, Dumping
  <2>2. Once
    BY <1>i, <1>o, <2>1 DEF Once
  <2> QED
    BY <1>h, <1>n, <2>1, <2>2 DEF P!DumpIsAnnounced, Dumping
<1>6. CASE P!FrameSent
  <2>1. heap' = heap \ P!Owned(sending) /\ sending' = P!NoPicture /\ UNCHANGED <<fb, shown, told>>
    BY <1>6 DEF P!FrameSent
  <2>2. Once
    BY <1>i, <1>o, <2>1 DEF Once
  <2> QED
    BY <1>h, <1>i, <1>n, <2>1, <2>2 DEF P!DumpIsAnnounced, Dumping
<1>7. CASE P!Captured
  <2>1. previewTask = "captured" /\ UNCHANGED <<heap, fb, sending>>
    BY <1>7 DEF P!Captured
  <2>2. CASE shown.data = P!None /\ from = "WBC"
    <3>1. shown' = [data |-> P!Snapshot, owned |-> FALSE] /\ told' = P!Snapshot
      BY <1>7, <2>2 DEF P!Captured
    <3>2. Once
      BY <1>i, <1>o, <2>1, <2>2, <3>1 DEF Once
    <3> QED
      BY <1>h, <1>i, <1>n, <2>1, <3>1, <3>2 DEF P!DumpIsAnnounced, Dumping
  <2>3. CASE ~(shown.data = P!None /\ from = "WBC")
    <3>1. shown' = shown /\ told' = P!None
      BY <1>7, <2>3 DEF P!Captured
    <3> QED
      BY <1>k, <2>1, <3>1
  <2> QED
    BY <2>2, <2>3
<1>8. CASE \/ P!WbcStop \/ P!WbcSource \/ P!WbcEnable \/ P!FrameSizeZero \/ P!FrameSizeCaptures
           \/ P!EncoderInit \/ P!EncoderInitFails
  BY <1>8, <1>k
     DEF P!WbcStop, P!WbcSource, P!WbcEnable, P!FrameSizeZero, P!FrameSizeCaptures, P!EncoderInit,
     P!EncoderInitFails, P!slot
<1>9. CASE P!EncodeBegins \/ P!GrabFrame \/ P!EncoderInitUndo \/ P!SendFrame \/ P!TakeStream
  BY <1>9, <1>k DEF P!EncodeBegins, P!GrabFrame, P!EncoderInitUndo, P!SendFrame, P!TakeStream, P!Fail
<1>10. CASE P!EncodeCleans
  <2>1. told' \in {told, P!None}
    BY <1>10 DEF P!EncodeCleans, P!Fail
  <2> QED
    BY <1>10, <1>k, <2>1 DEF P!EncodeCleans
<1>11. CASE UNCHANGED P!vars
  BY <1>11, <1>k DEF P!vars, P!slot
<1> QED
  BY <1>1, <1>2, <1>3, <1>4, <1>5, <1>6, <1>7, <1>8, <1>9, <1>10, <1>11 DEF P!Next, P!Program, P!Command, P!Encode

\* and the encoder whole.
LEMMA WbcStep ==
  ASSUME PreviewInv, [P!Next]_P!vars
  PROVE  P!EncoderSound' /\ Recorded' /\ Capturing'
<1>i. /\ P!TypeOK /\ P!EncoderReady /\ P!ReleasedInOrder /\ P!InitStartsClean /\ P!FrameHeldWhileRead /\ Recorded
      /\ Capturing
  BY DEF PreviewInv, P!EncoderSound
<1>t. /\ record \subseteq P!Stages /\ held \subseteq P!Stages /\ venc \in {"idle", "reading", "late"}
      /\ encoderInited \in BOOLEAN /\ frameHeld \in BOOLEAN
      /\ previewTask \in {"idle", "capture", "clean", "grab", "init", "undo", "send", "take", "captured", "dump"}
  BY <1>i DEF P!TypeOK
<1> DEFINE Kept == P!ReleasedInOrder' /\ Recorded'
           Placed == P!EncoderReady' /\ P!InitStartsClean' /\ P!FrameHeldWhileRead' /\ Capturing'
<1>n. Kept /\ Placed => P!EncoderSound' /\ Recorded' /\ Capturing'
  BY DEF P!EncoderSound
<1>k. ASSUME UNCHANGED <<record, held>>
      PROVE  Kept
  BY <1>i, <1>k DEF P!ReleasedInOrder, Recorded
<1>c. ASSUME P!Cleanup, venc # "reading"
      PROVE  Kept /\ venc' \in {"idle", "late"}
  BY <1>c, <1>i, PreviewCleanup DEF P!Cleanup
<1> HIDE DEF Kept
<1> DEFINE Outside == {"idle", "capture", "captured", "dump"}
<1>1. CASE UNCHANGED P!encoder /\ previewTask \in Outside /\ previewTask' \in Outside
  BY <1>1, <1>i, <1>k, <1>n
     DEF P!encoder, P!EncoderReady, P!InitStartsClean, P!FrameHeldWhileRead, Capturing, P!Encoding
<1>2. CASE UNCHANGED P!encoder /\ previewTask' = previewTask
  BY <1>2, <1>i, <1>k, <1>n
     DEF P!encoder, P!EncoderReady, P!InitStartsClean, P!FrameHeldWhileRead, Capturing, P!Encoding
<1>3. CASE P!SetFb \/ P!ScriptEnd \/ P!ScriptEndDetach \/ P!WbcSource \/ P!IdeDiscards \/ P!FbEnable
           \/ P!FrameSizeZero \/ P!FrameSize
  BY <1>2, <1>3 DEF P!SetFb, P!ScriptEnd, P!ScriptEndDetach, P!WbcSource, P!IdeDiscards, P!FbEnable,
    P!FrameSizeZero, P!FrameSize
<1>4. CASE P!FrameSizeCaptures \/ P!FrameDump \/ P!FrameSent \/ P!Captured
  BY <1>1, <1>4 DEF P!FrameSizeCaptures, P!FrameDump, P!FrameSent, P!Captured
<1>5. CASE P!WbcStop
  <2>1. previewTask' = previewTask /\ previewTask \in Outside /\ encoderInited' = FALSE /\ frameHeld' = FALSE
        /\ venc # "reading"
    BY <1>5, <1>i, <1>t DEF P!WbcStop, P!Encoding, Capturing
  <2>2. Kept /\ venc' \in {"idle", "late"}
    BY <1>5, <1>c, <2>1 DEF P!WbcStop
  <2> QED
    BY <1>n, <2>1, <2>2 DEF P!EncoderReady, P!InitStartsClean, P!FrameHeldWhileRead, Capturing, P!Encoding
<1>6. CASE P!WbcEnable
  <2>1. UNCHANGED <<previewTask, encoderInited, record, held, frameHeld, venc>>
    BY <1>6 DEF P!WbcEnable, P!slot
  <2> QED
    BY <1>i, <1>k, <1>n, <2>1 DEF P!EncoderReady, P!InitStartsClean, P!FrameHeldWhileRead, Capturing, P!Encoding
<1>7. CASE P!EncodeBegins
  <2>1. previewTask = "capture" /\ previewTask' \in {"grab", "clean", "idle"}
        /\ (previewTask' = "grab" => encoderInited) /\ (previewTask' = "clean" => ~encoderInited)
        /\ UNCHANGED <<encoderInited, record, held, frameHeld, venc>>
    BY <1>7 DEF P!EncodeBegins, P!Fail, P!encoder
  <2> QED
    BY <1>i, <1>k, <1>n, <2>1 DEF P!EncoderReady, P!InitStartsClean, P!FrameHeldWhileRead, Capturing, P!Encoding
<1>8. CASE P!EncodeCleans
  <2>1. PICK k \in P!Attempts : /\ P!CleanupTo(k)
                                /\ IF k > Len(P!Release) THEN previewTask' = "grab" /\ UNCHANGED told ELSE P!Fail
    BY <1>8 DEF P!EncodeCleans
  <2>2. previewTask = "clean" /\ ~encoderInited /\ venc # "reading" /\ frameHeld' = FALSE
        /\ encoderInited' = encoderInited
    BY <1>8, <1>i DEF P!EncodeCleans, Capturing
  <2>3. /\ Kept /\ venc' \in {"idle", "late"}
        /\ k > Len(P!Release) => record' = {}
    BY <1>i, <2>1, <2>2, PreviewCleanup DEF Kept
  <2>4. previewTask' \in {"grab", "idle"} /\ (previewTask' = "grab" => record' = {})
    BY <2>1, <2>3 DEF P!Fail
  <2> QED
    BY <1>n, <2>2, <2>3, <2>4 DEF P!EncoderReady, P!InitStartsClean, P!FrameHeldWhileRead, Capturing, P!Encoding
<1>9. CASE P!GrabFrame
  <2>1. /\ previewTask = "grab" /\ previewTask' \in {"send", "init", "idle"}
        /\ previewTask' = "send" => encoderInited
        /\ previewTask' = "init" => ~encoderInited
        /\ previewTask' # "idle" => frameHeld'
        /\ previewTask' = "idle" => frameHeld' = frameHeld
        /\ UNCHANGED <<encoderInited, record, held, venc>>
    BY <1>9 DEF P!GrabFrame, P!Fail
  <2>2. Kept /\ P!EncoderReady' /\ P!InitStartsClean'
    BY <1>i, <1>k, <2>1 DEF P!EncoderReady, P!InitStartsClean, Capturing
  <2>3. P!FrameHeldWhileRead' /\ Capturing'
    BY <1>i, <2>1 DEF P!FrameHeldWhileRead, Capturing, P!Encoding
  <2> QED
    BY <1>n, <2>2, <2>3
<1>10. CASE P!EncoderInit
  <2>1. /\ previewTask = "init" /\ previewTask' = "send" /\ record' = record \cup P!Stages
        /\ held' = held \cup P!Stages /\ encoderInited'
        /\ UNCHANGED <<frameHeld, venc>>
    BY <1>10 DEF P!EncoderInit
  <2>2. record' = P!Stages /\ held' = P!Stages
    BY <1>t, <2>1
  <2>3. Kept
    <3>1. \A s : P!Needs(s) \subseteq P!Stages
      BY StageSet DEF P!Needs
    <3> QED
      BY <2>2, <3>1 DEF Kept, P!ReleasedInOrder, Recorded
  <2> QED
    BY <1>i, <1>n, <2>1, <2>2, <2>3 DEF P!EncoderReady, P!InitStartsClean, P!FrameHeldWhileRead, Capturing,
      P!Encoding
<1>11. CASE P!EncoderInitFails
  <2>1. PICK n \in (0 .. Len(P!Acquire) - 1) \ {4} :
          record' = {P!Acquire[i] : i \in 1 .. n} /\ held' = held \cup record'
    BY <1>11 DEF P!EncoderInitFails
  <2>2. previewTask = "init" /\ previewTask' = "undo" /\ record = {} /\ held \subseteq {"fd"}
        /\ UNCHANGED <<encoderInited, frameHeld, venc>>
    BY <1>11, <1>i DEF P!EncoderInitFails, P!InitStartsClean, Recorded
  <2>3. /\ Len(P!Acquire) = 8 /\ P!Acquire[1] = "fd" /\ P!Acquire[2] = "chn" /\ P!Acquire[3] = "pool"
        /\ P!Acquire[4] = "block"
        /\ P!Acquire[5] = "map" /\ P!Acquire[6] = "attached" /\ P!Acquire[7] = "created" /\ P!Acquire[8] = "started"
    BY DEF P!Acquire
  <2>4. \A i \in 1 .. 8 : i \in {1, 2, 3, 4, 5, 6, 7, 8}
    OBVIOUS
  <2>5. /\ \A s \in record' : s \in {"fd", "chn", "pool", "block", "map", "attached", "created"}
        /\ "chn" \in record' => "fd" \in record'
        /\ "block" \in record' => "pool" \in record'
        /\ "map" \in record' => "block" \in record'
        /\ "attached" \in record' => "chn" \in record' /\ "pool" \in record'
        /\ "created" \in record' => "chn" \in record'
    <3>1. \A s \in record' : s \in {"fd", "chn", "pool", "block", "map", "attached", "created"}
      BY <2>1, <2>3, <2>4
    <3>2. "chn" \in record' => "fd" \in record'
      BY <2>1, <2>3, <2>4
    <3>3. ("block" \in record' => "pool" \in record') /\ ("map" \in record' => "block" \in record')
      BY <2>1, <2>3, <2>4
    <3>4. "attached" \in record' => "chn" \in record' /\ "pool" \in record'
      BY <2>1, <2>3, <2>4
    <3>5. "created" \in record' => "chn" \in record'
      BY <2>1, <2>3, <2>4
    <3> QED
      BY <3>1, <3>2, <3>3, <3>4, <3>5
  <2>6. Kept
    <3>1. \A s \in held' : s \in record' \/ s = "fd"
      BY <2>1, <2>2
    <3>2. P!ReleasedInOrder'
      BY <2>1, <2>5, <3>1, ZenonT(60) DEF P!ReleasedInOrder, P!Needs
    <3>3. Recorded'
      BY <2>1, <3>1 DEF Recorded
    <3> QED
      BY <3>2, <3>3 DEF Kept
  <2> QED
    BY <1>i, <1>n, <2>2, <2>6 DEF P!EncoderReady, P!InitStartsClean, P!FrameHeldWhileRead, Capturing, P!Encoding
<1>12. CASE P!EncoderInitUndo
  <2>1. previewTask = "undo" /\ previewTask' = "idle" /\ ~encoderInited /\ venc # "reading" /\ frameHeld' = FALSE
        /\ encoderInited' = encoderInited
    BY <1>12, <1>i DEF P!EncoderInitUndo, P!Fail, Capturing
  <2>2. Kept /\ venc' \in {"idle", "late"}
    BY <1>12, <1>c, <2>1 DEF P!EncoderInitUndo
  <2> QED
    BY <1>n, <2>1, <2>2 DEF P!EncoderReady, P!InitStartsClean, P!FrameHeldWhileRead, Capturing, P!Encoding
<1>13. CASE P!SendFrame
  <2>1. /\ previewTask = "send" /\ previewTask' \in {"take", "idle"}
        /\ previewTask' = "take" => frameHeld' = frameHeld
        /\ previewTask' = "idle" => frameHeld' = FALSE /\ venc' = venc
        /\ UNCHANGED <<encoderInited, record, held>>
    BY <1>13 DEF P!SendFrame, P!Fail
  <2>2. Kept /\ P!EncoderReady' /\ P!InitStartsClean'
    BY <1>i, <1>k, <2>1 DEF P!EncoderReady, P!InitStartsClean
  <2>3. frameHeld /\ venc # "reading"
    BY <1>i, <2>1 DEF Capturing
  <2>4. P!FrameHeldWhileRead' /\ Capturing'
    BY <2>1, <2>3 DEF P!FrameHeldWhileRead, Capturing, P!Encoding
  <2> QED
    BY <1>n, <2>2, <2>4
<1>14. CASE P!TakeStream
  <2>1. /\ previewTask = "take" /\ previewTask' \in {"captured", "idle"} /\ frameHeld' = FALSE
        /\ venc' \in {"idle", "late"}
        /\ UNCHANGED <<encoderInited, record, held>>
    BY <1>14 DEF P!TakeStream, P!Fail, P!EncoderDone
  <2> QED
    BY <1>i, <1>k, <1>n, <2>1 DEF P!EncoderReady, P!InitStartsClean, P!FrameHeldWhileRead, Capturing, P!Encoding
<1>15. CASE UNCHANGED P!vars
  BY <1>2, <1>15 DEF P!vars
<1> QED
  BY <1>3, <1>4, <1>5, <1>6, <1>7, <1>8, <1>9, <1>10, <1>11, <1>12, <1>13, <1>14, <1>15
     DEF P!Next, P!Program, P!Command, P!Encode

\* Nothing is shown and nothing is held when a session starts.
LEMMA PreviewInitially == P!Init => PreviewInv
<1> SUFFICES ASSUME P!Init PROVE PreviewInv
  OBVIOUS
<1>1. P!TypeOK
  BY DEF P!Init, P!TypeOK, P!Picture, P!NoPicture
<1>2. P!FrameHandover /\ Dumping
  BY DEF P!Init, P!FrameHandover, P!BlocksOwnedOnce, P!DumpIsAnnounced, Dumping, P!NoPicture, P!Owned
<1>3. P!EncoderSound /\ Recorded /\ Capturing
  BY DEF P!Init, P!EncoderSound, P!EncoderReady, P!ReleasedInOrder, P!InitStartsClean, P!FrameHeldWhileRead,
    Recorded, Capturing
<1> QED
  BY <1>1, <1>2, <1>3 DEF PreviewInv

\* The strengthening is inductive,
LEMMA PreviewInductive == PreviewInv /\ [P!Next]_P!vars => PreviewInv'
BY PreviewTypeStep, HandoverStep, WbcStep DEF PreviewInv

\* and holds in every state, for every set of blocks.
THEOREM PreviewInvariant == P!Spec => []PreviewInv
BY PreviewInitially, PreviewInductive, PTL DEF P!Spec

\* A frame is handed from the program to the host once, and as it was announced.
THEOREM FrameIsHandedOver == P!Spec => []FrameHandover
<1>1. PreviewInv => FrameHandover
  BY DEF PreviewInv, FrameHandover
<1> QED
  BY <1>1, PreviewInvariant, PTL

\* The preview encoder is set up, used and taken down as a whole and in order, whichever call fails.
THEOREM PreviewEncoderIsSound == P!Spec => []EncoderSound
<1>1. PreviewInv => EncoderSound
  BY DEF PreviewInv, EncoderSound
<1> QED
  BY <1>1, PreviewInvariant, PTL

\* The types of the preview.
THEOREM PreviewTypes == P!Spec => []P!TypeOK
<1>1. PreviewInv => P!TypeOK
  BY DEF PreviewInv
<1> QED
  BY <1>1, PreviewInvariant, PTL

-----------------------------------------------------------------------------
(***************************************************************************)
(* StdoutRing: a ring that several threads print into and drain            *)
(***************************************************************************)

\* One thread at a time has tx_drain_mutex, and what it is writing is the beginning of what can be read.
OneDrain == \A t, u \in R!Threads : drain[t].on /\ drain[u].on => t = u
WritesOldest == ~torn => \A t \in R!Threads : drain[t].on => drain[t].start = r /\ drain[t].len <= R!Readable

StdoutInv == R!TypeOK /\ R!RingHoldsPending /\ OneDrain /\ WritesOldest

DrainRecords == [on : BOOLEAN, start : R!Cells, len : 0 .. StdoutSize - 1, full : BOOLEAN, odd : BOOLEAN]

(* A cell, some cells further on.                                          *)
LEMMA Wraps ==
  ASSUME NEW a \in R!Cells, NEW n \in 0 .. StdoutSize - 1
  PROVE  /\ (a + n) % StdoutSize \in R!Cells
         /\ a + n < StdoutSize => (a + n) % StdoutSize = a + n
         /\ a + n >= StdoutSize => (a + n) % StdoutSize = a + n - StdoutSize
<1>1. StdoutSize \in Nat /\ StdoutSize > 0 /\ a \in Nat /\ n \in Nat /\ a < StdoutSize /\ n < StdoutSize
  BY StdoutAssumption DEF R!Cells
<1>2. ASSUME NEW b \in Nat, b < StdoutSize
      PROVE  b % StdoutSize = b
  BY <1>1, <1>2
<1>3. ASSUME NEW b \in Nat, StdoutSize <= b, b < 2 * StdoutSize
      PROVE  b % StdoutSize = b - StdoutSize
  BY <1>1, <1>3
<1>4. a + n < StdoutSize => (a + n) % StdoutSize = a + n
  BY <1>1, <1>2
<1>5. a + n >= StdoutSize => (a + n) % StdoutSize = a + n - StdoutSize
  BY <1>1, <1>3
<1>6. (a + n) % StdoutSize \in R!Cells
  BY <1>1, <1>4, <1>5 DEF R!Cells
<1> QED
  BY <1>4, <1>5, <1>6

(* The distance from one cell to another.                                  *)
LEMMA Distances ==
  ASSUME NEW a \in R!Cells, NEW b \in R!Cells
  PROVE  /\ (b + StdoutSize - a) % StdoutSize \in 0 .. StdoutSize - 1
         /\ b >= a => (b + StdoutSize - a) % StdoutSize = b - a
         /\ b < a => (b + StdoutSize - a) % StdoutSize = b + StdoutSize - a
<1>1. StdoutSize \in Nat /\ StdoutSize > 0 /\ a \in Nat /\ b \in Nat /\ a < StdoutSize /\ b < StdoutSize
  BY StdoutAssumption DEF R!Cells
<1>2. ASSUME NEW c \in Nat, c < StdoutSize
      PROVE  c % StdoutSize = c
  BY <1>1, <1>2
<1>3. ASSUME NEW c \in Nat, StdoutSize <= c, c < 2 * StdoutSize
      PROVE  c % StdoutSize = c - StdoutSize
  BY <1>1, <1>3
<1>4. CASE b >= a
  BY <1>1, <1>3, <1>4
<1>5. CASE b < a
  BY <1>1, <1>2, <1>5
<1> QED
  BY <1>1, <1>4, <1>5

\* Going the distance from one cell leads to the other, and the distance gone is the distance.
LEMMA ThereAndBack ==
  ASSUME NEW a \in R!Cells
  PROVE  /\ \A n \in 0 .. StdoutSize - 1 : (((a + n) % StdoutSize) + StdoutSize - a) % StdoutSize = n
         /\ \A b \in R!Cells : (a + ((b + StdoutSize - a) % StdoutSize)) % StdoutSize = b
<1>1. StdoutSize \in Nat /\ StdoutSize > 0 /\ a \in Nat /\ a < StdoutSize
  BY StdoutAssumption DEF R!Cells
<1>2. ASSUME NEW n \in 0 .. StdoutSize - 1
      PROVE  (((a + n) % StdoutSize) + StdoutSize - a) % StdoutSize = n
  <2> DEFINE b == (a + n) % StdoutSize
  <2>1. b \in R!Cells /\ (a + n < StdoutSize => b = a + n) /\ (a + n >= StdoutSize => b = a + n - StdoutSize)
    BY Wraps
  <2> HIDE DEF b
  <2>2. (b >= a => (b + StdoutSize - a) % StdoutSize = b - a)
        /\ (b < a => (b + StdoutSize - a) % StdoutSize = b + StdoutSize - a)
    BY <2>1, Distances
  <2>3. (b + StdoutSize - a) % StdoutSize = n
    BY <1>1, <2>1, <2>2 DEF R!Cells
  <2> QED
    BY <2>3 DEF b
<1>3. ASSUME NEW b \in R!Cells
      PROVE  (a + ((b + StdoutSize - a) % StdoutSize)) % StdoutSize = b
  <2> DEFINE n == (b + StdoutSize - a) % StdoutSize
  <2>1. n \in 0 .. StdoutSize - 1 /\ (b >= a => n = b - a) /\ (b < a => n = b + StdoutSize - a)
    BY Distances
  <2> HIDE DEF n
  <2>2. (a + n < StdoutSize => (a + n) % StdoutSize = a + n)
        /\ (a + n >= StdoutSize => (a + n) % StdoutSize = a + n - StdoutSize)
    BY <2>1, Wraps
  <2>3. (a + n) % StdoutSize = b
    BY <1>1, <2>1, <2>2 DEF R!Cells
  <2> QED
    BY <2>3 DEF n
<1> QED
  BY <1>2, <1>3

(* Spans: one is continued by another, and a beginning is taken off it.    *)
LEMMA Spans ==
  ASSUME NEW a \in R!Cells, NEW m \in 0 .. StdoutSize - 1, NEW n \in 0 .. m
  PROVE  /\ R!Span(a, m) \subseteq R!Cells
         /\ R!Span(a, n) \cup R!Span((a + n) % StdoutSize, m - n) = R!Span(a, m)
         /\ R!Span(a, m) \ R!Span(a, n) = R!Span((a + n) % StdoutSize, m - n)
<1>1. StdoutSize \in Nat /\ StdoutSize > 0 /\ a \in Nat /\ a < StdoutSize /\ m \in Nat /\ n \in Nat /\ n <= m
      /\ m < StdoutSize
  BY StdoutAssumption DEF R!Cells
<1> DEFINE At(i) == (a + i) % StdoutSize
<1>2. \A i \in 0 .. StdoutSize - 1 : /\ At(i) \in R!Cells
                                     /\ a + i < StdoutSize => At(i) = a + i
                                     /\ a + i >= StdoutSize => At(i) = a + i - StdoutSize
  BY Wraps
<1>3. \A i, j \in 0 .. StdoutSize - 1 : At(i) = At(j) => i = j
  <2> HIDE DEF At
  <2> QED
    BY <1>1, <1>2
<1> DEFINE b == At(n)
<1>4. b \in R!Cells
  <2>1. n \in 0 .. StdoutSize - 1
    BY <1>1
  <2> HIDE DEF At
  <2> QED
    BY <1>2, <2>1
<1>5. \A i \in 0 .. m - n - 1 : (b + i) % StdoutSize = At(n + i)
  <2> SUFFICES ASSUME NEW i \in 0 .. m - n - 1
               PROVE  (b + i) % StdoutSize = At(n + i)
    OBVIOUS
  <2>1. i \in 0 .. StdoutSize - 1 /\ n + i \in 0 .. StdoutSize - 1 /\ n \in 0 .. StdoutSize - 1
    BY <1>1
  <2>2. (b + i < StdoutSize => (b + i) % StdoutSize = b + i)
        /\ (b + i >= StdoutSize => (b + i) % StdoutSize = b + i - StdoutSize)
    BY <1>4, <2>1, Wraps
  <2>3. (a + n < StdoutSize => b = a + n) /\ (a + n >= StdoutSize => b = a + n - StdoutSize)
    BY <1>2, <2>1
  <2>4. (a + (n + i) < StdoutSize => At(n + i) = a + (n + i))
        /\ (a + (n + i) >= StdoutSize => At(n + i) = a + (n + i) - StdoutSize)
    BY <1>2, <2>1
  <2> HIDE DEF At, b
  <2> QED
    BY <1>1, <2>1, <2>2, <2>3, <2>4
<1>6. /\ R!Span(a, m) = {At(i) : i \in 0 .. m - 1}
      /\ R!Span(a, n) = {At(i) : i \in 0 .. n - 1}
  BY DEF R!Span
<1>7. R!Span(b, m - n) = {At(i) : i \in n .. m - 1}
  <2>1. R!Span(b, m - n) = {(b + i) % StdoutSize : i \in 0 .. m - n - 1}
    BY DEF R!Span
  <2>2. \A i \in n .. m - 1 : i - n \in 0 .. m - n - 1 /\ n + (i - n) = i
    BY <1>1
  <2>3. \A i \in 0 .. m - n - 1 : n + i \in n .. m - 1
    BY <1>1
  <2> HIDE DEF At, b
  <2>4. \A c \in R!Span(b, m - n) : c \in {At(i) : i \in n .. m - 1}
    BY <1>5, <2>1, <2>3
  <2>5. \A i \in n .. m - 1 : At(i) \in R!Span(b, m - n)
    BY <1>5, <2>1, <2>2
  <2> QED
    BY <2>4, <2>5
<1> HIDE DEF At, b
<1>8. R!Span(a, m) \subseteq R!Cells
  BY <1>1, <1>2, <1>6
<1>9. R!Span(a, n) \cup R!Span(b, m - n) = R!Span(a, m)
  BY <1>1, <1>6, <1>7
<1>10. R!Span(a, m) \ R!Span(a, n) = R!Span(b, m - n)
  <2>1. \A i \in n .. m - 1, j \in 0 .. n - 1 : At(i) # At(j)
    <3>1. \A i \in n .. m - 1, j \in 0 .. n - 1 : i \in 0 .. StdoutSize - 1 /\ j \in 0 .. StdoutSize - 1 /\ i # j
      BY <1>1
    <3> QED
      BY <1>3, <3>1
  <2> QED
    BY <1>6, <1>7, <1>9, <2>1
<1> QED
  BY <1>8, <1>9, <1>10 DEF b, At

\* Two distances in a row.
LEMMA Further ==
  ASSUME NEW a \in R!Cells, NEW k \in 0 .. StdoutSize - 1, NEW n \in 0 .. StdoutSize - 1 - k
  PROVE  (((a + k) % StdoutSize) + n) % StdoutSize = (a + (k + n)) % StdoutSize
<1>1. StdoutSize \in Nat /\ StdoutSize > 0 /\ a \in Nat /\ a < StdoutSize /\ k \in Nat /\ n \in Nat
      /\ k + n < StdoutSize
  BY StdoutAssumption DEF R!Cells
<1>2. n \in 0 .. StdoutSize - 1 /\ k + n \in 0 .. StdoutSize - 1
  BY <1>1
<1> DEFINE b == (a + k) % StdoutSize
<1>3. b \in R!Cells /\ (a + k < StdoutSize => b = a + k) /\ (a + k >= StdoutSize => b = a + k - StdoutSize)
  BY Wraps
<1>4. (b + n < StdoutSize => (b + n) % StdoutSize = b + n)
      /\ (b + n >= StdoutSize => (b + n) % StdoutSize = b + n - StdoutSize)
  BY <1>2, <1>3, Wraps
<1>5. /\ a + (k + n) < StdoutSize => (a + (k + n)) % StdoutSize = a + (k + n)
      /\ a + (k + n) >= StdoutSize => (a + (k + n)) % StdoutSize = a + (k + n) - StdoutSize
  BY <1>2, Wraps
<1> HIDE DEF b
<1>6. (b + n) % StdoutSize = (a + (k + n)) % StdoutSize
  BY <1>1, <1>2, <1>3, <1>4, <1>5
<1> QED
  BY <1>6 DEF b

\* What the threads share
RingInv ==
  /\ r \in R!Cells /\ w \in R!Cells /\ pending \subseteq R!Cells /\ torn \in BOOLEAN
  /\ drain \in [R!Threads -> DrainRecords]
  /\ R!RingHoldsPending /\ OneDrain /\ WritesOldest

\* What is there to be read.
LEMMA Reading ==
  ASSUME RingInv
  PROVE  R!Readable \in 0 .. StdoutSize - 1 /\ (r + R!Readable) % StdoutSize = w
BY Distances, ThereAndBack DEF RingInv, R!Readable

\* A byte that is printed, into a ring with room or over the oldest one,
LEMMA TxRing ==
  ASSUME RingInv, R!Tx, UNCHANGED drain
  PROVE  RingInv'
<1>i. /\ r \in R!Cells /\ w \in R!Cells /\ pending \subseteq R!Cells /\ torn \in BOOLEAN
      /\ drain \in [R!Threads -> DrainRecords]
      /\ R!RingHoldsPending /\ OneDrain /\ WritesOldest
      /\ R!Readable \in 0 .. StdoutSize - 1 /\ (r + R!Readable) % StdoutSize = w
  BY Reading DEF RingInv
<1>s. StdoutSize \in Nat \ {0} /\ MaxPrint \in Nat
  BY StdoutAssumption
<1>1. PICK n \in 1 .. MaxPrint :
        /\ IF n > R!Writable
           THEN UNCHANGED <<w, pending>>
           ELSE w' = (w + n) % StdoutSize /\ pending' = pending \cup R!Span(w, n)
        /\ UNCHANGED <<r, torn>>
  BY DEF R!Tx
<1>2. CASE n > R!Writable
  <2>1. UNCHANGED <<r, w, pending, torn, drain>>
    BY <1>1, <1>2
  <2> QED
    BY <1>i, <2>1 DEF RingInv, R!RingHoldsPending, OneDrain, WritesOldest, R!Readable
<1>3. CASE ~(n > R!Writable)
  <2>1. w' = (w + n) % StdoutSize /\ pending' = pending \cup R!Span(w, n) /\ UNCHANGED <<r, torn>>
    BY <1>1, <1>3
  <2>2. n <= StdoutSize - 1 - R!Readable
    BY <1>3, <1>i, <1>s DEF R!Writable
  <2> DEFINE m == R!Readable + n
  <2>3. n \in Nat /\ m \in 0 .. StdoutSize - 1 /\ R!Readable \in 0 .. m /\ n \in 0 .. StdoutSize - 1 - R!Readable
        /\ m - R!Readable = n
        /\ n \in 0 .. StdoutSize - 1 /\ m >= R!Readable
    BY <1>i, <1>s, <2>2
  <2>4. w' = (r + m) % StdoutSize
    BY <1>i, <2>1, <2>3, Further
  <2>5. w' \in R!Cells
    BY <1>i, <2>3, <2>4, Wraps
  <2>6. R!Readable' = m
    <3>1. R!Readable' = (w' + StdoutSize - r) % StdoutSize
      BY <2>1 DEF R!Readable
    <3> HIDE DEF m
    <3> QED
      BY <1>i, <2>3, <2>4, <3>1, ThereAndBack
  <2>7. R!Span(r, m) \subseteq R!Cells /\ R!Span(r, R!Readable) \cup R!Span(w, n) = R!Span(r, m)
    <3> HIDE DEF m
    <3> QED
      BY <1>i, <2>3, Spans
  <2>8. R!Span(w, n) \subseteq R!Cells
    BY <2>7
  <2>9. R!RingHoldsPending'
    BY <1>i, <2>1, <2>6, <2>7 DEF R!RingHoldsPending, R!Span
  <2>10. WritesOldest'
    <3> SUFFICES ASSUME ~torn', NEW t \in R!Threads, drain'[t].on
                 PROVE  drain'[t].start = r' /\ drain'[t].len <= R!Readable'
      BY DEF WritesOldest
    <3>1. drain[t].start = r /\ drain[t].len <= R!Readable /\ drain[t].len \in 0 .. StdoutSize - 1
      BY <1>i, <2>1 DEF WritesOldest, DrainRecords
    <3> QED
      BY <1>i, <1>s, <2>1, <2>3, <2>6, <3>1
  <2> QED
    BY <1>i, <2>1, <2>5, <2>8, <2>9, <2>10 DEF RingInv, OneDrain
<1> QED
  BY <1>2, <1>3

\* a clear,
LEMMA ClearRing ==
  ASSUME RingInv, R!Clear, UNCHANGED drain
  PROVE  RingInv'
<1>1. r' = 0 /\ w' = 0 /\ pending' = {} /\ torn' = ~R!NobodyDrains
  BY DEF R!Clear
<1>2. 0 \in R!Cells /\ StdoutSize \in Nat \ {0}
  BY StdoutAssumption DEF R!Cells
<1>3. R!Readable' = 0
  BY <1>1, <1>2, Distances DEF R!Readable
<1>4. R!Span(0, 0) = {}
  BY DEF R!Span
<1>5. R!RingHoldsPending'
  BY <1>1, <1>3, <1>4 DEF R!RingHoldsPending, R!Span
<1>6. OneDrain' /\ WritesOldest'
  BY <1>1 DEF RingInv, OneDrain, WritesOldest, R!NobodyDrains
<1>7. torn' \in BOOLEAN
  BY <1>1
<1> QED
  BY <1>1, <1>2, <1>5, <1>6, <1>7 DEF RingInv

\* the beginning of a drain, which copies a part of what can be read,
LEMMA CopyRing ==
  ASSUME RingInv, R!NobodyDrains, NEW t \in R!Threads, NEW n \in 0 .. R!Readable, NEW isFull \in BOOLEAN,
         R!Copy(t, r, n, isFull), UNCHANGED <<r, w, pending, torn>>
  PROVE  RingInv'
<1>i. /\ r \in R!Cells /\ w \in R!Cells /\ pending \subseteq R!Cells /\ torn \in BOOLEAN
      /\ drain \in [R!Threads -> DrainRecords]
      /\ R!RingHoldsPending /\ R!Readable \in 0 .. StdoutSize - 1
  BY Reading DEF RingInv
<1>1. n \in 0 .. StdoutSize - 1 /\ n <= R!Readable
  BY <1>i, StdoutAssumption
<1>2. drain[t].odd \in BOOLEAN
  BY <1>i DEF DrainRecords
<1>3. [on |-> TRUE, start |-> r, len |-> n, full |-> isFull, odd |-> ~drain[t].odd] \in DrainRecords
  BY <1>1, <1>2, <1>i DEF DrainRecords
<1>4. drain' = [drain EXCEPT ![t] = [on |-> TRUE, start |-> r, len |-> n, full |-> isFull, odd |-> ~drain[t].odd]]
  BY DEF R!Copy
<1>5. /\ drain' \in [R!Threads -> DrainRecords]
      /\ drain'[t].start = r /\ drain'[t].len = n
      /\ \A u \in R!Threads \ {t} : ~drain'[u].on
  BY <1>3, <1>4, <1>i DEF R!NobodyDrains
<1>6. OneDrain'
  BY <1>5 DEF OneDrain
<1>7. WritesOldest'
  BY <1>1, <1>5 DEF WritesOldest, R!Readable
<1>8. R!RingHoldsPending'
  BY <1>i DEF R!RingHoldsPending, R!Readable, R!Span
<1> QED
  BY <1>5, <1>6, <1>7, <1>8, <1>i DEF RingInv

\* and its end, which takes that part off unless a writer or a clear has been there in between.
LEMMA EndRing ==
  ASSUME RingInv, NEW t \in R!Threads, R!EndWrite(t)
  PROVE  RingInv'
<1>i. /\ r \in R!Cells /\ w \in R!Cells /\ pending \subseteq R!Cells /\ torn \in BOOLEAN
      /\ drain \in [R!Threads -> DrainRecords]
      /\ R!RingHoldsPending /\ OneDrain /\ WritesOldest
      /\ R!Readable \in 0 .. StdoutSize - 1 /\ (r + R!Readable) % StdoutSize = w
  BY Reading DEF RingInv
<1>s. StdoutSize \in Nat \ {0}
  BY StdoutAssumption
<1> DEFINE d == drain[t]
           next(k) == (d.start + k) % StdoutSize
           left(k) == (w + StdoutSize - next(k)) % StdoutSize
<1>1. d.on /\ UNCHANGED <<w, torn>>
  BY DEF R!EndWrite
<1>2. PICK sent \in 0 .. d.len :
        /\ r' = next(R!Advance(d, sent))
        /\ pending' = pending \ R!Span(d.start, IF d.full THEN sent ELSE d.len)
        /\ IF d.full \/ left(R!Advance(d, sent)) = 0
           THEN drain' = [drain EXCEPT ![t] = R!NoDrain]
           ELSE R!Copy(t, next(R!Advance(d, sent)), left(R!Advance(d, sent)), FALSE)
  BY DEF R!EndWrite
<1> DEFINE n == R!Advance(d, sent)
<1>d. d.start \in R!Cells /\ d.len \in 0 .. StdoutSize - 1 /\ d.odd \in BOOLEAN
  BY <1>i DEF DrainRecords
<1>3. n \in 0 .. d.len /\ n \in 0 .. StdoutSize - 1 /\ pending' = pending \ R!Span(d.start, n)
  BY <1>2, <1>d, <1>s DEF R!Advance
<1> HIDE DEF n
<1> DEFINE b == next(n)
           m == left(n)
<1>4. r' = b /\ b \in R!Cells
  <2>1. r' = b
    BY <1>2 DEF n
  <2> QED
    BY <1>3, <1>d, <2>1, Wraps
<1>5. m \in 0 .. StdoutSize - 1 /\ R!Readable' = m
  <2>1. m = (w + StdoutSize - b) % StdoutSize
    OBVIOUS
  <2>2. R!Readable' = (w + StdoutSize - b) % StdoutSize
    BY <1>1, <1>4 DEF R!Readable
  <2> HIDE DEF b, m
  <2> QED
    BY <1>4, <1>i, <2>1, <2>2, Distances
<1>6. \/ drain' = [drain EXCEPT ![t] = R!NoDrain]
      \/ drain' = [drain EXCEPT ![t] = [on |-> TRUE, start |-> b, len |-> m, full |-> FALSE, odd |-> ~d.odd]]
  <2>1. \/ drain' = [drain EXCEPT ![t] = R!NoDrain]
        \/ R!Copy(t, b, m, FALSE)
    BY <1>2 DEF n
  <2> QED
    BY <2>1 DEF R!Copy
<1> HIDE DEF b, m
<1>7. /\ R!NoDrain \in DrainRecords /\ ~R!NoDrain.on
      /\ [on |-> TRUE, start |-> b, len |-> m, full |-> FALSE, odd |-> ~d.odd] \in DrainRecords
  <2>1. 0 \in R!Cells /\ 0 \in 0 .. StdoutSize - 1
    BY <1>s DEF R!Cells
  <2>2. R!NoDrain \in DrainRecords /\ ~R!NoDrain.on
    BY <2>1 DEF R!NoDrain, DrainRecords
  <2> QED
    BY <1>4, <1>5, <1>d, <2>2 DEF DrainRecords
<1>8. /\ drain' \in [R!Threads -> DrainRecords]
      /\ drain'[t].on => drain'[t].start = b /\ drain'[t].len = m
      /\ \A u \in R!Threads \ {t} : ~drain'[u].on
  <2>1. \A u \in R!Threads \ {t} : ~drain[u].on
    BY <1>1, <1>i DEF OneDrain
  <2>2. CASE drain' = [drain EXCEPT ![t] = R!NoDrain]
    BY <1>7, <1>i, <2>1, <2>2
  <2>3. CASE drain' = [drain EXCEPT ![t] = [on |-> TRUE, start |-> b, len |-> m, full |-> FALSE, odd |-> ~d.odd]]
    BY <1>7, <1>i, <2>1, <2>3
  <2> QED
    BY <1>6, <2>2, <2>3
<1>9. OneDrain'
  BY <1>8 DEF OneDrain
<1>10. WritesOldest'
  <2> SUFFICES ASSUME NEW u \in R!Threads, drain'[u].on
               PROVE  drain'[u].start = r' /\ drain'[u].len <= R!Readable'
    BY DEF WritesOldest
  <2>1. drain'[u].start = b /\ drain'[u].len = m
    BY <1>8
  <2> QED
    BY <1>4, <1>5, <1>s, <2>1
<1>11. R!RingHoldsPending'
  <2> SUFFICES ASSUME ~torn
               PROVE  pending' = R!Span(b, m)
    BY <1>1, <1>4, <1>5 DEF R!RingHoldsPending, R!Span
  <2>1. d.start = r /\ d.len <= R!Readable /\ pending = R!Span(r, R!Readable)
    BY <1>1, <1>i DEF WritesOldest, R!RingHoldsPending
  <2>2. n \in 0 .. R!Readable /\ R!Readable - n \in 0 .. StdoutSize - 1 - n
        /\ R!Readable - n \in 0 .. StdoutSize - 1
        /\ n + (R!Readable - n) = R!Readable
    BY <1>3, <1>d, <1>i, <1>s, <2>1
  <2>3. b = (r + n) % StdoutSize /\ m = (w + StdoutSize - b) % StdoutSize
    BY <2>1 DEF b, m
  <2>4. w = (b + (R!Readable - n)) % StdoutSize
    BY <1>3, <1>i, <2>2, <2>3, Further
  <2>5. m = R!Readable - n
    BY <1>4, <2>2, <2>3, <2>4, ThereAndBack
  <2>6. pending' = R!Span(r, R!Readable) \ R!Span(r, n)
    BY <1>3, <2>1
  <2> QED
    BY <1>i, <2>2, <2>3, <2>5, <2>6, Spans
<1>12. pending' \subseteq R!Cells
  BY <1>3, <1>i
<1> QED
  BY <1>1, <1>4, <1>8, <1>9, <1>10, <1>11, <1>12, <1>i DEF RingInv

\* The states of the threads and of the session
SessionTypes ==
  /\ attached \in BOOLEAN /\ disconnect \in BOOLEAN /\ dtr \in BOOLEAN
  /\ probe \in R!Probe
  /\ py \in {"idle", "dtr", "reset", "probe", "tx", "flush", "drain", "direct", "detach"}
  /\ ringTask \in {"idle", "attach", "flush", "drain", "detach"}
  /\ errors \in 0 .. MaxErrors

\* The two halves of the strengthening: the ring, and the threads and the session around it.
LEMMA TypeParts == R!TypeOK /\ R!RingHoldsPending /\ OneDrain /\ WritesOldest <=> RingInv /\ SessionTypes
BY DEF R!TypeOK, RingInv, SessionTypes, DrainRecords

\* Every step keeps the ring,
LEMMA RingStep ==
  ASSUME RingInv, [R!Next]_R!vars
  PROVE  RingInv'
<1>k. ASSUME UNCHANGED <<r, w, pending, torn, drain>>
      PROVE  RingInv'
  BY <1>k DEF RingInv, R!RingHoldsPending, OneDrain, WritesOldest, R!Readable
<1>b. ASSUME NEW t \in R!Threads, R!BeginRaw(t), UNCHANGED <<r, w, pending, torn>>
      PROVE  RingInv'
  <2>1. CASE R!Readable = 0
    BY <1>b, <1>k, <2>1 DEF R!BeginRaw
  <2>2. CASE R!Readable # 0
    <3>1. R!NobodyDrains /\ R!Copy(t, r, R!Readable, FALSE)
      BY <1>b, <2>2 DEF R!BeginRaw
    <3>2. R!Readable \in 0 .. R!Readable
      BY Reading, StdoutAssumption
    <3> QED
      BY <1>b, <3>1, <3>2, CopyRing
  <2> QED
    BY <2>1, <2>2
<1>1. CASE \/ R!Capture \/ R!ReadDtr \/ R!ProbeEnds \/ R!ProbeRaw \/ R!PrintDirect \/ R!ScriptEnd
           \/ R!Header \/ R!Attach \/ R!RawInput \/ R!SysReset \/ R!Leave \/ R!Plug
  BY <1>1, <1>k
     DEF R!Capture, R!ReadDtr, R!ProbeEnds, R!ProbeRaw, R!PrintDirect, R!ScriptEnd, R!Header, R!Attach, R!RawInput,
     R!SysReset, R!Leave, R!Plug
<1>2. CASE R!ProbeReset \/ R!ScriptEndDetach \/ R!Detach
  BY <1>2, ClearRing DEF R!ProbeReset, R!ScriptEndDetach, R!Detach, R!Detached
<1>3. CASE R!ProbeHolds
  <2>1. CASE probe = "none"
    BY <1>3, <2>1, ClearRing DEF R!ProbeHolds
  <2>2. CASE probe # "none"
    BY <1>3, <1>k, <2>2 DEF R!ProbeHolds, R!KeepRing
  <2> QED
    BY <2>1, <2>2
<1>4. CASE R!PrintToRing \/ R!FileExecError
  BY <1>4, TxRing DEF R!PrintToRing, R!FileExecError
<1>5. CASE R!PrintFlush \/ R!RawFlush
  BY <1>5, <1>b DEF R!PrintFlush, R!RawFlush, R!Threads
<1>6. CASE R!TxBuf
  <2>1. PICK n \in 1 .. R!Readable : R!Copy("ide", r, n, TRUE)
    BY <1>6 DEF R!TxBuf
  <2>2. n \in 0 .. R!Readable /\ "ide" \in R!Threads
    BY Reading, StdoutAssumption DEF R!Threads
  <2>3. R!NobodyDrains /\ UNCHANGED <<r, w, pending, torn>>
    BY <1>6 DEF R!TxBuf
  <2> QED
    BY <2>1, <2>2, <2>3, CopyRing
<1>7. CASE R!PrintDrain \/ R!IdeDrain
  BY <1>7, EndRing DEF R!PrintDrain, R!IdeDrain, R!Threads
<1>8. CASE UNCHANGED R!vars
  BY <1>8, <1>k DEF R!vars
<1> QED
  BY <1>1, <1>2, <1>3, <1>4, <1>5, <1>6, <1>7, <1>8 DEF R!Next, R!Python, R!IdeTask

\* and the states of the threads and of the session.
LEMMA SessionStep ==
  ASSUME SessionTypes, [R!Next]_R!vars
  PROVE  SessionTypes'
<1>1. CASE \/ R!Capture \/ R!ReadDtr \/ R!ProbeReset \/ R!ProbeHolds \/ R!ProbeEnds \/ R!ProbeRaw
           \/ R!PrintToRing \/ R!PrintFlush \/ R!PrintDrain \/ R!PrintDirect \/ R!ScriptEnd \/ R!ScriptEndDetach
  BY <1>1
     DEF R!Capture, R!ReadDtr, R!ProbeReset, R!ProbeHolds, R!ProbeEnds, R!ProbeRaw, R!PrintToRing, R!PrintFlush,
     R!PrintDrain,
         R!PrintDirect, R!ScriptEnd, R!ScriptEndDetach, R!Detached, SessionTypes, R!Probe
<1>2. CASE R!Header \/ R!Attach \/ R!RawInput \/ R!RawFlush \/ R!TxBuf \/ R!IdeDrain \/ R!SysReset \/ R!Leave
           \/ R!Detach
  BY <1>2
     DEF R!Header, R!Attach, R!RawInput, R!RawFlush, R!TxBuf, R!IdeDrain, R!SysReset, R!Leave, R!Detach,
     R!Detached, SessionTypes, R!Probe
<1>3. CASE R!FileExecError
  <2>1. errors' \in 0 .. MaxErrors
    BY <1>3, StdoutAssumption DEF R!FileExecError, SessionTypes
  <2> QED
    BY <1>3, <2>1 DEF R!FileExecError, SessionTypes
<1>4. CASE R!Plug
  <2>1. dtr' \in BOOLEAN
    BY <1>4 DEF R!Plug
  <2> QED
    BY <1>4, <2>1 DEF R!Plug, SessionTypes
<1>5. CASE UNCHANGED R!vars
  BY <1>5 DEF R!vars, SessionTypes
<1> QED
  BY <1>1, <1>2, <1>3, <1>4, <1>5 DEF R!Next, R!Python, R!IdeTask

\* The ring starts empty.
LEMMA RingInitially == R!Init => RingInv /\ SessionTypes
<1> SUFFICES ASSUME R!Init PROVE RingInv /\ SessionTypes
  OBVIOUS
<1>1. 0 \in R!Cells /\ 0 \in 0 .. StdoutSize - 1 /\ StdoutSize \in Nat \ {0} /\ 0 \in 0 .. MaxErrors
  BY StdoutAssumption DEF R!Cells
<1>2. R!NoDrain \in DrainRecords /\ ~R!NoDrain.on
  BY <1>1 DEF R!NoDrain, DrainRecords
<1>3. r = 0 /\ w = 0 /\ pending = {} /\ torn = FALSE /\ drain = [t \in R!Threads |-> R!NoDrain]
  BY DEF R!Init
<1>4. R!Readable = 0 /\ R!Span(0, 0) = {}
  BY <1>1, <1>3, Distances DEF R!Readable, R!Span
<1>5. RingInv
  BY <1>1, <1>2, <1>3, <1>4 DEF RingInv, R!RingHoldsPending, OneDrain, WritesOldest
<1>6. SessionTypes
  BY <1>1 DEF R!Init, SessionTypes, R!Probe
<1> QED
  BY <1>5, <1>6

\* The types hold in every state, for every size of the ring.
THEOREM RingTypes == R!Spec => []R!TypeOK
<1>1. RingInv /\ SessionTypes => R!TypeOK
  BY TypeParts
<1> QED
  BY <1>1, RingInitially, RingStep, SessionStep, PTL DEF R!Spec

\* What can be read from the output ring is what was printed and neither delivered nor discarded, in the order of
\* printing, for every size of the ring and whichever threads print and drain it.
THEOREM RingIsSound == R!Spec => []RingHoldsPending
<1>1. RingInv => RingHoldsPending
  BY DEF RingInv, RingHoldsPending
<1> QED
  BY <1>1, RingInitially, RingStep, PTL DEF R!Spec

-----------------------------------------------------------------------------
(***************************************************************************)
(* StdinRing: its contents are the queue                                   *)
(***************************************************************************)

\* The two indices are as far apart as there are bytes to be read.
StdinInv == S!TypeOK /\ wptr = (rptr + count) % StdinSize

(* The cells of the ring, counted round and round.                         *)
LEMMA Quotient ==
  ASSUME NEW a \in Nat
  PROVE  a % StdinSize \in S!Cells /\ \E q \in Int : a = StdinSize * q + (a % StdinSize)
<1>1. StdinSize \in Int /\ StdinSize > 0 /\ StdinSize \in Nat
  BY StdinAssumption
<1>2. a = StdinSize * (a \div StdinSize) + (a % StdinSize)
  BY <1>1
<1>3. a \div StdinSize \in Int
  BY <1>1
<1>4. a % StdinSize \in 0 .. StdinSize - 1
  BY <1>1
<1> QED
  BY <1>2, <1>3, <1>4 DEF S!Cells

\* A multiple of the size that is less than the size away from zero is zero.
LEMMA Multiples ==
  ASSUME NEW q \in Int, StdinSize * q < StdinSize, -StdinSize < StdinSize * q
  PROVE  q = 0
<1>1. StdinSize \in Int /\ StdinSize > 0
  BY StdinAssumption
<1>2. CASE q >= 1
  <2>1. StdinSize * q >= StdinSize
    BY <1>1, <1>2
  <2> QED
    BY <1>1, <2>1
<1>3. CASE q <= -1
  <2>1. StdinSize * q <= -StdinSize
    BY <1>1, <1>3
  <2> QED
    BY <1>1, <2>1
<1> QED
  BY <1>2, <1>3

\* A number is in the cell it is whole turns away from.
LEMMA SameCell ==
  ASSUME NEW a \in Nat, NEW b \in Nat, NEW q \in Int, NEW x \in S!Cells, a = StdinSize * q + x
  PROVE  a % StdinSize = x
<1>1. StdinSize \in Nat /\ StdinSize > 0
  BY StdinAssumption
<1>2. PICK k \in Int : a = StdinSize * k + (a % StdinSize)
  BY Quotient
<1>3. a % StdinSize \in Int /\ a % StdinSize >= 0 /\ a % StdinSize < StdinSize /\ x \in Int /\ x >= 0
      /\ x < StdinSize
  BY <1>1, Quotient DEF S!Cells
<1>4. StdinSize * (k - q) = x - (a % StdinSize)
  <2>1. StdinSize * (k - q) = StdinSize * k - StdinSize * q
    BY <1>1
  <2> QED
    BY <1>1, <1>2, <1>3, <2>1
<1>5. k - q = 0
  <2>1. k - q \in Int /\ StdinSize * (k - q) < StdinSize /\ -StdinSize < StdinSize * (k - q)
    BY <1>1, <1>3, <1>4
  <2> QED
    BY <2>1, Multiples
<1>6. k = q
  BY <1>5
<1> QED
  BY <1>1, <1>2, <1>3, <1>6

\* Going on from a cell is going on from a number in that cell.
LEMMA Around ==
  ASSUME NEW a \in Nat, NEW b \in Nat
  PROVE  ((a % StdinSize) + b) % StdinSize = (a + b) % StdinSize
<1>1. StdinSize \in Nat /\ StdinSize > 0
  BY StdinAssumption
<1> DEFINE x == a % StdinSize
<1>2. x \in Nat
  BY Quotient DEF S!Cells
<1>3. PICK p \in Int : a = StdinSize * p + x
  BY Quotient
<1> HIDE DEF x
<1>4. x + b \in Nat /\ a + b \in Nat
  BY <1>2
<1> DEFINE y == (x + b) % StdinSize
<1>5. y \in S!Cells /\ \E k \in Int : x + b = StdinSize * k + y
  BY <1>4, Quotient
<1> HIDE DEF y
<1>6. PICK k \in Int : x + b = StdinSize * k + y
  BY <1>5
<1>7. a + b = StdinSize * (p + k) + y
  <2>1. StdinSize * (p + k) = StdinSize * p + StdinSize * k
    BY <1>1
  <2>2. y \in Int
    BY <1>5, <1>1 DEF S!Cells
  <2> QED
    BY <1>1, <1>2, <1>3, <1>6, <2>1, <2>2
<1>8. (a + b) % StdinSize = y
  BY <1>4, <1>5, <1>7, SameCell
<1> QED
  BY <1>8 DEF x, y

\* Two numbers less than a turn apart are in different cells.
LEMMA OtherCell ==
  ASSUME NEW a \in Nat, NEW b \in Nat, a < b, b < a + StdinSize
  PROVE  a % StdinSize # b % StdinSize
<1> SUFFICES ASSUME a % StdinSize = b % StdinSize
             PROVE  FALSE
  OBVIOUS
<1>1. StdinSize \in Nat /\ StdinSize > 0
  BY StdinAssumption
<1>2. PICK p \in Int : a = StdinSize * p + (a % StdinSize)
  BY Quotient
<1>3. PICK k \in Int : b = StdinSize * k + (a % StdinSize)
  BY Quotient
<1>4. a % StdinSize \in Int
  BY <1>1, Quotient DEF S!Cells
<1>5. StdinSize * (k - p) = b - a
  <2>1. StdinSize * (k - p) = StdinSize * k - StdinSize * p
    BY <1>1
  <2> QED
    BY <1>1, <1>2, <1>3, <1>4, <2>1
<1>6. k - p = 0
  BY <1>1, <1>5, Multiples
<1>7. StdinSize * (k - p) = 0
  BY <1>1, <1>6
<1> QED
  BY <1>5, <1>7

(* As many bytes as there are numbers up to n are a sequence of length n.   *)
LEMMA CountedBytes ==
  ASSUME NEW n \in Nat, NEW s \in [1 .. n -> Bytes]
  PROVE  s \in Seq(Bytes) /\ Len(s) = n
<1>1. s \in Seq(Bytes)
  BY SeqDef
<1>2. Len(s) \in Nat /\ DOMAIN s = 1 .. Len(s) /\ DOMAIN s = 1 .. n
  BY <1>1, LenProperties
<1> QED
  BY <1>1, <1>2

(* The contents of a ring are bytes.                                       *)
LEMMA RingBytes ==
  ASSUME NEW f \in [S!Cells -> Bytes], NEW first \in S!Cells, NEW n \in Nat
  PROVE  \A i \in 1 .. n : f[(first + i - 1) % StdinSize] \in Bytes
<1>1. StdinSize \in Nat /\ first \in Nat
  BY StdinAssumption DEF S!Cells
<1>2. \A i \in 1 .. n : first + i - 1 \in Nat
  BY <1>1
<1> QED
  BY <1>2, Quotient

(* A part of a sequence.                                                   *)
LEMMA PartOf ==
  ASSUME NEW s \in Seq(Bytes), NEW m \in Nat, NEW n \in Nat, m + n <= Len(s)
  PROVE  /\ SubSeq(s, m + 1, m + n) \in Seq(Bytes) /\ Len(SubSeq(s, m + 1, m + n)) = n
         /\ \A i \in 1 .. n : SubSeq(s, m + 1, m + n)[i] = s[m + i]
<1>1. Len(s) \in Nat /\ \A i \in 1 .. Len(s) : s[i] \in Bytes
  BY LenProperties, ElementOfSeq
<1> DEFINE a == m + 1
           b == m + n
<1>2. a \in Int /\ b \in Int /\ \A i \in a .. b : s[i] \in Bytes
  BY <1>1
<1>3. (IF a <= b THEN b - a + 1 ELSE 0) = n /\ b - a + 1 = n /\ \A i \in 1 .. n : a + i - 1 = m + i
  OBVIOUS
<1> HIDE DEF a, b
<1>4. /\ SubSeq(s, a, b) \in Seq(Bytes)
      /\ Len(SubSeq(s, a, b)) = IF a <= b THEN b - a + 1 ELSE 0
      /\ \A i \in 1 .. b - a + 1 : SubSeq(s, a, b)[i] = s[a + i - 1]
  BY <1>2, SubSeqProperties
<1>5. /\ SubSeq(s, a, b) \in Seq(Bytes) /\ Len(SubSeq(s, a, b)) = n
      /\ \A i \in 1 .. n : SubSeq(s, a, b)[i] = s[m + i]
  BY <1>3, <1>4
<1> QED
  BY <1>5 DEF a, b

(* A set of numbers that is bounded has a largest element.                 *)
LEMMA HasLargest ==
  ASSUME NEW n \in Nat, NEW nums \in SUBSET (0 .. n), nums # {}
  PROVE  \E m \in nums : \A l \in nums : l <= m
<1> DEFINE below == {l \in 0 .. n : \E m \in nums : l <= m}
           k == Cardinality(below) - 1
<1>1. 0 \in below /\ below \subseteq 0 .. n /\ nums \subseteq below
  <2>1. PICK m \in nums : m \in 0 .. n
    OBVIOUS
  <2>2. 0 \in below
    BY <2>1
  <2>3. nums \subseteq below /\ below \subseteq 0 .. n
    OBVIOUS
  <2> QED
    BY <2>2, <2>3
<1>2. \A m \in below : \A l \in 0 .. m : l \in below
  OBVIOUS
<1> HIDE DEF below
<1>3. IsFiniteSet(below) /\ Cardinality(below) \in Nat
  <2>1. IsFiniteSet(0 .. n)
    BY FS_Interval
  <2> QED
    BY <1>1, <2>1, FS_Subset, FS_CardinalityType
<1>4. \A m \in below : m <= k
  <2> SUFFICES ASSUME NEW m \in below
               PROVE  m <= k
    OBVIOUS
  <2>1. m \in Nat /\ 0 .. m \subseteq below
    BY <1>1, <1>2
  <2>2. IsFiniteSet(0 .. m) /\ Cardinality(0 .. m) = m + 1
    BY <2>1, FS_Interval
  <2>3. Cardinality(0 .. m) <= Cardinality(below)
    BY <1>3, <2>1, FS_Subset
  <2> QED
    BY <1>3, <2>1, <2>2, <2>3
<1>5. k \in Nat /\ Cardinality(below) = k + 1
  BY <1>1, <1>3, <1>4
<1> HIDE DEF k
<1>6. k \in below
  <2> SUFFICES ASSUME k \notin below
               PROVE  FALSE
    OBVIOUS
  <2> DEFINE less == 0 .. k - 1
  <2>1. IsFiniteSet(less) /\ Cardinality(less) = k
    <3>1. k - 1 \in Int /\ 0 \in Int
      BY <1>5
    <3>2. IsFiniteSet(less) /\ Cardinality(less) = IF 0 > k - 1 THEN 0 ELSE k - 1 - 0 + 1
      BY <3>1, FS_Interval
    <3> HIDE DEF less
    <3> QED
      BY <1>5, <3>2
  <2>2. below \subseteq less
    BY <1>1, <1>4, <1>5
  <2> HIDE DEF less
  <2>3. Cardinality(below) <= Cardinality(less)
    BY <2>1, <2>2, FS_Subset
  <2> QED
    BY <1>5, <2>1, <2>3
<1>7. PICK m \in nums : k <= m
  BY <1>6 DEF below
<1>8. \A l \in nums : l <= m
  BY <1>1, <1>4, <1>5, <1>7
<1> QED
  BY <1>8

(* What a push stores is the longest beginning without the interrupt       *)
(* character.                                                              *)
LEMMA StoredFacts ==
  ASSUME NEW n \in Nat, NEW data \in [1 .. n -> Bytes \cup {S!Ctrl}]
  PROVE  /\ Len(data) = n
         /\ S!Stored(data) \in 0 .. n
         /\ \A i \in 1 .. S!Stored(data) : data[i] \in Bytes
<1>1. data \in Seq(Bytes \cup {S!Ctrl})
  BY SeqDef
<1>2. Len(data) = n
  <2>1. Len(data) \in Nat /\ DOMAIN data = 1 .. Len(data) /\ DOMAIN data = 1 .. n
    BY <1>1, LenProperties
  <2> QED
    BY <2>1
<1> DEFINE before == {m \in 0 .. Len(data) : \A i \in 1 .. m : data[i] # S!Ctrl}
<1>3. before # {} /\ before \in SUBSET (0 .. n)
  <2>1. 0 \in before
    BY <1>2
  <2> QED
    BY <1>2, <2>1
<1>4. S!Stored(data) = CHOOSE m \in before : \A l \in before : l <= m
  BY DEF S!Stored
<1> HIDE DEF before
<1>5. S!Stored(data) \in before
  BY <1>3, <1>4, HasLargest
<1> QED
  BY <1>2, <1>3, <1>5 DEF before

(* Where the bytes of a push go.                                           *)
LEMMA WrittenFacts ==
  ASSUME StdinInv, NEW n \in Nat, NEW data, NEW k \in 0 .. n, \A i \in 1 .. k : data[i] \in Bytes
  PROVE  /\ S!Written(data, k) \in [S!Cells -> Bytes]
         /\ \A j \in 1 .. k : j > k - StdinSize => S!Written(data, k)[(wptr + j - 1) % StdinSize] = data[j]
         /\ \A m \in Nat : wptr + k <= m /\ m < wptr + StdinSize
            => S!Written(data, k)[m % StdinSize] = input[m % StdinSize]
<1>t. /\ StdinSize \in Nat /\ StdinSize > 0 /\ k \in Nat /\ wptr \in Nat /\ wptr \in S!Cells
      /\ input \in [S!Cells -> Bytes]
  BY StdinAssumption DEF StdinInv, S!TypeOK, S!Cells
<1> DEFINE At(i) == (wptr + i - 1) % StdinSize
<1>1. \A i \in 1 .. k : wptr + i - 1 \in Nat /\ At(i) \in S!Cells
  <2>1. \A i \in 1 .. k : wptr + i - 1 \in Nat
    BY <1>t
  <2> QED
    BY <2>1, Quotient
<1>2. \A i, j \in 1 .. k : i < j /\ j < i + StdinSize => At(i) # At(j)
  <2> SUFFICES ASSUME NEW i \in 1 .. k, NEW j \in 1 .. k, i < j, j < i + StdinSize
               PROVE  At(i) # At(j)
    OBVIOUS
  <2>1. wptr + i - 1 \in Nat /\ wptr + j - 1 \in Nat /\ wptr + i - 1 < wptr + j - 1
        /\ wptr + j - 1 < wptr + i - 1 + StdinSize
    BY <1>t
  <2> QED
    BY <2>1, OtherCell
<1>3. S!Written(data, k) = [c \in S!Cells |-> IF \E i \in 1 .. k : At(i) = c THEN data[S!LastIn(c, k)] ELSE input[c]]
  BY DEF S!Written
<1>4. \A c : S!LastIn(c, k) = CHOOSE i \in 1 .. k : At(i) = c /\ \A j \in i + 1 .. k : At(j) # c
  BY DEF S!LastIn
<1> HIDE DEF At
<1>5. ASSUME NEW j \in 1 .. k, j > k - StdinSize
      PROVE  S!LastIn(At(j), k) = j
  <2>1. \A l \in j + 1 .. k : At(l) # At(j)
    <3>1. \A l \in j + 1 .. k : l \in 1 .. k /\ j < l /\ l < j + StdinSize
      BY <1>5, <1>t
    <3> QED
      BY <1>2, <3>1
  <2>2. \A i \in 1 .. k : At(i) = At(j) /\ (\A l \in i + 1 .. k : At(l) # At(j)) => i = j
    <3>1. \A i \in 1 .. k : i < j => j \in i + 1 .. k
      BY <1>t
    <3>2. \A i \in 1 .. k : i > j => i \in j + 1 .. k
      BY <1>t
    <3>3. \A i \in 1 .. k : i < j \/ i = j \/ i > j
      BY <1>t
    <3> QED
      BY <2>1, <3>1, <3>2, <3>3
  <2> QED
    BY <1>4, <2>1, <2>2
<1>6. \A j \in 1 .. k : j > k - StdinSize => S!Written(data, k)[At(j)] = data[j]
  BY <1>1, <1>3, <1>5
<1>7. ASSUME NEW m \in Nat, wptr + k <= m, m < wptr + StdinSize
      PROVE  S!Written(data, k)[m % StdinSize] = input[m % StdinSize]
  <2>1. m % StdinSize \in S!Cells
    BY Quotient
  <2>2. \A i \in 1 .. k : At(i) # m % StdinSize
    <3> SUFFICES ASSUME NEW i \in 1 .. k
                 PROVE  At(i) # m % StdinSize
      OBVIOUS
    <3>1. wptr + i - 1 \in Nat /\ wptr + i - 1 < m /\ m < (wptr + i - 1) + StdinSize
      BY <1>7, <1>t
    <3> QED
      BY <3>1, OtherCell DEF At
  <2> QED
    BY <1>3, <2>1, <2>2
<1>8. S!Written(data, k) \in [S!Cells -> Bytes]
  <2>1. ASSUME NEW c \in S!Cells, \E i \in 1 .. k : At(i) = c
        PROVE  data[S!LastIn(c, k)] \in Bytes
    <3> DEFINE in == {i \in 1 .. k : At(i) = c}
    <3>1. in # {} /\ in \in SUBSET (0 .. k)
      BY <2>1
    <3>2. PICK i \in in : \A j \in in : j <= i
      BY <1>t, <3>1, HasLargest
    <3>3. i \in 1 .. k /\ At(i) = c /\ \A j \in i + 1 .. k : At(j) # c
      BY <1>t, <3>2
    <3>4. S!LastIn(c, k) \in 1 .. k
      BY <1>4, <3>3
    <3> QED
      BY <3>4
  <2> QED
    BY <1>3, <1>t, <2>1
<1> QED
  BY <1>6, <1>7, <1>8 DEF At

\* What the strengthening says, with the contents of the ring as a sequence.
LEMMA StdinTypes ==
  ASSUME StdinInv
  PROVE  /\ StdinSize \in Nat /\ StdinSize > 0 /\ count \in Nat /\ count <= StdinSize
         /\ rptr \in Nat /\ rptr \in S!Cells /\ wptr \in S!Cells /\ input \in [S!Cells -> Bytes]
         /\ S!Contents \in Seq(Bytes) /\ Len(S!Contents) = count
         /\ \A i \in 1 .. count : S!Contents[i] = input[(rptr + i - 1) % StdinSize]
<1>1. /\ StdinSize \in Nat /\ StdinSize > 0 /\ count \in 0 .. StdinSize
      /\ rptr \in Nat /\ rptr \in S!Cells /\ wptr \in S!Cells /\ input \in [S!Cells -> Bytes]
  BY StdinAssumption DEF StdinInv, S!TypeOK, S!Cells
<1>2. /\ S!Contents \in Seq(Bytes) /\ Len(S!Contents) = count
      /\ \A i \in 1 .. count : S!Contents[i] = input[(rptr + i - 1) % StdinSize]
  <2>0. count \in Nat
    BY <1>1
  <2>1. \A i \in 1 .. count : input[(rptr + i - 1) % StdinSize] \in Bytes
    BY <1>1, <2>0, RingBytes
  <2>2. S!Contents \in [1 .. count -> Bytes]
        /\ \A i \in 1 .. count : S!Contents[i] = input[(rptr + i - 1) % StdinSize]
    BY <2>1 DEF S!Contents
  <2> QED
    BY <2>0, <2>2, CountedBytes
<1> QED
  BY <1>1, <1>2

(* A push appends what it stores and keeps the latest bytes.               *)
LEMMA StoreIsPut ==
  ASSUME StdinInv, NEW n \in Nat, NEW data \in [1 .. n -> Bytes \cup {S!Ctrl}], S!Store(data, S!Stored(data)),
         n <= MaxChunk
  PROVE  /\ input' \in [S!Cells -> Bytes] /\ wptr' \in S!Cells /\ rptr' \in S!Cells /\ count' \in 0 .. StdinSize
         /\ wptr' = (rptr' + count') % StdinSize
         /\ S!Queue!Put \/ S!Contents' = S!Contents
<1> DEFINE k == S!Stored(data)
<1>1. k \in 0 .. n /\ \A i \in 1 .. k : data[i] \in Bytes
  BY StoredFacts
<1>2. /\ input' = S!Written(data, k) /\ wptr' = (wptr + k) % StdinSize /\ count' = S!CountUpTo(k)
      /\ rptr' = (rptr + (count + k - S!CountUpTo(k))) % StdinSize
  BY DEF S!Store
<1> HIDE DEF k
<1>t. /\ StdinSize \in Nat /\ StdinSize > 0 /\ count \in Nat /\ count <= StdinSize /\ k \in Nat /\ n \in Nat
      /\ rptr \in Nat /\ rptr \in S!Cells /\ wptr \in S!Cells /\ input \in [S!Cells -> Bytes]
      /\ S!Contents \in Seq(Bytes) /\ Len(S!Contents) = count
      /\ \A i \in 1 .. count : S!Contents[i] = input[(rptr + i - 1) % StdinSize]
  BY <1>1, StdinTypes
<1>w. wptr = (rptr + count) % StdinSize /\ wptr \in Nat
  BY <1>t DEF StdinInv, S!Cells
<1> DEFINE kept == S!CountUpTo(k)
           gone == count + k - kept
<1>3. kept \in 0 .. StdinSize /\ kept \in Nat /\ gone \in Nat /\ gone + kept = count + k
      /\ (count + k > StdinSize => kept = StdinSize) /\ (count + k <= StdinSize => kept = count + k)
  BY <1>t DEF S!CountUpTo
<1> HIDE DEF kept, gone
<1>4. rptr' = (rptr + gone) % StdinSize /\ count' = kept
  BY <1>2 DEF gone, kept
<1>5. rptr' \in S!Cells /\ wptr' \in S!Cells /\ rptr' \in Nat
  <2>1. rptr + gone \in Nat /\ wptr + k \in Nat
    BY <1>3, <1>t, <1>w
  <2> QED
    BY <1>2, <1>4, <2>1, Quotient DEF S!Cells
<1>6. wptr' = (rptr' + count') % StdinSize
  <2>1. wptr' = ((rptr + count) + k) % StdinSize
    <3>1. rptr + count \in Nat
      BY <1>t
    <3> QED
      BY <1>2, <1>t, <1>w, <3>1, Around
  <2>2. (rptr' + count') % StdinSize = ((rptr + gone) + kept) % StdinSize
    <3>1. rptr + gone \in Nat
      BY <1>3, <1>t
    <3> QED
      BY <1>3, <1>4, <3>1, Around
  <2>3. (rptr + count) + k = (rptr + gone) + kept
    BY <1>3, <1>t
  <2> QED
    BY <2>1, <2>2, <2>3
<1>7. /\ input' \in [S!Cells -> Bytes]
      /\ \A j \in 1 .. k : j > k - StdinSize => input'[(wptr + j - 1) % StdinSize] = data[j]
      /\ \A m \in Nat : wptr + k <= m /\ m < wptr + StdinSize => input'[m % StdinSize] = input[m % StdinSize]
  BY <1>1, <1>2, WrittenFacts
<1>8. CASE k = 0
  <2>1. kept = count /\ gone = 0
    BY <1>3, <1>8, <1>t
  <2>2. rptr' = rptr
    <3>1. rptr = StdinSize * 0 + rptr
      BY <1>t
    <3>2. rptr % StdinSize = rptr
      BY ONLY <1>t, <3>1, 0 \in Int, SameCell
    <3> QED
      BY <1>4, <1>t, <2>1, <3>2
  <2>3. input' = input
    <3>1. S!Written(data, k) = [c \in S!Cells |-> input[c]]
      BY <1>8 DEF S!Written
    <3> QED
      BY <1>2, <1>t, <3>1
  <2>4. S!Contents' = S!Contents
    BY <1>4, <2>1, <2>2, <2>3 DEF S!Contents
  <2> QED
    BY <1>3, <1>4, <1>5, <1>6, <1>7, <2>4
<1>9. CASE k # 0
  <2> DEFINE new == [i \in 1 .. k |-> data[i]]
             all == S!Contents \o new
  <2>1. new \in [1 .. k -> Bytes] /\ new \in Seq(Bytes) /\ Len(new) = k /\ \A i \in 1 .. k : new[i] = data[i]
    <3>1. new \in [1 .. k -> Bytes]
      BY <1>1
    <3>2. new \in Seq(Bytes)
      BY <1>t, <3>1, SeqDef
    <3>3. Len(new) = k
      BY <1>t
    <3> QED
      BY <3>1, <3>2, <3>3
  <2> HIDE DEF new
  <2>2. /\ all \in Seq(Bytes) /\ Len(all) = count + k
        /\ \A i \in 1 .. count + k : all[i] = IF i <= count THEN S!Contents[i] ELSE new[i - count]
    BY <1>t, <2>1, ConcatProperties, ZenonT(60)
  <2> HIDE DEF all
  <2>3. /\ S!Contents' \in Seq(Bytes) /\ Len(S!Contents') = kept
        /\ \A i \in 1 .. kept : S!Contents'[i] = input'[(rptr' + i - 1) % StdinSize]
    <3>1. \A i \in 1 .. kept : input'[(rptr' + i - 1) % StdinSize] \in Bytes
      BY <1>3, <1>5, <1>7, RingBytes
    <3>2. /\ S!Contents' \in [1 .. kept -> Bytes]
          /\ \A i \in 1 .. kept : S!Contents'[i] = input'[(rptr' + i - 1) % StdinSize]
      BY <1>4, <3>1 DEF S!Contents
    <3> QED
      BY <1>3, <3>2, CountedBytes
  <2> DEFINE latest == SubSeq(all, gone + 1, gone + kept)
  <2>4. /\ latest \in Seq(Bytes) /\ Len(latest) = kept
        /\ \A i \in 1 .. kept : latest[i] = all[gone + i]
    <3>1. gone + kept <= Len(all)
      BY <1>3, <2>2
    <3> QED
      BY <1>3, <2>2, <3>1, PartOf
  <2>5. ASSUME NEW i \in 1 .. kept
        PROVE  S!Contents'[i] = all[gone + i]
    <3>1. S!Contents'[i] = input'[(rptr + (gone + i) - 1) % StdinSize]
      <4>1. rptr + gone \in Nat /\ i - 1 \in Nat /\ rptr' + i - 1 = rptr' + (i - 1)
            /\ (rptr + gone) + (i - 1) = rptr + (gone + i) - 1
        BY <1>3, <1>5, <1>t
      <4>2. (((rptr + gone) % StdinSize) + (i - 1)) % StdinSize = ((rptr + gone) + (i - 1)) % StdinSize
        BY <4>1, Around
      <4> QED
        BY <1>4, <2>3, <4>1, <4>2
    <3>2. CASE gone + i <= count
      <4>1. gone + i \in 1 .. count /\ gone + i \in 1 .. count + k
        BY <1>3, <1>t, <3>2
      <4>2. all[gone + i] = input[(rptr + (gone + i) - 1) % StdinSize]
        BY <1>t, <2>2, <3>2, <4>1
      \* Seen from the write index, the byte is so close behind it that the push does not reach it.
      <4>3. PICK q \in Int : rptr + count = StdinSize * q + wptr
        <5>1. rptr + count \in Nat
          BY <1>t
        <5> QED
          BY <1>w, <5>1, Quotient
      <4> DEFINE back == count - (gone + i) + 1
                 m == wptr + StdinSize - back
      <4>4. back \in 1 .. StdinSize /\ m \in Nat /\ k + back <= StdinSize
        BY <1>3, <1>t, <1>w, <3>2
      <4>5. m % StdinSize = (rptr + (gone + i) - 1) % StdinSize
        <5>1. rptr + (gone + i) - 1 \in Nat
          BY <1>3, <1>t
        <5>2. PICK p \in Int : m = StdinSize * p + (m % StdinSize)
          BY <4>4, Quotient
        <5>3. m % StdinSize \in S!Cells
          BY <4>4, Quotient
        <5>4. rptr + (gone + i) - 1 = StdinSize * (q + p - 1) + (m % StdinSize)
          <6>1. StdinSize * (q + p - 1) = StdinSize * q + StdinSize * p - StdinSize
            BY <1>t
          <6>2. rptr + (gone + i) - 1 = StdinSize * q + wptr - back
            BY <1>3, <1>t, <1>w, <4>3
          <6>3. wptr - back = m - StdinSize
            BY <1>t, <1>w, <4>4
          <6>4. m % StdinSize \in Int /\ back \in Int
            BY <1>t, <4>4, <5>3 DEF S!Cells
          <6> HIDE DEF m, back
          <6> QED
            BY <1>t, <1>w, <4>4, <5>2, <6>1, <6>2, <6>3, <6>4
        <5> QED
          BY <5>1, <5>3, <5>4, SameCell
      <4>6. wptr + k <= m /\ m < wptr + StdinSize
        BY <1>t, <1>w, <4>4
      <4>7. input'[m % StdinSize] = input[m % StdinSize]
        BY <1>7, <4>4, <4>6
      <4> HIDE DEF m
      <4> QED
        BY <3>1, <4>2, <4>5, <4>7
    <3>3. CASE gone + i > count
      <4> DEFINE j == gone + i - count
      <4>1. j \in 1 .. k /\ j > k - StdinSize /\ gone + i \in 1 .. count + k
        BY <1>3, <1>t, <3>3
      <4>2. all[gone + i] = data[j]
        BY <1>3, <1>t, <2>1, <2>2, <3>3, <4>1
      <4>3. (wptr + j - 1) % StdinSize = (rptr + (gone + i) - 1) % StdinSize
        <5>1. rptr + count \in Nat /\ j - 1 \in Nat /\ wptr + j - 1 = wptr + (j - 1)
              /\ (rptr + count) + (j - 1) = rptr + (gone + i) - 1
          BY <1>3, <1>t, <1>w, <4>1
        <5> HIDE DEF j
        <5>2. (((rptr + count) % StdinSize) + (j - 1)) % StdinSize = ((rptr + count) + (j - 1)) % StdinSize
          BY <5>1, Around, Zenon
        <5> QED
          BY <1>w, <5>1, <5>2, Zenon
      <4> QED
        BY <1>7, <3>1, <4>1, <4>2, <4>3
    <3> QED
      BY <1>3, <1>t, <3>2, <3>3
  <2>6. S!Contents' = latest
    <3> HIDE DEF latest
    <3> QED
      BY <2>3, <2>4, <2>5, SeqEqual
  <2>7. latest = S!Queue!Latest(all)
    <3>1. gone + kept = Len(all)
      BY <1>3, <2>2
    <3>2. gone + 1 = IF Len(all) > StdinSize THEN Len(all) - StdinSize + 1 ELSE 1
      BY <1>3, <1>t, <2>2
    <3> QED
      BY <3>1, <3>2 DEF S!Queue!Latest
  <2>8. S!Queue!Put
    <3>1. k \in 1 .. MaxChunk
      BY <1>1, <1>9, <1>t, StdinAssumption
    <3> QED
      BY <2>1, <2>6, <2>7, <3>1 DEF S!Queue!Put, all
  <2> QED
    BY <1>3, <1>4, <1>5, <1>6, <1>7, <2>8
<1> QED
  BY <1>8, <1>9

(* Reading takes the first byte away.                                      *)
LEMMA TakeIsGet ==
  ASSUME StdinInv, NEW t \in Readers, S!Take(t)
  PROVE  /\ input' = input /\ wptr' = wptr /\ rptr' \in S!Cells /\ count' \in 0 .. StdinSize
         /\ wptr' = (rptr' + count') % StdinSize
         /\ S!Queue!Get
<1>t. /\ StdinSize \in Nat /\ StdinSize > 0 /\ count \in Nat /\ count <= StdinSize
      /\ rptr \in Nat /\ rptr \in S!Cells /\ wptr \in S!Cells /\ input \in [S!Cells -> Bytes]
      /\ S!Contents \in Seq(Bytes) /\ Len(S!Contents) = count
      /\ \A i \in 1 .. count : S!Contents[i] = input[(rptr + i - 1) % StdinSize]
  BY StdinTypes
<1>1. input' = input /\ wptr' = wptr /\ count > 0 /\ rptr' = (rptr + 1) % StdinSize /\ count' = count - 1
  BY DEF S!Take
<1> DEFINE n == count - 1
<1>2. n \in Nat /\ count = n + 1 /\ n <= StdinSize /\ count' = n
  BY <1>t, <1>1
<1> HIDE DEF n
<1>3. rptr' \in S!Cells /\ rptr' \in Nat
  <2>1. rptr + 1 \in Nat
    BY <1>t
  <2> QED
    BY <1>1, <1>t, <2>1, Quotient DEF S!Cells
<1>4. \A j \in Nat : (rptr' + j) % StdinSize = (rptr + 1 + j) % StdinSize
  <2> SUFFICES ASSUME NEW j \in Nat
               PROVE  (rptr' + j) % StdinSize = (rptr + 1 + j) % StdinSize
    OBVIOUS
  <2>1. rptr + 1 \in Nat
    BY <1>t
  <2>2. (((rptr + 1) % StdinSize) + j) % StdinSize = ((rptr + 1) + j) % StdinSize
    BY <2>1, Around
  <2> QED
    BY <1>1, <2>2
<1>5. wptr' = (rptr' + count') % StdinSize
  <2>1. wptr = (rptr + count) % StdinSize
    BY DEF StdinInv
  <2>2. rptr + count = rptr + 1 + n
    BY <1>2, <1>t
  <2> QED
    BY <1>1, <1>2, <1>4, <2>1, <2>2
<1>6. /\ S!Contents' \in Seq(Bytes) /\ Len(S!Contents') = n
      /\ \A i \in 1 .. n : S!Contents'[i] = input'[(rptr' + i - 1) % StdinSize]
  <2>1. \A i \in 1 .. n : input'[(rptr' + i - 1) % StdinSize] \in Bytes
    BY <1>1, <1>2, <1>3, <1>t, RingBytes
  <2>2. /\ S!Contents' \in [1 .. n -> Bytes]
        /\ \A i \in 1 .. n : S!Contents'[i] = input'[(rptr' + i - 1) % StdinSize]
    BY <1>2, <2>1 DEF S!Contents
  <2> QED
    BY <1>2, <2>2, CountedBytes
<1>7. S!Contents # << >>
  BY <1>2, <1>t
<1>8. /\ Tail(S!Contents) \in Seq(Bytes) /\ Len(Tail(S!Contents)) = n
      /\ \A i \in 1 .. n : Tail(S!Contents)[i] = S!Contents[i + 1]
  <2>1. /\ Tail(S!Contents) \in Seq(Bytes) /\ Len(Tail(S!Contents)) = Len(S!Contents) - 1
        /\ \A i \in 1 .. Len(Tail(S!Contents)) : Tail(S!Contents)[i] = S!Contents[i + 1]
    BY <1>t, <1>7, HeadTailProperties
  <2>2. Len(Tail(S!Contents)) = n
    BY <1>2, <1>t, <2>1
  <2> QED
    BY <2>1, <2>2
<1>9. \A i \in 1 .. n : S!Contents'[i] = S!Contents[i + 1]
  <2> SUFFICES ASSUME NEW i \in 1 .. n
               PROVE  S!Contents'[i] = S!Contents[i + 1]
    OBVIOUS
  <2>1. i - 1 \in Nat /\ rptr' + i - 1 = rptr' + (i - 1) /\ rptr + 1 + (i - 1) = rptr + (i + 1) - 1
    BY <1>3, <1>t
  <2>2. i + 1 \in 1 .. count
    BY <1>2
  <2>3. (rptr' + (i - 1)) % StdinSize = (rptr + 1 + (i - 1)) % StdinSize
    BY <1>4, <2>1
  <2>4. S!Contents'[i] = input[(rptr' + (i - 1)) % StdinSize]
    <3>1. S!Contents'[i] = input'[(rptr' + i - 1) % StdinSize]
      BY <1>6
    <3> QED
      BY <1>1, <2>1, <3>1
  <2>5. S!Contents[i + 1] = input[(rptr + (i + 1) - 1) % StdinSize]
    BY <1>t, <2>2
  <2> QED
    BY <2>1, <2>3, <2>4, <2>5
<1>10. S!Contents' = Tail(S!Contents)
  BY <1>6, <1>8, <1>9, SeqEqual
<1>11. S!Queue!Get
  BY <1>7, <1>10 DEF S!Queue!Get
<1> QED
  BY <1>1, <1>2, <1>3, <1>5, <1>t, <1>11

(* A ring without bytes is an empty sequence.                              *)
LEMMA NoBytes == count = 0 => S!Contents = << >>
<1> SUFFICES ASSUME count = 0
             PROVE  S!Contents = << >>
  OBVIOUS
<1>1. 1 .. 0 = {}
  OBVIOUS
<1>2. S!Contents = [i \in {} |-> input[(rptr + i - 1) % StdinSize]]
  BY <1>1 DEF S!Contents
<1> QED
  BY <1>2

(* The readers.                                                            *)
LEMMA ReaderTypeStep ==
  ASSUME StdinInv, [S!Next]_S!vars
  PROVE  reader' \in [Readers -> {"out", "look", "asleep", "woken"}]
<1>t. reader \in [Readers -> {"out", "look", "asleep", "woken"}]
  BY DEF StdinInv, S!TypeOK
<1>1. CASE S!Push
  BY <1>t, <1>1 DEF S!Push, S!Signal
<1>2. CASE S!Clear
  BY <1>t, <1>2 DEF S!Clear
<1>3. ASSUME NEW t \in Readers, S!Read(t) \/ S!Take(t) \/ S!Sleep(t) \/ S!Timeout(t) \/ S!Awake(t)
      PROVE  reader' \in [Readers -> {"out", "look", "asleep", "woken"}]
  BY <1>t, <1>3 DEF S!Read, S!Take, S!Sleep, S!Timeout, S!Awake
<1>4. CASE UNCHANGED S!vars
  BY <1>t, <1>4 DEF S!vars
<1> QED
  BY <1>1, <1>2, <1>3, <1>4 DEF S!Next

(* Every step of the ring is a step of the queue or leaves it as it is.    *)
LEMMA QueueStep ==
  ASSUME StdinInv, [S!Next]_S!vars
  PROVE  StdinInv' /\ [S!Queue!Next]_S!Contents
<1>t. /\ StdinSize \in Nat /\ StdinSize > 0 /\ count \in Nat /\ count <= StdinSize
      /\ rptr \in Nat /\ rptr \in S!Cells /\ wptr \in S!Cells /\ input \in [S!Cells -> Bytes]
      /\ wptr = (rptr + count) % StdinSize /\ count \in 0 .. StdinSize
  BY StdinTypes DEF StdinInv, S!TypeOK
<1>r. reader' \in [Readers -> {"out", "look", "asleep", "woken"}]
  BY ReaderTypeStep
<1>1. CASE S!Push
  <2>1. PICK n \in 1 .. MaxChunk : \E data \in [1 .. n -> Bytes \cup {S!Ctrl}] : S!Store(data, S!Stored(data))
    BY <1>1 DEF S!Push
  <2>2. n \in Nat /\ n <= MaxChunk
    BY StdinAssumption
  <2> QED
    BY <1>r, <2>1, <2>2, StoreIsPut DEF StdinInv, S!TypeOK, S!Queue!Next
<1>2. CASE S!Clear
  <2>1. input' = input /\ wptr' = wptr /\ rptr' = wptr /\ count' = 0
    BY <1>2 DEF S!Clear
  <2>2. wptr \in Nat /\ wptr = StdinSize * 0 + wptr
    BY <1>t DEF S!Cells
  <2>3. wptr % StdinSize = wptr
    BY ONLY <1>t, <2>2, 0 \in Int, SameCell
  <2>4. (rptr' + count') % StdinSize = wptr
    BY <2>1, <2>2, <2>3
  <2>5. S!Contents' = << >>
    <3>1. 1 .. 0 = {}
      OBVIOUS
    <3>2. S!Contents' = [i \in {} |-> input'[(rptr' + i - 1) % StdinSize]]
      BY <2>1, <3>1 DEF S!Contents
    <3> QED
      BY <3>2
  <2>6. 0 \in 0 .. StdinSize
    BY <1>t
  <2>7. StdinInv'
    BY <1>r, <1>t, <2>1, <2>4, <2>6 DEF StdinInv, S!TypeOK, S!Cells
  <2> QED
    BY <2>5, <2>7 DEF S!Queue!Next, S!Queue!Drop
<1>3. ASSUME NEW t \in Readers, S!Take(t)
      PROVE  StdinInv' /\ [S!Queue!Next]_S!Contents
  <2>1. /\ input' = input /\ wptr' = wptr /\ rptr' \in S!Cells /\ count' \in 0 .. StdinSize
        /\ wptr' = (rptr' + count') % StdinSize
        /\ S!Queue!Get
    BY <1>3, TakeIsGet
  <2> QED
    BY <1>r, <1>t, <2>1 DEF StdinInv, S!TypeOK, S!Queue!Next
<1>4. ASSUME UNCHANGED <<input, wptr, rptr, count>>
      PROVE  StdinInv' /\ [S!Queue!Next]_S!Contents
  <2>1. S!Contents' = S!Contents
    BY <1>4 DEF S!Contents
  <2> QED
    BY <1>r, <1>t, <1>4, <2>1 DEF StdinInv, S!TypeOK, S!Cells
<1>5. ASSUME NEW t \in Readers, S!Read(t) \/ S!Sleep(t) \/ S!Timeout(t) \/ S!Awake(t)
      PROVE  UNCHANGED <<input, wptr, rptr, count>>
  BY <1>5 DEF S!Read, S!Sleep, S!Timeout, S!Awake
<1>6. CASE UNCHANGED S!vars
  BY <1>4, <1>6 DEF S!vars
<1> QED
  BY <1>1, <1>2, <1>3, <1>4, <1>5, <1>6 DEF S!Next

(* The ring starts empty.                                                  *)
LEMMA QueueStart == S!Init => StdinInv /\ S!Queue!Init
<1> SUFFICES ASSUME S!Init
             PROVE  StdinInv /\ S!Queue!Init
  OBVIOUS
<1>1. StdinSize \in Nat /\ StdinSize > 0 /\ Bytes # {}
  BY StdinAssumption
<1>2. wptr = 0 /\ rptr = 0 /\ count = 0 /\ 0 \in S!Cells /\ 0 \in 0 .. StdinSize
  BY <1>1 DEF S!Init, S!Cells
<1>3. input \in [S!Cells -> Bytes]
  BY <1>1 DEF S!Init
<1>4. wptr = (rptr + count) % StdinSize
  <2>1. 0 = StdinSize * 0 + 0 /\ 0 \in Nat /\ 0 \in Int
    BY <1>1
  <2>2. 0 % StdinSize = 0
    BY <1>2, <2>1, SameCell
  <2> QED
    BY <1>2, <2>2
<1>5. reader \in [Readers -> {"out", "look", "asleep", "woken"}]
  BY DEF S!Init
<1>6. S!Contents = << >>
  BY <1>2, NoBytes
<1> QED
  BY <1>2, <1>3, <1>4, <1>5, <1>6 DEF StdinInv, S!TypeOK, S!Queue!Init

(* Standard input is a queue that keeps the latest bytes.                  *)
THEOREM StdinImplementsQueue == S!Spec => StdinIsQueue
<1>1. S!Init => StdinInv /\ S!Queue!Init
  BY QueueStart
<1>2. StdinInv /\ [S!Next]_S!vars => StdinInv' /\ [S!Queue!Next]_S!Contents
  BY QueueStep
<1> QED
  BY <1>1, <1>2, PTL DEF S!Spec, StdinIsQueue, S!IsQueue, S!Queue!Spec

\* The types hold in every state.
THEOREM StdinTypesOK == S!Spec => []S!TypeOK
<1>1. S!Init => StdinInv
  BY QueueStart
<1>2. StdinInv /\ [S!Next]_S!vars => StdinInv'
  BY QueueStep
<1>3. StdinInv => S!TypeOK
  BY DEF StdinInv
<1> QED
  BY <1>1, <1>2, <1>3, PTL DEF S!Spec

-----------------------------------------------------------------------------
(***************************************************************************)
(* The instance as a whole                                                 *)
(***************************************************************************)

\* A step of the instance is a step of one component, and the others stay as they are.
LEMMA Projection ==
  ASSUME [MCNext]_<<vars, media, preview, stdout, stdin, mjpeg, webrtc>>
  PROVE  /\ [Next]_vars /\ [M!Next]_M!vars /\ [P!Next]_P!vars /\ [R!Next]_R!vars /\ [S!Next]_S!vars
         /\ [J!Next]_J!vars /\ [W!Next]_W!vars
<1>1. Next \/ UNCHANGED vars
  BY DEF MCNext
<1>2. M!Next \/ UNCHANGED media
  BY DEF MCNext
<1>3. P!Next \/ UNCHANGED preview
  BY DEF MCNext
<1>4. R!Next \/ UNCHANGED stdout
  BY DEF MCNext
<1>5. S!Next \/ UNCHANGED stdin
  BY DEF MCNext
<1>6. J!Next \/ UNCHANGED mjpeg
  BY DEF MCNext
<1>7. W!Next \/ UNCHANGED webrtc
  BY DEF MCNext
<1>8. UNCHANGED media => UNCHANGED M!vars
  BY DEF media, M!vars, M!buffers, M!vb, M!camera
<1>9. UNCHANGED preview => UNCHANGED P!vars
  BY DEF preview, P!vars, P!slot, P!encoder
<1>10. UNCHANGED stdout => UNCHANGED R!vars
  BY DEF stdout, R!vars
<1>11. UNCHANGED stdin => UNCHANGED S!vars
  BY DEF stdin, S!vars
<1>12. UNCHANGED mjpeg => UNCHANGED J!vars
  BY DEF mjpeg, J!vars
<1>13. UNCHANGED webrtc => UNCHANGED W!vars
  BY DEF webrtc, W!vars, W!reset, W!registry
<1> QED
  BY <1>1, <1>2, <1>3, <1>4, <1>5, <1>6, <1>7, <1>8, <1>9, <1>10, <1>11, <1>12, <1>13

\* Every variable of the seven components keeps to its type, for all values of the constants.
THEOREM TypesHold == MCSpec => []TypesOK
<1>1. MCInit => Init /\ M!Init /\ P!Init /\ R!Init /\ S!Init /\ J!Init /\ W!Init
  BY DEF MCInit
<1>2. [MCNext]_<<vars, media, preview, stdout, stdin, mjpeg, webrtc>> =>
        /\ [Next]_vars /\ [M!Next]_M!vars /\ [P!Next]_P!vars /\ [R!Next]_R!vars /\ [S!Next]_S!vars
        /\ [J!Next]_J!vars /\ [W!Next]_W!vars
  BY Projection
<1>3. MCSpec => Spec
  BY <1>1, <1>2, PTL DEF MCSpec, Spec
<1>4. MCSpec => M!Spec
  BY <1>1, <1>2, PTL DEF MCSpec, M!Spec
<1>5. MCSpec => P!Spec
  BY <1>1, <1>2, PTL DEF MCSpec, P!Spec
<1>6. MCSpec => R!Spec
  BY <1>1, <1>2, PTL DEF MCSpec, R!Spec
<1>7. MCSpec => S!Spec
  BY <1>1, <1>2, PTL DEF MCSpec, S!Spec
<1>8. MCSpec => J!Spec
  BY <1>1, <1>2, PTL DEF MCSpec, J!Spec
<1>9. PeersInv => W!TypeOK
  BY DEF PeersInv
<1>10. MCSpec => []W!TypeOK
  BY <1>1, <1>2, <1>9, PeersInitially, PeersInductive, PTL DEF MCSpec
<1>11. TypeOK /\ M!TypeOK /\ P!TypeOK /\ R!TypeOK /\ S!TypeOK /\ J!TypeOK /\ W!TypeOK => TypesOK
  BY DEF TypesOK
<1> QED
  BY <1>3, <1>4, <1>5, <1>6, <1>7, <1>8, <1>10, <1>11, TypeCorrect, MediaTypes, PreviewTypes, RingTypes,
     StdinTypesOK, MjpegTypes, PTL
=============================================================================
