--------------------------- MODULE DisplayBuffers ---------------------------
(***************************************************************************)
(* The OSD buffers of modules/modmedia.display.c: one block per layer for  *)
(* the frame it shows, and one spare that all layers share.  show_image    *)
(* draws into the spare, pushes it and keeps the layer's former block as   *)
(* the next spare, which the video output (VO) may still show.             *)
(*                                                                         *)
(* Every function keeps the GIL, so that calls exclude each other; what    *)
(* runs beside them is VO, which takes a pushed frame up at its next       *)
(* vertical sync.  show_image and deinit are split between those of their  *)
(* steps that VO or a failing call tells apart.                            *)
(***************************************************************************)
EXTENDS Naturals, FiniteSets

CONSTANTS
  Layers,      \* the OSD layers
  OsdBlocks,   \* the blocks of the OSD pool
  MaxOsd       \* bound: the largest osd_num a program asks for

Nothing == "nothing"
Other == "other"    \* a frame that is not in a block of the OSD pool

ASSUME OsdAssumption ==
  /\ MaxOsd \in Nat
  /\ IsFiniteSet(Layers) /\ Nothing \notin Layers
  /\ Nothing \notin OsdBlocks /\ Other \notin OsdBlocks

VARIABLES
  up,            \* inited
  rotated,       \* rotated
  osdNum,        \* osd_layer_num
  configed,      \* layer_configed, as the set of layers
  layerBuffer,   \* layer_buffer: the block of each layer, or Nothing
  spare,         \* share_buffer
  spareLayer,    \* share_buffer_layer
  out,           \* blocks taken from the OSD pool
  current,       \* VO: the frame each layer shows
  queued,        \* VO: the frame it will show from the next vertical sync
  call           \* the call in progress

buffers == <<layerBuffer, spare, spareLayer, out>>
vo == <<current, queued>>
settings == <<up, rotated, osdNum>>
vars == <<settings, configed, buffers, vo, call>>

Idle == [at |-> "idle", layer |-> Nothing, direct |-> FALSE]
Goto(at) == call' = [call EXCEPT !.at = at]

PoolSize == IF osdNum = 0 THEN 0 ELSE IF rotated THEN osdNum ELSE osdNum + 1

Init ==
  /\ up = FALSE /\ rotated = FALSE /\ osdNum = 0
  /\ configed = {}
  /\ layerBuffer = [l \in Layers |-> Nothing]
  /\ spare = Nothing /\ spareLayer = Nothing /\ out = {}
  /\ current = [l \in Layers |-> Nothing] /\ queued = [l \in Layers |-> Nothing]
  /\ call = Idle

-----------------------------------------------------------------------------
(* The video output. *)

Holds(l, b) == b # Nothing /\ b \in {current[l], queued[l]}

\* Disabling a layer drops both of its frames.
VoDisable(l) ==
  /\ current' = [current EXCEPT ![l] = Nothing]
  /\ queued' = [queued EXCEPT ![l] = Nothing]

\* A frame pushed before the sync replaces the one that was waiting for it.  On a rotated panel VO has the frame
\* rotated into buffers of its own (rot_buf_nr) and keeps nothing of the program's.
Push(l, b) ==
  /\ queued' = [queued EXCEPT ![l] = IF rotated THEN Other ELSE b]
  /\ UNCHANGED current

VerticalSync ==
  /\ \E l \in Layers : queued[l] # Nothing
  /\ current' = [l \in Layers |-> IF queued[l] # Nothing THEN queued[l] ELSE current[l]]
  /\ queued' = [l \in Layers |-> Nothing]
  /\ UNCHANGED <<settings, configed, buffers, call>>

\* A frame of the channel a layer is bound to.  Display.bind_layer configures its layer first and disabling unbinds it;
\* which configured layers are bound is left open.
SourceFrame ==
  /\ up
  /\ \E l \in configed : Push(l, Other)
  /\ UNCHANGED <<settings, configed, buffers, call>>

-----------------------------------------------------------------------------
(* Initialisation. *)

\* py_display_deinit_inst, to the end of kd_display_deinit: layers are unbound and off, whether or not each call
\* succeeded.  Display.init begins with it.
DeinitVo ==
  /\ call.at = "idle" /\ up
  /\ up' = FALSE
  /\ configed' = {}
  /\ current' = [l \in Layers |-> Nothing] /\ queued' = [l \in Layers |-> Nothing]
  /\ \E next \in {"free", "reopen"} : Goto(next)
  /\ UNCHANGED <<rotated, osdNum, buffers>>

\* The rest of it: buffers and pool
DeinitFree ==
  /\ call.at \in {"free", "reopen"}
  /\ out' = out \ ({spare} \cup {layerBuffer[l] : l \in Layers})
  /\ layerBuffer' = [l \in Layers |-> Nothing]
  /\ spare' = Nothing /\ spareLayer' = Nothing
  /\ osdNum' = 0
  /\ IF call.at = "reopen" THEN Goto("open") ELSE call' = Idle
  /\ UNCHANGED <<up, rotated, configed, vo>>

\* py_display_init_wrap behind its py_display_deinit_inst, and py_display_init_inst: the panel, the resolution or the
\* pool may fail, and the layers configured before are configured in VO.  A rotated panel needs one buffer; where the
\* query of the rotation failed (-1), the panel counts as rotated but osd_num stays.
DisplayInit ==
  /\ ~up /\ call.at \in {"idle", "open"}
  /\ \/ \E rot \in BOOLEAN, num \in 0 .. MaxOsd :
          /\ rotated' = rot
          /\ osdNum' \in IF rot /\ num # 0 THEN {1, num} ELSE {num}
          /\ up' = TRUE
     \/ UNCHANGED settings
  /\ call' = Idle
  /\ UNCHANGED <<configed, buffers, vo>>

-----------------------------------------------------------------------------
(* Layers. *)

\* py_dispay_config_layer_inst.  Before init the attributes are only kept; after it the layer is disabled (a failure is
\* ignored), set and enabled.
ConfigLayerInst(l) ==
  \/ ~up /\ configed' = configed \cup {l} /\ UNCHANGED vo
  \/ /\ up
     /\ configed' \in {configed, configed \cup {l}}
     /\ VoDisable(l) \/ UNCHANGED vo

ConfigLayer(l) ==
  /\ call.at = "idle"
  /\ ConfigLayerInst(l)
  /\ UNCHANGED <<settings, buffers, call>>

Mut_SwapForgetsLayer(l, newSpare) ==
  /\ layerBuffer' = [layerBuffer EXCEPT ![l] = newSpare]
  /\ spare' = layerBuffer[l]
  /\ spareLayer' = Nothing

\* The former block of a layer becomes the spare, which VO has until its next frame replaces it.
SwapLayerBuffer(l, newSpare) ==
  /\ layerBuffer' = [layerBuffer EXCEPT ![l] = newSpare]
  /\ spare' = layerBuffer[l]
  /\ spareLayer' = IF layerBuffer[l] # Nothing THEN l ELSE Nothing

\* py_display_disable_layer_inst, when kd_display_layer_disable does not fail: the spare stays for reuse.  bind_layer
\* calls it too when the source cannot be bound.
DisableLayer(l) ==
  /\ call.at = "idle"
  /\ configed' = configed \ {l}
  /\ IF l \in configed
     THEN /\ VoDisable(l)
          /\ layerBuffer' = [layerBuffer EXCEPT ![l] = Nothing]
          /\ out' = out \ {layerBuffer[l]}
          /\ spareLayer' = IF spareLayer = l THEN Nothing ELSE spareLayer
     ELSE UNCHANGED <<vo, layerBuffer, out, spareLayer>>
  /\ UNCHANGED <<settings, spare, call>>

-----------------------------------------------------------------------------
(* Display.show_image. *)

Working == {l \in Layers : layerBuffer[l] # Nothing}

\* The layer is configured if it is not.
Show(l, direct) ==
  /\ call.at = "idle" /\ up
  /\ IF l \in configed THEN UNCHANGED <<configed, vo>> ELSE ConfigLayerInst(l)
  /\ call' = IF l \in configed' THEN [at |-> "prepare", layer |-> l, direct |-> direct] ELSE Idle
  /\ UNCHANGED <<settings, buffers>>

\* The spare is not to become the permanent buffer of a layer beyond osd_num.
OverBudget == ~rotated /\ layerBuffer[call.layer] = Nothing /\ Cardinality(Working) >= osdNum

WaitsForSpare ==
  /\ ~rotated /\ spare # Nothing /\ spareLayer # Nothing
  /\ call.direct => layerBuffer[call.layer] # Nothing

\* The first half of py_display_get_draw_buffer, or its counterpart for a direct frame, whose image must have a
\* physical address
ShowPrepare ==
  /\ call.at = "prepare"
  /\ \/ (call.direct \/ OverBudget) /\ call' = Idle
     \/ (call.direct \/ ~OverBudget) /\ Goto(IF WaitsForSpare THEN "wait" ELSE "take")
  /\ UNCHANGED <<settings, configed, buffers, vo>>

\* py_display_wait_shared_buffer
SpareReleased ==
  /\ call.at = "wait" /\ ~Holds(spareLayer, spare)
  /\ spareLayer' = Nothing
  /\ Goto("take")
  /\ UNCHANGED <<settings, configed, layerBuffer, spare, out, vo>>

\* Timeout or interruption: everything stays for another attempt.
WaitFails ==
  /\ call.at = "wait"
  /\ call' = Idle
  /\ UNCHANGED <<settings, configed, buffers, vo>>

\* py_display_alloc_single_buffer when there is no spare; a block that cannot be mapped is given back.
ShowTake ==
  /\ call.at = "take"
  /\ \/ /\ (call.direct \/ spare # Nothing)
        /\ Goto("push") /\ UNCHANGED buffers
     \/ /\ ~call.direct /\ spare = Nothing /\ Cardinality(out) < PoolSize
        /\ \E b \in OsdBlocks \ out : spare' = b /\ out' = out \cup {b}
        /\ Goto("push") /\ UNCHANGED <<layerBuffer, spareLayer>>
     \/ /\ ~call.direct /\ spare = Nothing
        /\ call' = Idle /\ UNCHANGED buffers
  /\ UNCHANGED <<settings, configed, vo>>

\* An attribute of the layer cannot be read or updated, or the frame is refused.
PushFails ==
  /\ call.at = "push"
  /\ call' = Idle
  /\ UNCHANGED <<settings, configed, buffers, vo>>

\* py_display_show_image_to_buffer writes the spare and pushes it.
PushCopied ==
  /\ call.at = "push" /\ ~call.direct
  /\ Push(call.layer, spare)
  /\ IF rotated THEN UNCHANGED buffers ELSE SwapLayerBuffer(call.layer, spare) /\ UNCHANGED out
  /\ call' = Idle
  /\ UNCHANGED <<settings, configed>>

\* py_display_show_image_direct; the layer's copied frame becomes the spare and the former spare is freed.
PushDirect ==
  /\ call.at = "push" /\ call.direct
  /\ Push(call.layer, Other)
  /\ IF ~rotated /\ layerBuffer[call.layer] # Nothing
     THEN SwapLayerBuffer(call.layer, Nothing) /\ out' = out \ {spare}
     ELSE UNCHANGED buffers
  /\ call' = Idle
  /\ UNCHANGED <<settings, configed>>

-----------------------------------------------------------------------------
Calls ==
  \/ DeinitVo \/ DisplayInit
  \/ \E l \in Layers : ConfigLayer(l) \/ DisableLayer(l)
  \/ \E l \in Layers, direct \in BOOLEAN : Show(l, direct)

Steps ==
  \/ DeinitFree \/ ShowPrepare \/ SpareReleased \/ WaitFails \/ ShowTake \/ PushFails \/ PushCopied \/ PushDirect

Next == Calls \/ Steps \/ VerticalSync \/ SourceFrame

Spec == Init /\ [][Next]_vars

-----------------------------------------------------------------------------
Frames == OsdBlocks \cup {Nothing, Other}

\* The values every variable may take.
TypeOK ==
  /\ up \in BOOLEAN /\ rotated \in BOOLEAN /\ osdNum \in 0 .. MaxOsd
  /\ configed \subseteq Layers
  /\ layerBuffer \in [Layers -> OsdBlocks \cup {Nothing}]
  /\ spare \in OsdBlocks \cup {Nothing} /\ spareLayer \in Layers \cup {Nothing}
  /\ out \subseteq OsdBlocks
  /\ current \in [Layers -> Frames] /\ queued \in [Layers -> Frames]
  /\ call \in [at : {"idle", "free", "reopen", "open", "prepare", "wait", "take", "push"},
               layer : Layers \cup {Nothing}, direct : BOOLEAN]

\* Every block that is out has one owner, a layer or the spare, and each owner's block is out: no frame is drawn over
\* another layer's, and nothing is left in the pool when it is destroyed.
BlocksOwned ==
  /\ out = {layerBuffer[l] : l \in Working} \cup ({spare} \ {Nothing})
  /\ \A l \in Working : layerBuffer[l] # spare /\ \A m \in Working \ {l} : layerBuffer[l] # layerBuffer[m]

\* A program within its osd_num is never refused a block because a direct frame, a disabled layer or a failed call
\* left one behind.
BlockToTake ==
  call.at = "take" /\ ~call.direct /\ spare = Nothing /\ osdNum # 0 => Cardinality(out) < PoolSize

\* What VO shows or will show on a layer is the layer's own block or the spare it left there, and is not freed.
ShownIsOwned ==
  \A l \in Layers, b \in OsdBlocks :
    Holds(l, b) => b \in out /\ (b = layerBuffer[l] \/ (b = spare /\ l = spareLayer))

\* The buffer show_image is about to write is not on any screen ("The spare is recycled only after VO has released its
\* previous frame").
WritesReleased == call.at = "push" /\ ~call.direct => \A l \in Layers : ~Holds(l, spare)

\* The frame that is waited for has been replaced, so that the next vertical sync releases it ("avoids waiting on the
\* current frame forever").
WaitsForReplaced ==
  call.at = "wait" /\ Holds(spareLayer, spare) =>
    queued[spareLayer] # Nothing /\ queued[spareLayer] # spare

\* The blocks of the OSD pool have one owner each, are enough, and are neither drawn upon nor freed while VO has them.
DisplayBuffersSound == BlocksOwned /\ BlockToTake /\ ShownIsOwned /\ WritesReleased /\ WaitsForReplaced
=============================================================================
