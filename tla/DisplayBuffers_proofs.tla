------------------------ MODULE DisplayBuffers_proofs ------------------------
(***************************************************************************)
(* Theorems about DisplayBuffers, for every set of layers, every pool and  *)
(* every osd_num.                                                          *)
(***************************************************************************)
EXTENDS DisplayBuffers, FiniteSetTheorems, TLAPS

(* BlocksOwned, block by block and layer by layer.                         *)
Owned ==
  /\ \A b \in OsdBlocks : b \in out <=> b = spare \/ \E l \in Layers : layerBuffer[l] = b
  /\ \A l \in Layers : layerBuffer[l] # Nothing => layerBuffer[l] # spare
  /\ \A l, m \in Layers : l # m /\ layerBuffer[l] # Nothing => layerBuffer[l] # layerBuffer[m]

(* A spare on a screen has been replaced there from the moment it became   *)
(* the spare, not only when it is waited for.                              *)
Replaced ==
  /\ spareLayer # Nothing /\ Holds(spareLayer, spare) => queued[spareLayer] # Nothing /\ queued[spareLayer] # spare
  /\ spare = Nothing => spareLayer = Nothing

(* No more layers have blocks than the program asked for.                  *)
Budget == IF rotated THEN Working = {} /\ spareLayer = Nothing ELSE Cardinality(Working) <= osdNum

(* What the steps of show_image have established.                          *)
InShow ==
  /\ call.at \in {"prepare", "wait", "take", "push"} => up /\ call.layer \in Layers
  /\ call.at \in {"wait", "take", "push"} /\ ~call.direct => ~OverBudget
  /\ call.at = "wait" => WaitsForSpare
  /\ call.at \in {"take", "push"} => ~WaitsForSpare
  /\ call.at = "push" /\ ~call.direct => spare # Nothing

(* A display that is down shows nothing and, once it is freed, has nothing.*)
Down ==
  /\ call.at \in {"free", "reopen", "open"} => ~up
  /\ ~up => \A l \in Layers : current[l] = Nothing /\ queued[l] = Nothing
  /\ ~up /\ call.at \notin {"free", "reopen"} => out = {} /\ spare = Nothing /\ Working = {} /\ osdNum = 0

(* The inductive invariant.                                                *)
IInv == TypeOK /\ Owned /\ ShownIsOwned /\ Replaced /\ Budget /\ InShow /\ Down

-----------------------------------------------------------------------------
(* No call in progress is a value that call may take.                      *)
LEMMA IdleType ==
  Idle \in [at : {"idle", "free", "reopen", "open", "prepare", "wait", "take", "push"},
            layer : Layers \cup {Nothing}, direct : BOOLEAN]
  BY DEF Idle

(* The layers with a block are a finite set.                               *)
LEMMA WorkingFinite == IsFiniteSet(Working) /\ Cardinality(Working) \in Nat
  BY OsdAssumption, FS_Subset, FS_CardinalityType DEF OsdAssumption, Working

(* A set of blocks is the same set whether its members are enumerated or   *)
(* told one by one.                                                        *)
LEMMA OwnedBlocks == ASSUME TypeOK, Owned PROVE BlocksOwned
<1>1. \A b \in out : b \in {layerBuffer[l] : l \in Working} \cup ({spare} \ {Nothing})
  BY OsdAssumption DEF OsdAssumption, TypeOK, Owned, Working
<1>2. \A b \in {layerBuffer[l] : l \in Working} \cup ({spare} \ {Nothing}) : b \in out
  BY OsdAssumption DEF OsdAssumption, TypeOK, Owned, Working
<1>3. out = {layerBuffer[l] : l \in Working} \cup ({spare} \ {Nothing})
  BY <1>1, <1>2
<1> QED
  BY <1>3 DEF Owned, BlocksOwned, Working

(* Initially nothing is configured, taken or shown.                        *)
LEMMA InitIInv == ASSUME Init PROVE IInv
<1>1. Working = {} /\ Cardinality(Working) = 0
  BY FS_EmptySet DEF Init, Working
<1>2. TypeOK
  <2>1. up \in BOOLEAN /\ rotated \in BOOLEAN
    BY DEF Init
  <2>2. call \in [at : {"idle", "free", "reopen", "open", "prepare", "wait", "take", "push"},
                 layer : Layers \cup {Nothing}, direct : BOOLEAN]
    BY IdleType DEF Init
  <2> QED
    BY <2>1, <2>2, OsdAssumption DEF OsdAssumption, Init, TypeOK, Frames
<1>3. Owned /\ ShownIsOwned /\ Replaced
  BY OsdAssumption DEF OsdAssumption, Init, Owned, ShownIsOwned, Replaced, Holds
<1>4. Budget /\ InShow /\ Down
  BY <1>1, OsdAssumption DEF OsdAssumption, Init, Budget, InShow, Down, Idle
<1> QED
  BY <1>2, <1>3, <1>4 DEF IInv

-----------------------------------------------------------------------------
(* Every step keeps the types.                                             *)
LEMMA TypeStep == ASSUME TypeOK, InShow, Next PROVE TypeOK'
<1> USE IdleType, OsdAssumption DEF OsdAssumption, TypeOK, Frames, settings, buffers, vo, Goto
<1>1. CASE DeinitVo
  BY <1>1 DEF DeinitVo
<1>2. CASE DisplayInit
  <2>1. up' \in BOOLEAN /\ rotated' \in BOOLEAN
    BY <1>2 DEF DisplayInit
  <2>2. osdNum' \in 0 .. MaxOsd
    BY <1>2 DEF DisplayInit
  <2> QED
    BY <1>2, <2>1, <2>2 DEF DisplayInit
<1>3. ASSUME NEW l \in Layers, ConfigLayer(l) PROVE TypeOK'
  BY <1>3 DEF ConfigLayer, ConfigLayerInst, VoDisable
<1>4. ASSUME NEW l \in Layers, DisableLayer(l) PROVE TypeOK'
  BY <1>4 DEF DisableLayer, VoDisable
<1>5. ASSUME NEW l \in Layers, NEW direct \in BOOLEAN, Show(l, direct) PROVE TypeOK'
  BY <1>5 DEF Show, ConfigLayerInst, VoDisable
<1>6. CASE DeinitFree
  BY <1>6 DEF DeinitFree
<1>7. CASE ShowPrepare \/ SpareReleased \/ WaitFails \/ PushFails
  BY <1>7 DEF ShowPrepare, SpareReleased, WaitFails, PushFails
<1>8. CASE ShowTake
  BY <1>8 DEF ShowTake
<1>9. CASE PushCopied
  <2>1. call.layer \in Layers /\ call' = Idle
    BY <1>9 DEF InShow, PushCopied
  <2>2. queued' \in [Layers -> Frames] /\ UNCHANGED current
    BY <1>9, <2>1 DEF PushCopied, Push
  <2>3. /\ layerBuffer' \in [Layers -> OsdBlocks \cup {Nothing}]
        /\ spare' \in OsdBlocks \cup {Nothing} /\ spareLayer' \in Layers \cup {Nothing}
        /\ out' \subseteq OsdBlocks
    BY <1>9, <2>1 DEF PushCopied, SwapLayerBuffer
  <2> QED
    BY <1>9, <2>1, <2>2, <2>3 DEF PushCopied
<1>10. CASE PushDirect
  <2>1. call.layer \in Layers /\ call' = Idle
    BY <1>10 DEF InShow, PushDirect
  <2>2. queued' \in [Layers -> Frames] /\ UNCHANGED current
    BY <1>10, <2>1 DEF PushDirect, Push
  <2>3. /\ layerBuffer' \in [Layers -> OsdBlocks \cup {Nothing}]
        /\ spare' \in OsdBlocks \cup {Nothing} /\ spareLayer' \in Layers \cup {Nothing}
        /\ out' \subseteq OsdBlocks
    BY <1>10, <2>1 DEF PushDirect, SwapLayerBuffer
  <2> QED
    BY <1>10, <2>1, <2>2, <2>3 DEF PushDirect
<1>11. CASE VerticalSync
  BY <1>11 DEF VerticalSync
<1>12. CASE SourceFrame
  BY <1>12 DEF SourceFrame, Push
<1> QED
  BY <1>1, <1>2, <1>3, <1>4, <1>5, <1>6, <1>7, <1>8, <1>9, <1>10, <1>11, <1>12 DEF Next, Calls, Steps

-----------------------------------------------------------------------------
(* A step that takes no layer a block more, keeps the budget.              *)
LEMMA BudgetShrinks ==
  ASSUME TypeOK, IF rotated THEN Working = {} ELSE Cardinality(Working) <= osdNum,
         UNCHANGED <<rotated, osdNum>>, Working' \subseteq Working, rotated => spareLayer' = Nothing
  PROVE  Budget'
<1>1. Cardinality(Working') <= Cardinality(Working) /\ Cardinality(Working') \in Nat
  BY WorkingFinite, FS_Subset, FS_CardinalityType
<1> QED
  BY <1>1, WorkingFinite DEF Budget, TypeOK

(* The screens change, or the call, with all buffers as they are.          *)
LEMMA ScreenStep ==
  ASSUME IInv, UNCHANGED <<settings, buffers>>,
         up \/ UNCHANGED vo,
         call' = call \/ (up /\ call'.at \in {"idle", "prepare", "wait", "take", "push"}),
         \A l \in Layers, b \in OsdBlocks : Holds(l, b)' => Holds(l, b),
         Replaced'
  PROVE  Owned' /\ ShownIsOwned' /\ Replaced' /\ Budget' /\ Down'
<1> USE DEF IInv, settings, buffers, vo
<1>1. Working' = Working
  BY DEF Working
<1>2. Owned' /\ Budget'
  BY <1>1 DEF Owned, Budget
<1>3. ShownIsOwned'
  BY DEF ShownIsOwned, TypeOK
<1>4. Down'
  BY <1>1 DEF Down
<1> QED
  BY <1>2, <1>3, <1>4

(* VO's own steps, and a layer's configuration.                            *)
LEMMA VerticalSyncStep == ASSUME IInv, VerticalSync PROVE IInv'
<1> USE OsdAssumption DEF OsdAssumption, IInv, settings, buffers, vo
<1>1. up /\ UNCHANGED <<settings, configed, buffers, call>>
  BY DEF VerticalSync, Down
<1>2. \A l \in Layers, b \in OsdBlocks : Holds(l, b)' => Holds(l, b)
  BY DEF VerticalSync, Holds, TypeOK
<1>3. Replaced'
  BY DEF VerticalSync, Replaced, Holds, TypeOK
<1>4. InShow'
  BY <1>1 DEF InShow, OverBudget, WaitsForSpare, Working
<1> QED
  BY <1>1, <1>2, <1>3, <1>4, ScreenStep, TypeStep DEF Next

LEMMA SourceFrameStep == ASSUME IInv, SourceFrame PROVE IInv'
<1> USE OsdAssumption DEF OsdAssumption, IInv, settings, buffers, vo
<1>1. up /\ UNCHANGED <<settings, configed, buffers, call>>
  BY DEF SourceFrame
<1>2. PICK l \in Layers : Push(l, Other)
  BY DEF SourceFrame, TypeOK
<1>3. \A m \in Layers, b \in OsdBlocks : Holds(m, b)' => Holds(m, b)
  BY <1>2 DEF Push, Holds, TypeOK, Other, Nothing
<1>4. Replaced'
  BY <1>1, <1>2 DEF Push, Replaced, Holds, TypeOK, Other, Nothing
<1>5. InShow'
  BY <1>1 DEF InShow, OverBudget, WaitsForSpare, Working
<1> QED
  BY <1>1, <1>3, <1>4, <1>5, ScreenStep, TypeStep DEF Next

(* Disabling a layer releases what it shows.                               *)
LEMMA VoDisabled ==
  ASSUME IInv, NEW l \in Layers, UNCHANGED <<settings, buffers>>, VoDisable(l) \/ UNCHANGED vo
  PROVE  Replaced' /\ \A m \in Layers, b \in OsdBlocks : Holds(m, b)' => Holds(m, b)
  BY OsdAssumption DEF OsdAssumption, IInv, VoDisable, Replaced, Holds, TypeOK, vo, buffers

LEMMA ConfigLayerStep == ASSUME IInv, NEW l \in Layers, ConfigLayer(l) PROVE IInv'
<1> USE DEF IInv, settings, buffers, vo
<1>1. UNCHANGED <<settings, buffers, call>> /\ (VoDisable(l) \/ UNCHANGED vo) /\ (up \/ UNCHANGED vo)
  BY DEF ConfigLayer, ConfigLayerInst
<1>2. Replaced' /\ \A m \in Layers, b \in OsdBlocks : Holds(m, b)' => Holds(m, b)
  BY <1>1, VoDisabled
<1>3. InShow'
  BY <1>1 DEF InShow, OverBudget, WaitsForSpare, Working
<1> QED
  BY <1>1, <1>2, <1>3, ScreenStep, TypeStep DEF Next, Calls

LEMMA ShowStep == ASSUME IInv, NEW l \in Layers, NEW direct \in BOOLEAN, Show(l, direct) PROVE IInv'
<1> USE DEF IInv, settings, buffers, vo
<1>1. up /\ UNCHANGED <<settings, buffers>> /\ (VoDisable(l) \/ UNCHANGED vo)
  BY DEF Show, ConfigLayerInst
<1>2. call'.at = "idle" \/ (call'.at = "prepare" /\ call'.layer = l)
  BY DEF Show, Idle
<1>3. Replaced' /\ \A m \in Layers, b \in OsdBlocks : Holds(m, b)' => Holds(m, b)
  BY <1>1, VoDisabled
<1>4. InShow'
  BY <1>1, <1>2 DEF InShow
<1> QED
  BY <1>1, <1>2, <1>3, <1>4, ScreenStep, TypeStep DEF Next, Calls

(* The steps of show_image that only lead on.                              *)
LEMMA LeadsOn == ASSUME IInv, ShowPrepare \/ WaitFails \/ PushFails PROVE IInv'
<1> USE DEF IInv, settings, buffers, vo
<1>1. up /\ UNCHANGED <<settings, buffers, vo>> /\ call'.at \in {"idle", "wait", "take"}
  BY DEF ShowPrepare, WaitFails, PushFails, InShow, Goto, Idle, TypeOK
<1>2. Replaced' /\ \A m \in Layers, b \in OsdBlocks : Holds(m, b)' => Holds(m, b)
  BY <1>1 DEF Replaced, Holds
<1>3. InShow'
  <2>1. CASE ShowPrepare /\ call' # Idle
    <3>1. /\ call' = [call EXCEPT !.at = IF WaitsForSpare THEN "wait" ELSE "take"]
          /\ call.at = "prepare" /\ (call.direct \/ ~OverBudget)
      BY <2>1 DEF ShowPrepare, Goto
    <3>2. call'.layer = call.layer /\ call'.direct = call.direct
      BY <3>1 DEF TypeOK
    <3>3. (OverBudget' <=> OverBudget) /\ (WaitsForSpare' <=> WaitsForSpare)
      BY <1>1, <3>2 DEF OverBudget, WaitsForSpare, Working
    <3> QED
      BY <1>1, <3>1, <3>2, <3>3 DEF InShow, TypeOK
  <2>2. CASE call' = Idle
    BY <2>2 DEF Idle, InShow
  <2> QED
    BY <2>1, <2>2 DEF WaitFails, PushFails
<1> QED
  BY <1>1, <1>2, <1>3, ScreenStep, TypeStep DEF Next, Steps

(* The spare of a layer that has let it go is nobody's.                    *)
LEMMA SpareReleasedStep == ASSUME IInv, SpareReleased PROVE IInv'
<1> USE OsdAssumption DEF OsdAssumption, IInv, settings, vo
<1>1. /\ up /\ spareLayer \in Layers /\ ~Holds(spareLayer, spare) /\ spareLayer' = Nothing
      /\ UNCHANGED <<settings, configed, layerBuffer, spare, out, vo>>
      /\ call.at = "wait" /\ call' = [call EXCEPT !.at = "take"]
  BY DEF SpareReleased, InShow, WaitsForSpare, Goto, TypeOK
<1>2. call'.at = "take" /\ call'.layer = call.layer /\ call'.direct = call.direct
  BY <1>1 DEF TypeOK
<1>3. Working' = Working
  BY <1>1 DEF Working
<1>4. Owned' /\ Budget' /\ Replaced' /\ Down'
  BY <1>1, <1>2, <1>3 DEF Owned, Budget, Replaced, Down
<1>5. ShownIsOwned'
  BY <1>1 DEF ShownIsOwned, Holds, TypeOK
<1>6. InShow'
  BY <1>1, <1>2, <1>3 DEF InShow, OverBudget, WaitsForSpare
<1> QED
  BY <1>4, <1>5, <1>6, TypeStep DEF Next, Steps

(* A block that is taken was nobody's and on no screen.                    *)
LEMMA ShowTakeStep == ASSUME IInv, ShowTake PROVE IInv'
<1> USE OsdAssumption DEF OsdAssumption, IInv, settings, buffers, vo
<1>1. up /\ call.at = "take" /\ ~WaitsForSpare /\ call.layer \in Layers /\ (~call.direct => ~OverBudget)
  BY DEF ShowTake, InShow
<1>2. CASE UNCHANGED buffers
  <2>1. UNCHANGED <<settings, buffers, vo>>
    BY <1>2 DEF ShowTake
  <2>2. call' = Idle \/ (call' = [call EXCEPT !.at = "push"] /\ (call.direct \/ spare # Nothing))
    BY <1>2 DEF ShowTake, Goto, TypeOK
  <2>3. call'.at = "idle" \/ (call'.at = "push" /\ call'.layer = call.layer /\ call'.direct = call.direct)
    BY <2>2 DEF TypeOK, Idle
  <2>4. Replaced' /\ \A m \in Layers, b \in OsdBlocks : Holds(m, b)' => Holds(m, b)
    BY <2>1 DEF Replaced, Holds
  <2>5. InShow'
    BY <1>1, <2>1, <2>2, <2>3 DEF InShow, OverBudget, WaitsForSpare, Working, Idle
  <2> QED
    BY <1>1, <2>1, <2>3, <2>4, <2>5, ScreenStep, TypeStep DEF Next, Steps
<1>3. CASE ~UNCHANGED buffers
  <2>1. /\ ~call.direct /\ spare = Nothing /\ spareLayer = Nothing
        /\ UNCHANGED <<settings, configed, layerBuffer, spareLayer, vo>>
        /\ call' = [call EXCEPT !.at = "push"]
    BY <1>3 DEF ShowTake, Replaced, Goto
  <2>2. PICK b \in OsdBlocks \ out : spare' = b /\ out' = out \cup {b}
    BY <1>3 DEF ShowTake
  <2>3. call'.at = "push" /\ call'.layer = call.layer /\ call'.direct = call.direct
    BY <2>1 DEF TypeOK
  <2>4. Working' = Working
    BY <2>1 DEF Working
  <2>5. Owned'
    BY <2>1, <2>2 DEF Owned, TypeOK
  <2>6. ShownIsOwned'
    BY <2>1, <2>2 DEF ShownIsOwned, Holds, TypeOK
  <2>7. Budget' /\ Replaced' /\ Down'
    BY <1>1, <2>1, <2>2, <2>3, <2>4 DEF Budget, Replaced, Down
  <2>8. InShow'
    BY <1>1, <2>1, <2>2, <2>3, <2>4 DEF InShow, OverBudget, WaitsForSpare
  <2> QED
    BY <2>5, <2>6, <2>7, <2>8, TypeStep DEF Next, Steps
<1> QED
  BY <1>2, <1>3

(* The frame that is replaced becomes the spare; the one that was pushed   *)
(* had been released before.                                               *)
LEMMA PushCopiedStep == ASSUME IInv, PushCopied PROVE IInv'
<1> USE OsdAssumption DEF OsdAssumption, IInv, settings, vo
<1> DEFINE l == call.layer
<1>1. /\ up /\ l \in Layers /\ ~OverBudget /\ ~WaitsForSpare /\ spare # Nothing /\ ~call.direct
      /\ UNCHANGED <<settings, configed, current>> /\ call'.at = "idle" /\ Push(l, spare)
  BY DEF PushCopied, InShow, Push, Idle
<1>2. CASE rotated
  <2>1. UNCHANGED buffers /\ queued' = [queued EXCEPT ![l] = Other]
    BY <1>1, <1>2 DEF PushCopied, Push
  <2>2. Replaced' /\ \A m \in Layers, b \in OsdBlocks : Holds(m, b)' => Holds(m, b)
    BY <1>1, <1>2, <2>1 DEF Replaced, Holds, TypeOK, Budget, buffers, Other, Nothing
  <2>3. InShow'
    BY <1>1 DEF InShow
  <2> QED
    BY <1>1, <2>1, <2>2, <2>3, ScreenStep, TypeStep DEF Next, Steps
<1>3. CASE ~rotated
  <2>1. /\ spareLayer = Nothing
        /\ queued' = [queued EXCEPT ![l] = spare]
        /\ layerBuffer' = [layerBuffer EXCEPT ![l] = spare]
        /\ spare' = layerBuffer[l] /\ spareLayer' = (IF layerBuffer[l] # Nothing THEN l ELSE Nothing)
        /\ out' = out
    BY <1>1, <1>3 DEF PushCopied, Push, SwapLayerBuffer, WaitsForSpare
  <2>2. Owned'
    BY <1>1, <2>1 DEF Owned, TypeOK
  <2>3. ShownIsOwned'
    BY <1>1, <2>1 DEF ShownIsOwned, Holds, Owned, TypeOK
  <2>4. Replaced'
    BY <1>1, <2>1 DEF Replaced, Holds, Owned, TypeOK
  <2>5. Budget'
    <3>1. Working' = Working \cup {l}
      BY <1>1, <2>1 DEF Working, TypeOK
    <3>2. CASE layerBuffer[l] # Nothing
      BY <1>1, <1>3, <3>1, <3>2 DEF Working, Budget
    <3>3. CASE layerBuffer[l] = Nothing
      <4>1. Cardinality(Working') = Cardinality(Working) + 1
        BY <3>1, <3>3, WorkingFinite, FS_AddElement DEF Working
      <4>2. Cardinality(Working) < osdNum
        BY <1>1, <1>3, <3>3, WorkingFinite DEF OverBudget, TypeOK
      <4> QED
        BY <1>1, <1>3, <4>1, <4>2, WorkingFinite DEF Budget, TypeOK
    <3> QED
      BY <3>2, <3>3
  <2>6. InShow' /\ Down'
    BY <1>1 DEF InShow, Down
  <2> QED
    BY <2>2, <2>3, <2>4, <2>5, <2>6, TypeStep DEF Next, Steps
<1> QED
  BY <1>2, <1>3

(* A direct frame frees the former spare, which no screen has any more.    *)
LEMMA PushDirectStep == ASSUME IInv, PushDirect PROVE IInv'
<1> USE OsdAssumption DEF OsdAssumption, IInv, settings, vo
<1> DEFINE l == call.layer
<1>1. /\ up /\ l \in Layers /\ ~WaitsForSpare /\ call.direct
      /\ UNCHANGED <<settings, configed, current>> /\ call'.at = "idle"
      /\ queued' = [queued EXCEPT ![l] = Other]
  BY DEF PushDirect, InShow, Push, Idle
<1>2. InShow'
  BY <1>1 DEF InShow
<1>3. CASE UNCHANGED buffers
  <2>1. Replaced' /\ \A m \in Layers, b \in OsdBlocks : Holds(m, b)' => Holds(m, b)
    BY <1>1, <1>3 DEF Replaced, Holds, TypeOK, buffers, Other, Nothing
  <2> QED
    BY <1>1, <1>2, <1>3, <2>1, ScreenStep, TypeStep DEF Next, Steps
<1>4. CASE ~UNCHANGED buffers
  <2>1. /\ ~rotated /\ layerBuffer[l] # Nothing /\ out' = out \ {spare}
        /\ layerBuffer' = [layerBuffer EXCEPT ![l] = Nothing]
        /\ spare' = layerBuffer[l] /\ spareLayer' = l
    BY <1>1, <1>4 DEF PushDirect, SwapLayerBuffer
  <2>2. spareLayer = Nothing
    BY <1>1, <2>1 DEF WaitsForSpare, Replaced
  <2>3. Owned'
    BY <1>1, <2>1 DEF Owned, TypeOK
  <2>4. ShownIsOwned'
    BY <1>1, <2>1, <2>2 DEF ShownIsOwned, Holds, Owned, TypeOK, Other, Nothing
  <2>5. Replaced'
    BY <1>1, <2>1 DEF Replaced, Holds, TypeOK, Other, Nothing
  <2>6. Working' \subseteq Working
    BY <1>1, <2>1 DEF Working, TypeOK
  <2>7. Budget'
    BY <1>1, <2>1, <2>6, BudgetShrinks DEF Budget
  <2>8. Down'
    BY <1>1 DEF Down
  <2> QED
    BY <1>2, <2>3, <2>4, <2>5, <2>7, <2>8, TypeStep DEF Next, Steps
<1> QED
  BY <1>3, <1>4

(* A disabled layer's block goes back; the spare it left is nobody's.      *)
LEMMA DisableLayerStep == ASSUME IInv, NEW l \in Layers, DisableLayer(l) PROVE IInv'
<1> USE OsdAssumption DEF OsdAssumption, IInv, settings
<1>1. UNCHANGED <<settings, spare, call>> /\ call.at = "idle"
  BY DEF DisableLayer, Idle
<1>2. InShow'
  BY <1>1 DEF InShow
<1>3. CASE l \notin configed
  <2>1. UNCHANGED <<settings, buffers, vo, call>>
    BY <1>1, <1>3 DEF DisableLayer, buffers
  <2>2. Replaced' /\ \A m \in Layers, b \in OsdBlocks : Holds(m, b)' => Holds(m, b)
    BY <2>1 DEF Replaced, Holds, buffers, vo
  <2> QED
    BY <1>2, <2>1, <2>2, ScreenStep, TypeStep DEF Next, Calls
<1>4. CASE l \in configed
  <2>1. /\ VoDisable(l) /\ layerBuffer' = [layerBuffer EXCEPT ![l] = Nothing] /\ out' = out \ {layerBuffer[l]}
        /\ spareLayer' = (IF spareLayer = l THEN Nothing ELSE spareLayer)
    BY <1>4 DEF DisableLayer
  <2>2. Owned'
    BY <1>1, <2>1 DEF Owned, TypeOK
  <2>3. \A m \in Layers, b \in OsdBlocks : Holds(m, b)' => m # l /\ Holds(m, b)
    BY <2>1 DEF VoDisable, Holds, TypeOK
  <2>4. ShownIsOwned'
    BY <1>1, <2>1, <2>3 DEF ShownIsOwned, Owned, TypeOK
  <2>5. Replaced'
    BY <1>1, <2>1 DEF Replaced, VoDisable, Holds, TypeOK
  <2>6. Working' \subseteq Working
    BY <2>1 DEF Working, TypeOK
  <2>7. Budget'
    BY <1>1, <2>1, <2>6, BudgetShrinks DEF Budget
  <2>8. Down'
    <3>1. ASSUME up PROVE Down'
      BY <1>1, <3>1 DEF Down
    <3>2. ASSUME ~up PROVE Down'
      <4>1. out' = {} /\ spare' = Nothing /\ Working' = {} /\ osdNum' = 0
        BY <1>1, <2>1, <2>6, <3>2 DEF Down
      <4>2. \A m \in Layers : current'[m] = Nothing /\ queued'[m] = Nothing
        BY <2>1, <3>2 DEF Down, VoDisable, TypeOK
      <4> QED
        BY <1>1, <4>1, <4>2 DEF Down
    <3> QED
      BY <3>1, <3>2
  <2> QED
    BY <1>2, <2>2, <2>4, <2>5, <2>7, <2>8, TypeStep DEF Next, Calls
<1> QED
  BY <1>3, <1>4

(* Display.deinit and Display.init: what is down has nothing.              *)
LEMMA DeinitVoStep == ASSUME IInv, DeinitVo PROVE IInv'
<1> USE OsdAssumption DEF OsdAssumption, IInv, buffers
<1>1. /\ UNCHANGED <<rotated, osdNum, buffers>> /\ ~up' /\ call'.at \in {"free", "reopen"}
      /\ \A l \in Layers : current'[l] = Nothing /\ queued'[l] = Nothing
  BY DEF DeinitVo, Goto, TypeOK
<1>2. Working' = Working
  BY <1>1 DEF Working
<1>3. Owned' /\ Budget' /\ InShow' /\ Down'
  BY <1>1, <1>2 DEF Owned, Budget, InShow, Down
<1>4. ShownIsOwned' /\ Replaced'
  BY <1>1 DEF ShownIsOwned, Replaced, Holds, TypeOK
<1> QED
  BY <1>3, <1>4, TypeStep DEF Next, Calls

LEMMA DeinitFreeStep == ASSUME IInv, DeinitFree PROVE IInv'
<1> USE OsdAssumption DEF OsdAssumption, IInv, vo
<1>1. /\ UNCHANGED <<up, rotated, configed, vo>> /\ ~up /\ call'.at \in {"open", "idle"}
      /\ layerBuffer' = [l \in Layers |-> Nothing] /\ spare' = Nothing /\ spareLayer' = Nothing /\ osdNum' = 0
  BY DEF DeinitFree, Goto, Down, Idle, TypeOK
<1>2. out' = {}
  <2>1. \A b \in out : b \in {spare} \cup {layerBuffer[l] : l \in Layers}
    BY DEF Owned, TypeOK
  <2> QED
    BY <2>1 DEF DeinitFree
<1>3. Working' = {} /\ Cardinality(Working') = 0
  BY <1>1, FS_EmptySet DEF Working
<1>4. Owned' /\ Budget' /\ InShow' /\ Down'
  BY <1>1, <1>2, <1>3 DEF Owned, Budget, InShow, Down
<1>5. ShownIsOwned' /\ Replaced'
  BY <1>1 DEF ShownIsOwned, Replaced, Holds, Down
<1> QED
  BY <1>4, <1>5, TypeStep DEF Next, Steps

LEMMA DisplayInitStep == ASSUME IInv, DisplayInit PROVE IInv'
<1> USE OsdAssumption DEF OsdAssumption, IInv, buffers, vo
<1>1. /\ ~up /\ UNCHANGED <<configed, buffers, vo>> /\ call'.at = "idle" /\ osdNum' \in Nat
      /\ up' \/ osdNum' = osdNum
  BY DEF DisplayInit, Idle, settings, TypeOK
<1>2. out = {} /\ spare = Nothing /\ Working = {} /\ osdNum = 0 /\ spareLayer = Nothing
  BY DEF DisplayInit, Down, Replaced
<1>3. Working' = {} /\ Cardinality(Working') = 0
  BY <1>1, <1>2, FS_EmptySet DEF Working
<1>4. Owned' /\ Budget' /\ InShow' /\ Down'
  BY <1>1, <1>2, <1>3 DEF Owned, Budget, InShow, Down
<1>5. ShownIsOwned' /\ Replaced'
  BY <1>1, <1>2 DEF ShownIsOwned, Replaced, Holds, Down
<1> QED
  BY <1>4, <1>5, TypeStep DEF Next, Calls

-----------------------------------------------------------------------------
(* IInv is inductive.                                                      *)
LEMMA StepIInv == ASSUME IInv, [Next]_vars PROVE IInv'
<1>1. CASE Next
  BY <1>1, DeinitVoStep, DisplayInitStep, ConfigLayerStep, DisableLayerStep, ShowStep, DeinitFreeStep, LeadsOn,
     SpareReleasedStep, ShowTakeStep, PushCopiedStep, PushDirectStep, VerticalSyncStep, SourceFrameStep
     DEF Next, Calls, Steps
<1>2. CASE UNCHANGED vars
  BY <1>2 DEF vars, settings, buffers, vo, IInv, TypeOK, Owned, ShownIsOwned, Holds, Replaced, Budget, Working, InShow,
              OverBudget, WaitsForSpare, Down
<1> QED
  BY <1>1, <1>2

(* A spare that is to be taken from the pool is there: the layers and it   *)
(* are not more than the pool has blocks.                                  *)
LEMMA TakeSucceeds == ASSUME IInv PROVE BlockToTake
<1> SUFFICES ASSUME spare = Nothing, osdNum # 0
             PROVE  Cardinality(out) < PoolSize
  BY DEF BlockToTake
<1>1. out = {layerBuffer[l] : l \in Working}
  BY OwnedBlocks DEF IInv, BlocksOwned
<1>2. Cardinality(out) <= Cardinality(Working) /\ Cardinality(out) \in Nat
  <2> DEFINE f == [l \in Working |-> layerBuffer[l]]
  <2>1. f \in Surjection(Working, out)
    BY <1>1 DEF Surjection
  <2> QED
    BY <2>1, WorkingFinite, FS_Surjection, FS_CardinalityType
<1>3. rotated => Cardinality(Working) = 0
  BY FS_EmptySet DEF IInv, Budget
<1> QED
  BY <1>2, <1>3, WorkingFinite DEF IInv, Budget, PoolSize, TypeOK

(* What the invariant says of the running program.                         *)
LEMMA InvariantSound == ASSUME IInv PROVE DisplayBuffersSound
<1>1. BlocksOwned /\ BlockToTake /\ ShownIsOwned
  BY OwnedBlocks, TakeSucceeds DEF IInv
<1>2. WritesReleased
  BY OsdAssumption DEF OsdAssumption, IInv, TypeOK, Owned, ShownIsOwned, Budget, InShow, WaitsForSpare, WritesReleased
<1>3. WaitsForReplaced
  BY DEF IInv, InShow, WaitsForSpare, Replaced, WaitsForReplaced
<1> QED
  BY <1>1, <1>2, <1>3 DEF DisplayBuffersSound

(* Whatever the layers, the pool and osd_num: the variables keep their     *)
(* types, for a display that is opened, shown upon and closed at will.     *)
THEOREM TypeCorrect == Spec => []TypeOK
<1>1. Init => IInv
  BY InitIInv
<1>2. IInv /\ [Next]_vars => IInv'
  BY StepIInv
<1>3. IInv => TypeOK
  BY DEF IInv
<1> QED
  BY <1>1, <1>2, <1>3, PTL DEF Spec

(* The blocks of the OSD pool have one owner each, are enough, and are     *)
(* neither drawn upon nor freed while VO has them, through every mixture   *)
(* of copied and direct frames, timeouts, failed calls, disabled layers    *)
(* and restarts of the display.                                            *)
THEOREM BuffersSound == Spec => []DisplayBuffersSound
<1>1. Init => IInv
  BY InitIInv
<1>2. IInv /\ [Next]_vars => IInv'
  BY StepIInv
<1>3. IInv => DisplayBuffersSound
  BY InvariantSound
<1> QED
  BY <1>1, <1>2, <1>3, PTL DEF Spec
=============================================================================
