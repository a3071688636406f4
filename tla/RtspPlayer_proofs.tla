------------------------- MODULE RtspPlayer_proofs -------------------------
(***************************************************************************)
(* Theorems about RtspPlayer, for any threads inside get_frame and any     *)
(* length of the queue.                                                    *)
(***************************************************************************)
EXTENDS RtspPlayer, SequenceTheorems, TLAPS

(* Only a started player has a decode thread, until stop() joins it.       *)
Decoding ==
  /\ player.started => op.at \in {"idle", "stop"} /\ decoder.pc # "none"
  /\ player.decodeRun = player.started
  /\ decoder.pc # "none" => player.opened /\ (player.started \/ op.at = "join")
  /\ decoder.pc = "done" => ~player.started
  /\ decoder.pc = "send" => decoder.batch >= 1
  /\ decoder.pc \in {"drain", "convert"} =>
       decoder.after = "check" \/ (decoder.after = "send" /\ decoder.batch >= 1)

(* A session has its player open, but for the steps between Open() and     *)
(* opened_ and between opened_ and Close().                                *)
Sessions ==
  /\ live.calling # "none" => live.sess # "none"
  /\ live.sess # "none" => player.opened \/ op.at \in {"opened", "closing"}
  /\ op.at \in {"reset", "open", "opened", "closing"} => ~player.opened
  /\ op.at \in {"asleep", "awake", "create"} => player.opened
  /\ op.at \in {"close", "closing"} => op.then # "none"
  /\ ~exists => ~player.opened /\ ~player.started /\ op.at = "idle"

(* Between a loss and the next key frame the player asks for a key frame.  *)
Chain == decoder.pc # "none" /\ ~kept => player.needIdr

(* A view is lent by a started player, and not while one is being made.    *)
Views ==
  /\ player.waiting => /\ \E r \in Readers : WaitingInGetFrame(r)
                       /\ \A r \in Readers : readers[r].view = "none"
  /\ ~player.started => \A r \in Readers : readers[r].view = "none"

(* The inductive invariant.                                                *)
IInv == /\ TypeOK /\ Decoding /\ Sessions /\ Chain /\ Views
        /\ QueueFollowsOn /\ NoLostWakeup /\ BuffersOutliveUsers

-----------------------------------------------------------------------------
ReaderStates == [Readers -> [pc : {"idle", "called", "asleep", "awake"}, view : {"none", "lent", "dangling"}]]
DecoderStates == [pc : {"none", "top", "asleep", "send", "drain", "convert", "check", "done"},
                  batch : 0 .. CacheCount, after : {"none", "send", "check"}]
Ops == [call : {"none", "create", "init", "start", "stop", "destroy", "deinit_all"},
        at : {"idle", "reset", "open", "opened", "asleep", "awake", "create", "close", "closing",
              "join", "teardown", "stop", "deinit", "client_deinit"},
        then : {"none", "reset", "open", "fail", "teardown"}]

(* What a notification does to the threads that sleep, and what revoking   *)
(* or unmapping does to the views.                                         *)
LEMMA NotifyFacts ==
  ASSUME NEW rs \in ReaderStates
  PROVE  /\ FrameNotified(rs) \in ReaderStates /\ Revoked(rs) \in ReaderStates /\ Unmapped(rs) \in ReaderStates
         /\ \A r \in Readers :
              /\ FrameNotified(rs)[r].pc # "asleep" /\ FrameNotified(rs)[r].view = rs[r].view
              /\ rs[r].pc \in {"asleep", "awake"} => FrameNotified(rs)[r].pc = "awake"
              /\ rs[r].pc \notin {"asleep", "awake"} => FrameNotified(rs)[r].pc = rs[r].pc
              /\ Revoked(rs)[r].pc = rs[r].pc /\ Revoked(rs)[r].view = "none"
              /\ Unmapped(rs)[r].pc = rs[r].pc /\ (rs[r].view = "none" => Unmapped(rs)[r].view = "none")
<1>1. FrameNotified(rs) \in ReaderStates
  BY DEF FrameNotified, ReaderStates
<1>2. Revoked(rs) \in ReaderStates /\ Unmapped(rs) \in ReaderStates
  BY DEF Revoked, Unmapped, ReaderStates
<1>3. ASSUME NEW r \in Readers
      PROVE  /\ FrameNotified(rs)[r].pc # "asleep" /\ FrameNotified(rs)[r].view = rs[r].view
             /\ rs[r].pc \in {"asleep", "awake"} => FrameNotified(rs)[r].pc = "awake"
             /\ rs[r].pc \notin {"asleep", "awake"} => FrameNotified(rs)[r].pc = rs[r].pc
  BY DEF FrameNotified, ReaderStates
<1>4. ASSUME NEW r \in Readers
      PROVE  /\ Revoked(rs)[r].pc = rs[r].pc /\ Revoked(rs)[r].view = "none"
             /\ Unmapped(rs)[r].pc = rs[r].pc /\ (rs[r].view = "none" => Unmapped(rs)[r].view = "none")
  BY DEF Revoked, Unmapped, ReaderStates
<1> QED
  BY <1>1, <1>2, <1>3, <1>4

(* The call of the script moves on, and the decode thread, when notified.  *)
LEMMA WakeFacts ==
  ASSUME TypeOK
  PROVE  /\ DescribeNotified(op) \in Ops
         /\ DescribeNotified(op).at = IF op.at = "asleep" THEN "awake" ELSE op.at
         /\ DescribeNotified(op).then = op.then /\ DescribeNotified(op).call = op.call
         /\ QueueNotified(decoder) \in DecoderStates
         /\ QueueNotified(decoder).pc = IF decoder.pc = "asleep" THEN "top" ELSE decoder.pc
         /\ QueueNotified(decoder).batch = decoder.batch /\ QueueNotified(decoder).after = decoder.after
<1>1. op \in Ops /\ decoder \in DecoderStates
  BY DEF TypeOK, Ops, DecoderStates
<1>2. /\ DescribeNotified(op) \in Ops
      /\ DescribeNotified(op).at = IF op.at = "asleep" THEN "awake" ELSE op.at
      /\ DescribeNotified(op).then = op.then /\ DescribeNotified(op).call = op.call
  BY <1>1 DEF DescribeNotified, Ops
<1>3. /\ QueueNotified(decoder) \in DecoderStates
      /\ QueueNotified(decoder).pc = IF decoder.pc = "asleep" THEN "top" ELSE decoder.pc
      /\ QueueNotified(decoder).batch = decoder.batch /\ QueueNotified(decoder).after = decoder.after
  BY <1>1 DEF QueueNotified, DecoderStates
<1> QED
  BY <1>2, <1>3

(* The ways on from a step of a call.                                      *)
LEMMA OpFacts ==
  ASSUME TypeOK
  PROVE  /\ \A at \in {"open", "opened", "create", "closing", "join", "teardown", "stop", "deinit", "client_deinit",
                       "asleep", "awake"} : Goto(at) => op' \in Ops /\ op'.at = at /\ op'.then = op.then
         /\ \A next \in {"fail", "teardown"} : CloseThen(next) => op' \in Ops /\ op'.at = "close" /\ op'.then = next
         /\ Return => op' \in Ops /\ op'.at = "idle"
         /\ Fail => op' \in Ops /\ op'.at \in {"idle", "stop"}
         /\ op.then # "none" /\ Continue(op.then) =>
              op' \in Ops /\ op'.at \in {"idle", "stop", "reset", "open", "teardown"}
<1> USE DEF TypeOK, Ops
<1>1. ASSUME NEW at \in {"open", "opened", "create", "closing", "join", "teardown", "stop", "deinit", "client_deinit",
                         "asleep", "awake"}, Goto(at)
      PROVE  op' \in Ops /\ op'.at = at /\ op'.then = op.then
  BY <1>1 DEF Goto
<1>2. ASSUME NEW next \in {"fail", "teardown"}, CloseThen(next)
      PROVE  op' \in Ops /\ op'.at = "close" /\ op'.then = next
  BY <1>2 DEF CloseThen
<1>3. Return => op' \in Ops /\ op'.at = "idle"
  BY DEF Return, NoOp
<1>4. Fail => op' \in Ops /\ op'.at \in {"idle", "stop"}
  <2>1. Begin("destroy", "stop", "none") => op' \in Ops /\ op'.at = "stop"
    BY DEF Begin
  <2> QED
    BY <1>3, <2>1 DEF Fail
<1>5. ASSUME op.then # "none", Continue(op.then)
      PROVE  op' \in Ops /\ op'.at \in {"idle", "stop", "reset", "open", "teardown"}
  <2>1. CASE op.then = "fail"
    BY <1>4, <1>5, <2>1 DEF Continue
  <2>2. CASE op.then # "fail"
    BY <1>5, <2>2 DEF Continue, Goto
  <2> QED
    BY <2>1, <2>2
<1> QED
  BY <1>1, <1>2, <1>3, <1>4, <1>5

-----------------------------------------------------------------------------
(* Every step keeps the types,                                             *)
LEMMA TypeStep ==
  ASSUME TypeOK, Decoding, Sessions, [Next]_vars
  PROVE  TypeOK'
<1> USE RtspAssumption
<1>t. /\ live \in [sess : Session, calling : Callback] /\ player \in [Flags -> BOOLEAN]
      /\ queue \in Seq(AccessUnit) /\ Len(queue) \in 0 .. CacheCount /\ Len(queue) <= CacheCount
      /\ kept \in BOOLEAN /\ rgb \in BOOLEAN /\ pipeline \in BOOLEAN /\ muHeld \in BOOLEAN /\ exists \in BOOLEAN
      /\ decoder \in DecoderStates /\ readers \in ReaderStates /\ op \in Ops
  BY DEF TypeOK, ReaderStates, DecoderStates, Ops
<1>n. /\ live' \in [sess : Session, calling : Callback] /\ player' \in [Flags -> BOOLEAN]
      /\ queue' \in Seq(AccessUnit) /\ Len(queue') <= CacheCount
      /\ kept' \in BOOLEAN /\ rgb' \in BOOLEAN /\ pipeline' \in BOOLEAN /\ muHeld' \in BOOLEAN /\ exists' \in BOOLEAN
      /\ decoder' \in DecoderStates /\ readers' \in ReaderStates /\ op' \in Ops
      => TypeOK'
  BY DEF TypeOK, ReaderStates, DecoderStates, Ops
<1>e. /\ 0 \in 0 .. CacheCount
      /\ \A q : q = <<>> => q \in Seq(AccessUnit) /\ Len(q) <= CacheCount
  <2>1. 0 \in 0 .. CacheCount /\ 0 <= CacheCount
    OBVIOUS
  <2>2. ASSUME NEW q, q = <<>>
        PROVE  q \in Seq(AccessUnit) /\ Len(q) = 0
    BY <2>2
  <2>3. \A q : q = <<>> => q \in Seq(AccessUnit) /\ Len(q) <= CacheCount
    BY <2>1, <2>2, Zenon
  <2> QED
    BY <2>1, <2>3
<1>p. NewPlayer \in [Flags -> BOOLEAN] /\ StopFlags \in [Flags -> BOOLEAN]
  BY <1>t DEF NewPlayer, StopFlags, Flags
<1>s. NoSession \in [sess : Session, calling : Callback]
  BY DEF NoSession, Session, Callback
<1>1. CASE BeginCallback
  <2>1. Offers(live.sess) \subseteq Callback
    BY DEF Offers, Callback
  <2> QED
    BY <1>t, <1>n, <1>1, <2>1 DEF BeginCallback
<1>2. CASE Play
  BY <1>t, <1>n, <1>2 DEF Play, Session
<1>3. CASE OnVideoType
  <2>1. player' \in [Flags -> BOOLEAN]
    BY <1>t, <1>3 DEF OnVideoType
  <2>2. live' \in [sess : Session, calling : Callback]
    BY <1>3 DEF OnVideoType, AfterType, Session, Callback
  <2>3. op' \in Ops
    BY <1>3, WakeFacts DEF OnVideoType
  <2> QED
    BY <1>t, <1>n, <1>3, <2>1, <2>2, <2>3 DEF OnVideoType
<1>4. CASE OnVideoData
  <2>0. live' \in [sess : Session, calling : Callback] /\ UNCHANGED <<rgb, readers, op, pipeline, muHeld, exists>>
    BY <1>t, <1>4 DEF OnVideoData, Callback
  <2>1. CASE ~player.opened
    BY <1>t, <1>n, <1>4, <2>0, <2>1 DEF OnVideoData
  <2>2. ASSUME player.opened, NEW key \in BOOLEAN, NEW oversized \in BOOLEAN, NEW bytesFull \in BOOLEAN,
               NEW decision, decision = Admit(key, oversized, Len(queue) >= CacheCount \/ bytesFull, player.needIdr),
               NEW unit \in AccessUnit,
               player' = [player EXCEPT !.needIdr = decision.needIdr],
               kept' = ~decision.drop,
               IF decision.drop
                 THEN UNCHANGED <<queue, decoder>>
                 ELSE /\ queue' = Append(IF decision.clear THEN <<>> ELSE queue, unit)
                      /\ decoder' = QueueNotified(decoder)
        PROVE  TypeOK'
    <3>1. player.needIdr \in BOOLEAN
      BY <1>t DEF Flags
    <3>2. decision.drop \in BOOLEAN /\ decision.needIdr \in BOOLEAN
      BY <2>2, <3>1 DEF Admit
    <3>3. player' \in [Flags -> BOOLEAN] /\ kept' \in BOOLEAN
      BY <1>t, <2>2, <3>2
    <3>4. CASE decision.drop
      BY <1>t, <1>n, <2>0, <2>2, <3>3, <3>4
    <3>5. CASE ~decision.drop
      <4>1. decision.clear <=> (Len(queue) >= CacheCount \/ bytesFull)
        BY <2>2, <3>5 DEF Admit
      <4>2. decoder' \in DecoderStates
        BY <2>2, <3>5, WakeFacts
      <4>3. queue' \in Seq(AccessUnit) /\ Len(queue') <= CacheCount
        <5>1. CASE decision.clear
          BY <2>2, <3>5, <5>1
        <5>2. CASE ~decision.clear
          BY <1>t, <2>2, <3>5, <4>1, <5>2
        <5> QED
          BY <5>1, <5>2
      <4> QED
        BY <1>t, <1>n, <2>0, <3>3, <4>2, <4>3
    <3> QED
      BY <3>4, <3>5
  <2> QED
    BY <1>4, <2>1, <2>2 DEF OnVideoData, AccessUnit
<1>5. CASE OnRtspClientEvent
  <2>1. player' \in [Flags -> BOOLEAN]
    BY <1>t, <1>5 DEF OnRtspClientEvent, Flags
  <2>2. live' \in [sess : Session, calling : Callback]
    BY <1>t, <1>5 DEF OnRtspClientEvent, Session, Callback
  <2>3. op' \in Ops /\ decoder' \in DecoderStates /\ readers' \in ReaderStates
    BY <1>t, <1>5, WakeFacts, NotifyFacts DEF OnRtspClientEvent, Ops, DecoderStates, ReaderStates
  <2> QED
    BY <1>t, <1>n, <1>e, <1>5, <2>1, <2>2, <2>3 DEF OnRtspClientEvent
<1>6. CASE Create \/ InitCall \/ Start \/ Destroy
  <2>1. op' \in Ops
    BY <1>6 DEF Create, InitCall, Start, Destroy, Begin, Ops
  <2> QED
    BY <1>t, <1>n, <1>6, <2>1 DEF Create, InitCall, Start, Destroy
<1>7. CASE Stop \/ DeinitStop
  <2>0. Begin("stop", "join", "none") => op' \in Ops
    BY DEF Begin, Ops
  <2>1. op' \in Ops
    BY <1>7, <2>0, OpFacts DEF Stop, DeinitStop, Ops
  <2>2. CASE StopBegin
    <3>1. readers' \in ReaderStates /\ decoder' \in DecoderStates
      BY <1>t, <2>2, NotifyFacts, WakeFacts DEF StopBegin, DecoderStates, ReaderStates
    <3> QED
      BY <1>t, <1>n, <1>p, <2>1, <2>2, <3>1 DEF StopBegin
  <2>3. CASE ~StopBegin
    BY <1>t, <1>n, <1>7, <2>1, <2>3 DEF Stop, DeinitStop
  <2> QED
    BY <2>2, <2>3
<1>8. CASE InitReset
  <2>1. player' \in [Flags -> BOOLEAN] /\ kept' \in BOOLEAN /\ op' \in Ops
    BY <1>t, <1>8, OpFacts DEF InitReset, KeptAfterClear, Ops
  <2> QED
    BY <1>t, <1>n, <1>e, <1>8, <2>1 DEF InitReset
<1>9. CASE OpenSession
  <2>1. player' \in [Flags -> BOOLEAN]
    BY <1>t, <1>9 DEF OpenSession
  <2>2. op' \in Ops
    BY <1>9, OpFacts DEF OpenSession, Ops
  <2>3. live' \in [sess : Session, calling : Callback]
    BY <1>t, <1>9 DEF OpenSession, Session, Callback
  <2> QED
    BY <1>t, <1>n, <1>9, <2>1, <2>2, <2>3 DEF OpenSession
<1>10. CASE Opened \/ Describe
  <2>1. player' \in [Flags -> BOOLEAN]
    BY <1>t, <1>10 DEF Opened, Describe
  <2>2. op' \in Ops
    BY <1>10, OpFacts DEF Opened, Describe, Ops
  <2> QED
    BY <1>t, <1>n, <1>10, <2>1, <2>2 DEF Opened, Describe
<1>11. CASE CloseSession \/ CloseJoins
  <2>1. player' \in [Flags -> BOOLEAN]
    BY <1>t, <1>11 DEF CloseSession, CloseJoins
  <2>2. op' \in Ops
    BY <1>11, OpFacts DEF CloseSession, CloseJoins, Sessions, Ops
  <2> QED
    BY <1>t, <1>n, <1>s, <1>11, <2>1, <2>2 DEF CloseSession, CloseJoins
<1>12. CASE StartDecode
  <2>1. player' \in [Flags -> BOOLEAN]
    BY <1>t, <1>12 DEF StartDecode
  <2>2. decoder' \in DecoderStates
    BY <1>t, <1>12 DEF StartDecode, NoDecoder, DecoderStates
  <2>3. op' \in Ops
    BY <1>12, OpFacts DEF StartDecode, Ops
  <2>4. queue' \in Seq(AccessUnit) /\ Len(queue') <= CacheCount /\ kept' \in BOOLEAN /\ pipeline' \in BOOLEAN
    BY <1>t, <1>e, <1>12 DEF StartDecode, KeptAfterClear
  <2> QED
    BY <1>t, <1>n, <1>12, <2>1, <2>2, <2>3, <2>4 DEF StartDecode
<1>13. CASE StopJoin
  <2>1. op' \in Ops /\ decoder' \in DecoderStates
    BY <1>13, OpFacts DEF StopJoin, NoDecoder, Ops, DecoderStates
  <2> QED
    BY <1>t, <1>n, <1>13, <2>1 DEF StopJoin
<1>14. CASE StopTeardown
  <2>1. player' \in [Flags -> BOOLEAN] /\ kept' \in BOOLEAN
    BY <1>t, <1>14 DEF StopTeardown, KeptAfterClear
  <2>2. op' \in Ops /\ readers' \in ReaderStates
    BY <1>t, <1>14, OpFacts, NotifyFacts DEF StopTeardown, Ops, ReaderStates
  <2>3. queue' \in Seq(AccessUnit) /\ Len(queue') <= CacheCount /\ rgb' \in BOOLEAN /\ pipeline' \in BOOLEAN
    BY <1>e, <1>14 DEF StopTeardown
  <2> QED
    BY <1>t, <1>n, <1>14, <2>1, <2>2, <2>3 DEF StopTeardown
<1>15. CASE DeinitLock
  <2>1. player' \in [Flags -> BOOLEAN]
    BY <1>t, <1>15 DEF DeinitLock
  <2>2. op' \in Ops
    BY <1>15, OpFacts DEF DeinitLock, Ops
  <2> QED
    BY <1>t, <1>n, <1>15, <2>1, <2>2 DEF DeinitLock
<1>16. CASE ClientDeinit
  <2>1. player' \in [Flags -> BOOLEAN]
    BY <1>t, <1>p, <1>16 DEF ClientDeinit
  <2>2. op' \in Ops
    BY <1>16, OpFacts DEF ClientDeinit, Begin, Ops
  <2>3. live' \in [sess : Session, calling : Callback] /\ muHeld' \in BOOLEAN
    BY <1>s, <1>16 DEF ClientDeinit
  <2>4. queue' \in Seq(AccessUnit) /\ Len(queue') <= CacheCount /\ kept' \in BOOLEAN /\ exists' \in BOOLEAN
    BY <1>t, <1>e, <1>16 DEF ClientDeinit
  <2> QED
    BY <1>t, <1>n, <1>16, <2>1, <2>2, <2>3, <2>4 DEF ClientDeinit
<1>17. ASSUME NEW r \in Readers, GetFrame(r) \/ FrameSpurious(r)
       PROVE  TypeOK'
  <2>1. readers' \in ReaderStates
    <3>1. CASE GetFrame(r)
      BY <1>t, <3>1 DEF GetFrame, ReaderStates
    <3>2. CASE FrameSpurious(r)
      BY <1>t, <3>2 DEF FrameSpurious, ReaderStates
    <3> QED
      BY <1>17, <3>1, <3>2
  <2> QED
    BY <1>t, <1>n, <1>17, <2>1 DEF GetFrame, FrameSpurious
<1>18. ASSUME NEW r \in Readers, TakeFrame(r)
       PROVE  player' \in [Flags -> BOOLEAN] /\ readers' \in ReaderStates
  <2>1. player.waiting \in BOOLEAN /\ WaitingInGetFrame(r) \in BOOLEAN
    BY <1>t DEF Flags, WaitingInGetFrame
  <2>2. player' \in [Flags -> BOOLEAN]
    BY <1>t, <1>18, <2>1 DEF TakeFrame
  <2> QED
    BY <1>t, <1>18, <2>2 DEF TakeFrame, ReaderStates
<1>19. ASSUME NEW r \in Readers, FrameEnter(r) \/ FrameWakes(r) \/ FrameTimeout(r)
       PROVE  TypeOK'
  <2>1. CASE TakeFrame(r)
    BY <1>t, <1>n, <1>18, <1>19, <2>1 DEF FrameEnter, FrameWakes, FrameTimeout
  <2>2. CASE player' = [player EXCEPT !.waiting = TRUE] /\ readers' = [Revoked(readers) EXCEPT ![r].pc = "asleep"]
    <3>1. Revoked(readers) \in ReaderStates
      BY <1>t, NotifyFacts
    <3>2. readers' \in ReaderStates
      BY <2>2, <3>1 DEF ReaderStates
    <3>3. player' \in [Flags -> BOOLEAN]
      BY <1>t, <2>2
    <3> QED
      BY <1>t, <1>n, <1>19, <2>1, <3>2, <3>3 DEF FrameEnter, FrameWakes, FrameTimeout
  <2> QED
    BY <1>19, <2>1, <2>2 DEF FrameEnter, FrameWakes, FrameTimeout
<1>20. CASE DecodeTake
  <2>1. decoder' \in DecoderStates
    BY <1>t, <1>20 DEF DecodeTake, DecoderStates
  <2> QED
    BY <1>t, <1>n, <1>e, <1>20, <2>1 DEF DecodeTake
<1>21. CASE SendStream
  <2>1. decoder' \in DecoderStates
    BY <1>t, <1>21 DEF SendStream, Decoding, DecoderStates
  <2> QED
    BY <1>t, <1>n, <1>21, <2>1 DEF SendStream
<1>22. CASE SendRetry \/ DrainFrame \/ DecodeCheck
  <2>1. decoder' \in DecoderStates
    BY <1>t, <1>22 DEF SendRetry, DrainFrame, DecodeCheck, DecoderStates
  <2> QED
    BY <1>t, <1>n, <1>22, <2>1 DEF SendRetry, DrainFrame, DecodeCheck
<1>23. CASE SendGiveUp
  <2>1. player' \in [Flags -> BOOLEAN]
    BY <1>t, <1>23 DEF SendGiveUp
  <2>2. decoder' \in DecoderStates
    BY <1>t, <1>e, <1>23 DEF SendGiveUp, DecoderStates
  <2> QED
    BY <1>t, <1>n, <1>23, <2>1, <2>2 DEF SendGiveUp
<1>24. CASE PublishRgb
  <2>1. readers' \in ReaderStates
    BY <1>t, <1>24, NotifyFacts DEF PublishRgb, ReaderStates
  <2>2. player' \in [Flags -> BOOLEAN] /\ rgb' \in BOOLEAN /\ decoder' \in DecoderStates
    BY <1>t, <1>24 DEF PublishRgb, DecoderStates
  <2> QED
    BY <1>t, <1>n, <1>24, <2>1, <2>2 DEF PublishRgb
<1>25. CASE DrainEnds
  <2>1. decoder.after \in {"send", "check"}
    BY <1>25 DEF DrainEnds, Decoding
  <2>2. decoder' \in DecoderStates
    BY <1>t, <1>25, <2>1 DEF DrainEnds, DecoderStates
  <2> QED
    BY <1>t, <1>n, <1>25, <2>2 DEF DrainEnds
<1>26. CASE UNCHANGED vars
  BY <1>t, <1>n, <1>26 DEF vars
<1> QED
  BY <1>1, <1>2, <1>3, <1>4, <1>5, <1>6, <1>7, <1>8, <1>9, <1>10, <1>11, <1>12, <1>13, <1>14, <1>15, <1>16, <1>17,
     <1>19, <1>20, <1>21, <1>22, <1>23, <1>24, <1>25, <1>26, Zenon DEF Next, Live, Call, Script, Decode, Reader

(* The flags of a session and of decoding change in few steps.             *)
LEMMA FlagsKept ==
  ASSUME TypeOK,
         \/ Live \/ Create \/ InitCall \/ Start \/ Destroy \/ InitReset \/ OpenSession \/ Describe
         \/ CloseJoins \/ StopJoin \/ StopTeardown \/ DeinitLock \/ Decode \/ UNCHANGED vars
         \/ \E r \in Readers : GetFrame(r) \/ Reader(r) \/ FrameTimeout(r)
  PROVE  /\ player'.started = player.started /\ player'.decodeRun = player.decodeRun
         /\ player'.opened = player.opened
<1> DEFINE Held == /\ player'.started = player.started /\ player'.decodeRun = player.decodeRun
                   /\ player'.opened = player.opened
<1>t. player \in [Flags -> BOOLEAN] /\ {"started", "decodeRun", "opened"} \subseteq Flags
  BY DEF TypeOK, Flags
<1> SUFFICES Held
  OBVIOUS
<1>1. CASE UNCHANGED player
  BY <1>1
<1>2. CASE OnVideoType \/ OnRtspClientEvent
  BY <1>t, <1>2 DEF OnVideoType, OnRtspClientEvent
<1>3. CASE OnVideoData
  BY <1>t, <1>3 DEF OnVideoData
<1>4. CASE InitReset \/ OpenSession \/ Describe
  BY <1>t, <1>4 DEF InitReset, OpenSession, Describe
<1>5. CASE StopTeardown \/ DeinitLock
  BY <1>t, <1>5 DEF StopTeardown, DeinitLock
<1>6. ASSUME NEW r \in Readers, TakeFrame(r)
      PROVE  Held
  BY <1>t, <1>6 DEF TakeFrame
<1>7. ASSUME NEW r \in Readers, GetFrame(r) \/ Reader(r) \/ FrameTimeout(r)
      PROVE  Held
  <2>1. CASE player' = [player EXCEPT !.waiting = TRUE]
    BY <1>t, <2>1
  <2> QED
    BY <1>1, <1>6, <1>7, <2>1 DEF Reader, GetFrame, FrameEnter, FrameSpurious, FrameWakes, FrameTimeout
<1>8. CASE SendGiveUp \/ PublishRgb
  BY <1>t, <1>8 DEF SendGiveUp, PublishRgb
<1>9. CASE \/ BeginCallback \/ Play \/ Create \/ InitCall \/ Start \/ Destroy \/ CloseJoins \/ StopJoin \/ DecodeTake \/ SendStream
           \/ SendRetry \/ DrainFrame \/ DrainEnds \/ DecodeCheck
  <2>1. UNCHANGED player
    BY <1>9 DEF BeginCallback, Play, Create, InitCall, Start, Destroy, CloseJoins, StopJoin, DecodeTake,
                SendStream, SendRetry, DrainFrame, DrainEnds, DecodeCheck
  <2> QED
    BY <2>1
<1> HIDE DEF Held
<1>10. CASE UNCHANGED vars
  BY <1>1, <1>10 DEF vars
<1> QED
  BY <1>2, <1>3, <1>4, <1>5, <1>7, <1>8, <1>9, <1>10, Zenon DEF Live, Decode

(* the bounds of a batch and of the life of the decode thread,             *)
LEMMA DecodingStep ==
  ASSUME TypeOK, Decoding, Sessions, [Next]_vars
  PROVE  Decoding'
<1>t. /\ player \in [Flags -> BOOLEAN] /\ {"started", "decodeRun", "opened"} \subseteq Flags
      /\ decoder \in DecoderStates /\ op \in Ops
      /\ player' \in [Flags -> BOOLEAN] /\ decoder' \in DecoderStates /\ op' \in Ops
  BY TypeStep DEF TypeOK, Flags, DecoderStates, Ops
<1>h. ASSUME ~player'.started, ~player'.decodeRun, decoder'.pc = "none"
      PROVE  Decoding'
  <2>1. player'.decodeRun = player'.started
    BY <1>t, <1>h
  <2> QED
    BY <1>h, <2>1 DEF Decoding
<1>k. ASSUME player'.started = player.started, player'.decodeRun = player.decodeRun, player'.opened = player.opened,
             op'.at = op.at \/ op.at \notin {"idle", "stop", "join"}, decoder'.batch = decoder.batch,
             decoder'.after = decoder.after,
             decoder'.pc = decoder.pc \/ (decoder.pc = "asleep" /\ decoder'.pc = "top")
      PROVE  Decoding'
  BY <1>k DEF Decoding
<1>g. ASSUME op.at \notin {"idle", "stop", "join"}
      PROVE  ~player.started /\ ~player.decodeRun /\ decoder.pc = "none"
  BY <1>t, <1>g DEF Decoding
<1>w. ASSUME decoder' = decoder \/ decoder' = QueueNotified(decoder)
      PROVE  /\ decoder'.batch = decoder.batch /\ decoder'.after = decoder.after
             /\ decoder'.pc = decoder.pc \/ (decoder.pc = "asleep" /\ decoder'.pc = "top")
  <2>1. CASE decoder' = decoder
    BY <2>1, Zenon
  <2>2. CASE decoder' = QueueNotified(decoder)
    BY <1>t, <2>2 DEF QueueNotified, DecoderStates
  <2> QED
    BY <1>w, <2>1, <2>2
<1>1. CASE \/ BeginCallback \/ Play
           \/ \E r \in Readers : GetFrame(r) \/ Reader(r) \/ FrameTimeout(r)
  <2>1. op' = op /\ decoder' = decoder
    BY <1>1 DEF BeginCallback, Play, GetFrame, Reader, FrameEnter, FrameSpurious, FrameWakes, FrameTimeout
  <2>2. player'.started = player.started /\ player'.decodeRun = player.decodeRun /\ player'.opened = player.opened
    BY <1>1, FlagsKept, Zenon DEF Live
  <2>3. /\ op'.at = op.at \/ op.at \notin {"idle", "stop", "join"}
        /\ decoder'.batch = decoder.batch /\ decoder'.after = decoder.after
        /\ decoder'.pc = decoder.pc \/ (decoder.pc = "asleep" /\ decoder'.pc = "top")
    BY <1>t, <1>w, <2>1
  <2> QED
    BY <1>k, <2>2, <2>3, Zenon
<1>2. CASE OnVideoType \/ OnVideoData \/ OnRtspClientEvent
  <2>1. op'.at = op.at \/ op.at = "asleep"
    BY <1>2, WakeFacts DEF OnVideoType, OnVideoData, OnRtspClientEvent
  <2>2. decoder' = decoder \/ decoder' = QueueNotified(decoder)
    BY <1>2 DEF OnVideoType, OnVideoData, OnRtspClientEvent
  <2>3. player'.started = player.started /\ player'.decodeRun = player.decodeRun /\ player'.opened = player.opened
    BY <1>2, FlagsKept, Zenon DEF Live
  <2>4. /\ decoder'.batch = decoder.batch /\ decoder'.after = decoder.after
        /\ decoder'.pc = decoder.pc \/ (decoder.pc = "asleep" /\ decoder'.pc = "top")
    BY <1>w, <2>2
  <2> QED
    BY <1>k, <2>1, <2>3, <2>4
<1>3. CASE Create \/ InitCall \/ Start
  <2>1. ~player.started /\ decoder.pc = "none" /\ decoder' = decoder
    BY <1>3 DEF Create, InitCall, Start, Decoding, Sessions
  <2>2. player'.started = player.started /\ player'.decodeRun = player.decodeRun
    BY <1>3, FlagsKept, Zenon
  <2> QED
    BY <1>h, <2>1, <2>2 DEF Decoding
<1>4. CASE Destroy
  <2>1. op.at = "idle" /\ op'.at = "stop" /\ decoder' = decoder /\ player' = player
    BY <1>4 DEF Destroy, Begin
  <2> QED
    BY <2>1 DEF Decoding
<1>5. CASE StopBegin /\ op.at \in {"idle", "stop"} /\ op'.at = "join"
  <2>1. ~player'.started /\ ~player'.decodeRun /\ player'.opened = player.opened
    BY <1>t, <1>5 DEF StopBegin, StopFlags
  <2>2. /\ decoder'.batch = decoder.batch /\ decoder'.after = decoder.after
        /\ decoder'.pc = decoder.pc \/ (decoder.pc = "asleep" /\ decoder'.pc = "top")
    BY <1>5, <1>w DEF StopBegin
  <2>3. player'.decodeRun = player'.started /\ player.started
    BY <1>t, <1>5, <2>1 DEF StopBegin
  <2>4. player.opened /\ decoder.pc # "none"
    BY <2>3 DEF Decoding
  <2> QED
    BY <1>5, <2>1, <2>2, <2>3, <2>4 DEF Decoding
<1>6. CASE Stop
  BY <1>5, <1>6 DEF Stop, Begin
<1>7. CASE DeinitStop
  <2>1. CASE player.started
    BY <1>5, <1>7, <2>1, OpFacts DEF DeinitStop
  <2>2. CASE ~player.started
    <3>1. decoder' = decoder /\ player' = player /\ op.at = "stop"
      BY <1>7, <2>2 DEF DeinitStop
    <3> QED
      BY <1>h, <2>2, <3>1 DEF Decoding
  <2> QED
    BY <2>1, <2>2
<1>8. CASE InitReset \/ OpenSession \/ Describe \/ CloseJoins \/ StopTeardown \/ DeinitLock
  <2>1. op.at \notin {"idle", "stop", "join"} /\ decoder' = decoder
    BY <1>8 DEF InitReset, OpenSession, Describe, CloseJoins, StopTeardown, DeinitLock
  <2>2. player'.started = player.started /\ player'.decodeRun = player.decodeRun
    BY <1>8, FlagsKept, Zenon
  <2> QED
    BY <1>g, <1>h, <2>1, <2>2
<1>9. CASE Opened \/ CloseSession \/ ClientDeinit
  <2>1. op.at \notin {"idle", "stop", "join"} /\ decoder' = decoder
    BY <1>9 DEF Opened, CloseSession, ClientDeinit
  <2>2. ~player'.started /\ ~player'.decodeRun
    BY <1>g, <1>t, <1>9, <2>1 DEF Opened, CloseSession, ClientDeinit, NewPlayer
  <2> QED
    BY <1>g, <1>h, <2>1, <2>2
<1>10. CASE StartDecode
  <2>0. op.at = "create" /\ op'.at = "idle" /\ player.opened
    BY <1>10, OpFacts DEF StartDecode, Sessions
  <2>1. CASE UNCHANGED <<player, decoder>>
    BY <1>g, <1>h, <2>0, <2>1
  <2>2. CASE ~UNCHANGED <<player, decoder>>
    <3>1. player'.started /\ player'.decodeRun /\ player'.opened /\ decoder'.pc = "top"
      BY <1>t, <1>10, <2>0, <2>2 DEF StartDecode, NoDecoder
    <3>2. player'.decodeRun = player'.started
      BY <1>t, <3>1
    <3> QED
      BY <2>0, <3>1, <3>2 DEF Decoding
  <2> QED
    BY <2>1, <2>2
<1>11. CASE StopJoin
  <2>1. op.at = "join" /\ player' = player /\ decoder'.pc = "none"
    BY <1>11 DEF StopJoin, NoDecoder
  <2> QED
    BY <1>h, <2>1 DEF Decoding
<1>12. CASE Decode
  <2>1. op' = op /\ decoder.pc # "none"
    BY <1>12 DEF Decode, DecodeTake, SendStream, SendRetry, SendGiveUp, DrainFrame, PublishRgb, DrainEnds, DecodeCheck
  <2>2. player'.started = player.started /\ player'.decodeRun = player.decodeRun /\ player'.opened = player.opened
    BY <1>12, FlagsKept, Zenon
  <2>3. /\ decoder'.pc # "none" /\ (decoder'.pc = "done" => ~player.decodeRun)
        /\ decoder'.pc = "send" => decoder'.batch >= 1
        /\ decoder'.pc \in {"drain", "convert"} =>
             decoder'.after = "check" \/ (decoder'.after = "send" /\ decoder'.batch >= 1)
    <3>1. CASE DecodeTake
      <4>1. queue # <<>> => Len(queue) >= 1
        BY DEF TypeOK
      <4> QED
        BY <1>t, <3>1, <4>1 DEF DecodeTake, DecoderStates
    <3>2. CASE SendStream
      <4>1. decoder.batch \in Nat /\ decoder.batch >= 1
        BY <1>t, <3>2, RtspAssumption DEF SendStream, DecoderStates, Decoding
      <4>2. CASE decoder.batch = 1
        BY <1>t, <3>2, <4>2 DEF SendStream, DecoderStates
      <4>3. CASE decoder.batch # 1
        BY <1>t, <3>2, <4>1, <4>3 DEF SendStream, DecoderStates
      <4> QED
        BY <4>2, <4>3
    <3>3. CASE SendRetry
      <4>1. decoder.batch >= 1
        BY <3>3 DEF SendRetry, Decoding
      <4> QED
        BY <1>t, <3>3, <4>1 DEF SendRetry, DecoderStates
    <3>7. CASE SendGiveUp
      BY <1>t, <3>7 DEF SendGiveUp, DecoderStates
    <3>4. CASE DrainFrame \/ PublishRgb
      <4>1. decoder.after = "check" \/ (decoder.after = "send" /\ decoder.batch >= 1)
        BY <1>t, <3>4 DEF DrainFrame, PublishRgb, DecoderStates, Decoding
      <4>2. decoder'.after = decoder.after /\ decoder'.batch = decoder.batch /\ decoder'.pc \in {"convert", "drain"}
        BY <1>t, <3>4 DEF DrainFrame, PublishRgb, DecoderStates
      <4> QED
        BY <4>1, <4>2
    <3>5. CASE DrainEnds
      BY <1>t, <3>5 DEF DrainEnds, DecoderStates, Decoding
    <3>6. CASE DecodeCheck
      BY <1>t, <3>6 DEF DecodeCheck, DecodeLeaves, DecoderStates
    <3> QED
      BY <1>12, <3>1, <3>2, <3>3, <3>4, <3>5, <3>6, <3>7, Zenon DEF Decode
  <2> QED
    BY <2>1, <2>2, <2>3 DEF Decoding
<1>13. CASE UNCHANGED vars
  BY <1>13 DEF vars, Decoding
<1> QED
  BY <1>1, <1>2, <1>3, <1>4, <1>6, <1>7, <1>8, <1>9, <1>10, <1>11, <1>12, <1>13, Zenon DEF Next, Live, Call, Script

(* whose the session is,                                                   *)
LEMMA SessionsStep ==
  ASSUME TypeOK, Decoding, Sessions, [Next]_vars
  PROVE  Sessions'
<1>t. /\ live \in [sess : Session, calling : Callback]
      /\ player \in [Flags -> BOOLEAN] /\ {"started", "decodeRun", "opened", "describeFailed"} \subseteq Flags
      /\ decoder \in DecoderStates /\ op \in Ops
  BY DEF TypeOK, Flags, DecoderStates, Ops
<1>k. ASSUME live' = live, op' = op, player'.opened = player.opened, player'.started = player.started,
             exists' = exists
      PROVE  Sessions'
  BY <1>k DEF Sessions
<1>o. ASSUME op.at # "idle"
      PROVE  exists
  BY <1>o DEF Sessions
<1>1. CASE BeginCallback
  <2>1. live'.sess = live.sess /\ live'.sess # "none"
    BY <1>t, <1>1 DEF BeginCallback, Offers
  <2>2. op' = op /\ player' = player /\ exists' = exists
    BY <1>1 DEF BeginCallback
  <2> QED
    BY <2>1, <2>2 DEF Sessions
<1>2. CASE Play
  <2>1. live.sess # "none" /\ live'.sess # "none"
    BY <1>t, <1>2 DEF Play
  <2>2. op' = op /\ player' = player /\ exists' = exists
    BY <1>2 DEF Play
  <2> QED
    BY <2>1, <2>2 DEF Sessions
<1>3. CASE OnVideoType \/ OnVideoData \/ OnRtspClientEvent
  <2>1. player'.opened = player.opened /\ player'.started = player.started
    BY <1>3, FlagsKept, Zenon DEF Live
  <2>2. live.sess # "none" /\ live'.calling = "none"
    <3>1. live.calling # "none"
      BY <1>3 DEF OnVideoType, OnVideoData, OnRtspClientEvent
    <3>2. live'.calling = "none"
      <4>1. CASE OnVideoType
        BY <4>1 DEF OnVideoType, AfterType
      <4>2. CASE OnVideoData
        BY <1>t, <4>2 DEF OnVideoData
      <4>3. CASE OnRtspClientEvent
        BY <4>3 DEF OnRtspClientEvent
      <4> QED
        BY <1>3, <4>1, <4>2, <4>3
    <3> QED
      BY <3>1, <3>2 DEF Sessions
  <2>3. (op'.at = op.at \/ (op.at = "asleep" /\ op'.at = "awake")) /\ op'.then = op.then
    BY <1>3, WakeFacts DEF OnVideoType, OnVideoData, OnRtspClientEvent
  <2>4. exists' = exists
    BY <1>3 DEF OnVideoType, OnVideoData, OnRtspClientEvent
  <2> QED
    BY <2>1, <2>2, <2>3, <2>4 DEF Sessions
<1>4. CASE Create
  <2>1. op.at = "idle" /\ ~player.opened /\ live.sess = "none" /\ player' = player /\ live' = live /\ exists'
    BY <1>4 DEF Create, Sessions
  <2>2. op'.at = "reset"
    BY <1>4 DEF Create, Begin
  <2> QED
    BY <2>1, <2>2 DEF Sessions
<1>5. CASE InitCall
  <2>1. op.at = "idle" /\ player' = player /\ live' = live /\ exists /\ exists'
    BY <1>5 DEF InitCall
  <2>2. IF player.opened THEN op'.at = "close" /\ op'.then = "reset" ELSE op'.at = "reset"
    BY <1>5 DEF InitCall, Begin
  <2> QED
    BY <2>1, <2>2 DEF Sessions
<1>6. CASE Start
  <2>1. op.at = "idle" /\ player' = player /\ live' = live /\ exists /\ exists'
    BY <1>6 DEF Start
  <2>2. (op'.at = "close" /\ op'.then = "open") \/ (op'.at = "create" /\ player.opened)
    BY <1>6 DEF Start, Begin, SessionNeedsReopen
  <2> QED
    BY <2>1, <2>2 DEF Sessions
<1>7. CASE Stop \/ DeinitStop \/ Destroy
  <2>1. op.at \in {"idle", "stop"} /\ live' = live /\ exists /\ exists'
    BY <1>7, <1>o DEF Stop, DeinitStop, StopBegin, Destroy
  <2>2. op'.at \in {"join", "deinit", "stop"}
    BY <1>7, OpFacts DEF Stop, DeinitStop, Destroy, Begin
  <2>3. player'.opened = player.opened
    BY <1>t, <1>7 DEF Stop, DeinitStop, StopBegin, StopFlags, Destroy
  <2> QED
    BY <2>1, <2>2, <2>3 DEF Sessions
<1>8. CASE InitReset
  <2>1. op.at = "reset" /\ op'.at = "open" /\ live' = live /\ exists /\ exists'
    BY <1>8, <1>o, OpFacts DEF InitReset
  <2>2. player'.opened = player.opened
    BY <1>8, FlagsKept, Zenon
  <2> QED
    BY <2>1, <2>2 DEF Sessions
<1>9. CASE OpenSession
  <2>1. op.at = "open" /\ live.sess = "none" /\ live.calling = "none" /\ ~player.opened /\ exists /\ exists'
    BY <1>9, <1>o DEF OpenSession, Sessions
  <2>2. player'.opened = player.opened
    BY <1>9, FlagsKept, Zenon
  <2>3. CASE Fail /\ UNCHANGED live
    BY <2>1, <2>2, <2>3, OpFacts DEF Sessions
  <2>4. CASE Goto("opened")
    <3>1. op'.at = "opened"
      BY <2>4, OpFacts
    <3>2. live'.calling = "none"
      <4>1. live' = live \/ live' = [sess |-> "connecting", calling |-> "none"]
        BY <1>9 DEF OpenSession
      <4>2. CASE live' = live
        BY <2>1, <4>2
      <4>3. CASE live' = [sess |-> "connecting", calling |-> "none"]
        BY <4>3
      <4> QED
        BY <4>1, <4>2, <4>3
    <3> QED
      BY <2>1, <2>2, <3>1, <3>2 DEF Sessions
  <2> QED
    BY <1>9, <2>3, <2>4 DEF OpenSession
<1>10. CASE Opened
  <2>1. op.at = "opened" /\ live' = live /\ exists /\ exists' /\ player'.opened
    BY <1>t, <1>10, <1>o DEF Opened
  <2>2. op'.at \in {"asleep", "awake"}
    BY <1>10, OpFacts DEF Opened
  <2> QED
    BY <2>1, <2>2 DEF Sessions
<1>11. CASE Describe
  <2>1. op.at \in {"asleep", "awake"} /\ live' = live /\ exists /\ exists' /\ player.opened
    BY <1>11, <1>o DEF Describe, Sessions
  <2>2. player'.opened = player.opened
    BY <1>11, FlagsKept, Zenon
  <2>3. op'.at \in {"create", "idle"} \/ (op'.at = "close" /\ op'.then = "fail")
    BY <1>11, OpFacts DEF Describe
  <2> QED
    BY <2>1, <2>2, <2>3 DEF Sessions
<1>12. CASE CloseSession
  <2>1. op.at = "close" /\ op.then # "none" /\ live' = live /\ exists /\ exists' /\ ~player'.opened
    BY <1>t, <1>12, <1>o DEF CloseSession, Sessions
  <2>2. CASE player.opened
    <3>1. op'.at = "closing" /\ op'.then = op.then
      BY <1>12, <2>2, OpFacts DEF CloseSession
    <3> QED
      BY <2>1, <3>1 DEF Sessions
  <2>3. CASE ~player.opened
    <3>1. op'.at \in {"idle", "stop", "reset", "open", "teardown"}
      BY <1>12, <2>1, <2>3, OpFacts DEF CloseSession
    <3> QED
      BY <2>1, <2>3, <3>1 DEF Sessions
  <2> QED
    BY <2>2, <2>3
<1>13. CASE CloseJoins
  <2>1. op.at = "closing" /\ op.then # "none" /\ live' = NoSession /\ exists /\ exists' /\ ~player.opened /\ player' = player
    BY <1>13, <1>o DEF CloseJoins, Sessions
  <2>2. op'.at \in {"idle", "stop", "reset", "open", "teardown"}
    BY <1>13, <2>1, OpFacts DEF CloseJoins
  <2>3. live'.sess = "none" /\ live'.calling = "none"
    BY <2>1 DEF NoSession
  <2> QED
    BY <2>1, <2>2, <2>3 DEF Sessions
<1>14. CASE StartDecode
  <2>1. op.at = "create" /\ op'.at = "idle" /\ live' = live /\ exists /\ exists'
    BY <1>14, <1>o, OpFacts DEF StartDecode
  <2>2. player'.opened = player.opened
    BY <1>t, <1>14 DEF StartDecode
  <2> QED
    BY <2>1, <2>2 DEF Sessions
<1>15. CASE StopJoin
  <2>1. op.at = "join" /\ op'.at = "close" /\ op'.then = "teardown" /\ live' = live /\ exists /\ exists' /\ player' = player
    BY <1>15, <1>o, OpFacts DEF StopJoin
  <2> QED
    BY <2>1 DEF Sessions
<1>16. CASE StopTeardown \/ DeinitLock
  <2>1. op.at \in {"teardown", "deinit"} /\ live' = live /\ exists /\ exists'
    BY <1>16, <1>o DEF StopTeardown, DeinitLock
  <2>2. op'.at \in {"idle", "deinit", "client_deinit"}
    BY <1>16, OpFacts DEF StopTeardown, DeinitLock
  <2>3. player'.opened = player.opened
    BY <1>16, FlagsKept, Zenon
  <2> QED
    BY <2>1, <2>2, <2>3 DEF Sessions
<1>17. CASE ClientDeinit
  <2>1. live'.sess = "none" /\ live'.calling = "none" /\ exists
    BY <1>17, <1>o DEF ClientDeinit, NoSession
  <2>2. ~player'.opened
    BY <1>t, <1>17 DEF ClientDeinit, NewPlayer
  <2>3. CASE op.call = "deinit_all"
    BY <1>17, <2>1, <2>2, <2>3 DEF ClientDeinit, Begin, Sessions
  <2>4. CASE op.call # "deinit_all"
    <3>1. op'.at = "idle" /\ ~player'.started
      BY <1>17, <2>4, OpFacts DEF ClientDeinit, NewPlayer, Flags
    <3> QED
      BY <2>1, <2>2, <3>1 DEF Sessions
  <2> QED
    BY <2>3, <2>4
<1>18. CASE Decode \/ \E r \in Readers : GetFrame(r) \/ Reader(r) \/ FrameTimeout(r)
  <2>1. player'.opened = player.opened /\ player'.started = player.started
    BY <1>18, FlagsKept, Zenon
  <2>2. live' = live /\ op' = op /\ exists' = exists
    BY <1>18 DEF Decode, DecodeTake, SendStream, SendRetry, SendGiveUp, DrainFrame, PublishRgb, DrainEnds, DecodeCheck,
                 GetFrame, Reader, FrameEnter, FrameSpurious, FrameWakes, FrameTimeout
  <2> QED
    BY <1>k, <2>1, <2>2
<1>19. CASE UNCHANGED vars
  BY <1>19, <1>k DEF vars
<1> QED
  BY <1>1, <1>2, <1>3, <1>4, <1>5, <1>6, <1>7, <1>8, <1>9, <1>10, <1>11, <1>12, <1>13, <1>14, <1>15, <1>16, <1>17,
     <1>18, <1>19, Zenon DEF Next, Live, Call, Script

(* the chain of access units and what of it is queued,                     *)
LEMMA QueueStep ==
  ASSUME TypeOK, Decoding, Chain, QueueFollowsOn, [Next]_vars
  PROVE  Chain' /\ QueueFollowsOn'
<1>t. /\ player \in [Flags -> BOOLEAN] /\ {"started", "decodeRun", "opened", "needIdr"} \subseteq Flags
      /\ decoder \in DecoderStates /\ op \in Ops /\ queue \in Seq(AccessUnit)
  BY DEF TypeOK, Flags, DecoderStates, Ops
<1>g. op.at \notin {"idle", "stop", "join"} => decoder.pc = "none"
  BY DEF Decoding
<1>h. decoder'.pc = "none" => Chain' /\ QueueFollowsOn'
  BY DEF Chain, QueueFollowsOn
<1>e. \A q : q = <<>> => \A i \in 1 .. Len(q) : q[i] # "gap"
  OBVIOUS
<1>l. ASSUME player'.needIdr, queue' = <<>>
      PROVE  Chain' /\ QueueFollowsOn'
  BY <1>e, <1>l DEF Chain, QueueFollowsOn
<1>k. ASSUME player'.needIdr = player.needIdr \/ player'.needIdr, kept' = kept, queue' = queue \/ queue' = <<>>,
             decoder.pc = "none" => decoder'.pc = "none"
      PROVE  Chain' /\ QueueFollowsOn'
  BY <1>e, <1>k DEF Chain, QueueFollowsOn
<1>w. ASSUME decoder' = decoder \/ decoder' = QueueNotified(decoder)
      PROVE  decoder.pc = "none" <=> decoder'.pc = "none"
  BY <1>t, <1>w DEF QueueNotified, DecoderStates
<1>1. CASE BeginCallback \/ Play \/ Call
  <2>1. player'.needIdr = player.needIdr
    BY <1>t, <1>1 DEF BeginCallback, Play, Call, Create, InitCall, Start, Stop, Destroy, StopBegin, StopFlags
  <2>2. kept' = kept /\ queue' = queue /\ (decoder' = decoder \/ decoder' = QueueNotified(decoder))
    BY <1>1 DEF BeginCallback, Play, Call, Create, InitCall, Start, Stop, Destroy, StopBegin
  <2> QED
    BY <1>k, <1>w, <2>1, <2>2
<1>2. CASE OnVideoType
  <2>1. player'.needIdr = player.needIdr
    BY <1>t, <1>2 DEF OnVideoType
  <2>2. kept' = kept /\ queue' = queue /\ decoder' = decoder
    BY <1>2 DEF OnVideoType
  <2> QED
    BY <1>k, <2>1, <2>2
<1>3. CASE OnVideoData
  <2>1. CASE ~player.opened
    BY <1>3, <1>h, <2>1 DEF OnVideoData, Decoding
  <2>2. ASSUME player.opened, NEW key \in BOOLEAN, NEW oversized \in BOOLEAN, NEW bytesFull \in BOOLEAN,
               NEW decision, decision = Admit(key, oversized, Len(queue) >= CacheCount \/ bytesFull, player.needIdr),
               NEW unit, unit = IF key \/ kept THEN "follows" ELSE "gap",
               player' = [player EXCEPT !.needIdr = decision.needIdr],
               kept' = ~decision.drop,
               IF decision.drop
                 THEN UNCHANGED <<queue, decoder>>
                 ELSE /\ queue' = Append(IF decision.clear THEN <<>> ELSE queue, unit)
                      /\ decoder' = QueueNotified(decoder)
        PROVE  Chain' /\ QueueFollowsOn'
    <3>1. CASE decision.drop
      <4>1. decision.needIdr
        BY <2>2, <3>1 DEF Admit
      <4>2. player'.needIdr
        BY <1>t, <2>2, <4>1
      <4> QED
        BY <2>2, <3>1, <4>2 DEF Chain, QueueFollowsOn
    <3>2. CASE ~decision.drop
      <4>1. kept'
        BY <2>2, <3>2
      <4>2. key \/ ~player.needIdr
        BY <2>2, <3>2 DEF Admit
      <4>3. CASE decoder'.pc = "none"
        BY <1>h, <4>3
      <4>4. CASE decoder'.pc # "none"
        <5>1. decoder.pc # "none"
          BY <1>w, <2>2, <3>2, <4>4
        <5>2. unit = "follows"
          BY <2>2, <4>2, <5>1 DEF Chain
        <5>3. \A i \in 1 .. Len(queue) : queue[i] # "gap"
          BY <5>1 DEF QueueFollowsOn
        <5>4. CASE decision.clear
          <6>1. queue' = Append(<<>>, "follows")
            BY <2>2, <3>2, <5>2, <5>4
          <6>2. \A i \in 1 .. Len(queue') : queue'[i] # "gap"
            BY <6>1
          <6> QED
            BY <4>1, <6>2 DEF Chain, QueueFollowsOn
        <5>5. CASE ~decision.clear
          <6>1. queue' = Append(queue, "follows")
            BY <2>2, <3>2, <5>2, <5>5
          <6>2. \A i \in 1 .. Len(queue') : queue'[i] # "gap"
            BY <1>t, <5>3, <6>1
          <6> QED
            BY <4>1, <6>2 DEF Chain, QueueFollowsOn
        <5> QED
          BY <5>4, <5>5
      <4> QED
        BY <4>3, <4>4
    <3> QED
      BY <3>1, <3>2
  <2> QED
    BY <1>3, <2>1, <2>2, ZenonT(60) DEF OnVideoData
<1>4. CASE OnRtspClientEvent
  <2>1. player'.needIdr /\ queue' = <<>>
    BY <1>t, <1>4 DEF OnRtspClientEvent
  <2> QED
    BY <1>l, <2>1
<1>5. CASE \/ InitReset \/ OpenSession \/ Opened \/ Describe \/ CloseSession \/ CloseJoins
           \/ StopTeardown \/ DeinitLock \/ ClientDeinit
  <2>1. op.at \notin {"idle", "stop", "join"} /\ decoder' = decoder
    BY <1>5 DEF InitReset, OpenSession, Opened, Describe, CloseSession, CloseJoins, StopTeardown, DeinitLock, ClientDeinit
  <2> QED
    BY <1>g, <1>h, <2>1
<1>6. CASE StartDecode
  <2>1. CASE UNCHANGED <<player, queue, kept, decoder>>
    BY <1>k, <2>1
  <2>2. CASE ~UNCHANGED <<player, queue, kept, decoder>>
    <3>1. player'.needIdr /\ queue' = <<>>
      BY <1>t, <1>6, <2>2 DEF StartDecode
    <3> QED
      BY <1>l, <3>1
  <2> QED
    BY <2>1, <2>2
<1>7. CASE DeinitStop
  <2>1. player'.needIdr = player.needIdr
    BY <1>t, <1>7 DEF DeinitStop, StopBegin, StopFlags
  <2>2. kept' = kept /\ queue' = queue /\ (decoder' = decoder \/ decoder' = QueueNotified(decoder))
    BY <1>7 DEF DeinitStop, StopBegin
  <2> QED
    BY <1>k, <1>w, <2>1, <2>2
<1>8. CASE StopJoin
  BY <1>8, <1>h DEF StopJoin, NoDecoder
<1>9. ASSUME NEW r \in Readers, GetFrame(r) \/ Reader(r) \/ FrameTimeout(r)
      PROVE  Chain' /\ QueueFollowsOn'
  <2>1. TakeFrame(r) => player'.needIdr = player.needIdr
    BY <1>t DEF TakeFrame
  <2>2. player'.needIdr = player.needIdr
    BY <1>t, <1>9, <2>1 DEF GetFrame, Reader, FrameEnter, FrameSpurious, FrameWakes, FrameTimeout
  <2>3. kept' = kept /\ queue' = queue /\ decoder' = decoder
    BY <1>9 DEF GetFrame, Reader, FrameEnter, FrameSpurious, FrameWakes, FrameTimeout
  <2> QED
    BY <1>k, <2>2, <2>3
<1>10. CASE Decode
  <2>1. kept' = kept /\ (queue' = queue \/ queue' = <<>>) /\ decoder.pc # "none"
    BY <1>10 DEF Decode, DecodeTake, SendStream, SendRetry, SendGiveUp, DrainFrame, PublishRgb, DrainEnds, DecodeCheck
  <2>2. player'.needIdr = player.needIdr \/ player'.needIdr
    BY <1>t, <1>10 DEF Decode, DecodeTake, SendStream, SendRetry, SendGiveUp, DrainFrame, PublishRgb, DrainEnds, DecodeCheck
  <2> QED
    BY <1>k, <2>1, <2>2
<1>11. CASE UNCHANGED vars
  BY <1>11, <1>k DEF vars
<1> HIDE DEF Chain, QueueFollowsOn
<1> QED
  BY <1>1, <1>2, <1>3, <1>4, <1>5, <1>6, <1>7, <1>8, <1>9, <1>10, <1>11, Zenon DEF Next, Live, Script

(* the channels and pools under what uses them,                            *)
LEMMA PipelineStep ==
  ASSUME TypeOK, Decoding, PipelineOutlivesUsers, [Next]_vars
  PROVE  PipelineOutlivesUsers'
<1>t. /\ player \in [Flags -> BOOLEAN] /\ "frameReady" \in Flags
      /\ decoder \in DecoderStates /\ op \in Ops
  BY DEF TypeOK, Flags, DecoderStates, Ops
<1>g. op.at \notin {"idle", "stop", "join"} => decoder.pc = "none"
  BY DEF Decoding
<1>w. ASSUME decoder' = decoder \/ decoder' = QueueNotified(decoder) \/ decoder' = NoDecoder
      PROVE  decoder.pc = "none" => decoder'.pc = "none"
  BY <1>t, <1>w DEF QueueNotified, DecoderStates, NoDecoder
<1>k. ASSUME player'.frameReady => player.frameReady, rgb' = rgb, pipeline' = pipeline,
             decoder' = decoder \/ decoder' = QueueNotified(decoder) \/ decoder' = NoDecoder
      PROVE  PipelineOutlivesUsers'
  BY <1>k, <1>w DEF PipelineOutlivesUsers
<1>1. CASE Live
  <2>1. player'.frameReady = player.frameReady
    BY <1>t, <1>1 DEF Live, BeginCallback, Play, OnVideoType, OnVideoData, OnRtspClientEvent
  <2>2. rgb' = rgb /\ pipeline' = pipeline /\ (decoder' = decoder \/ decoder' = QueueNotified(decoder))
    BY <1>1 DEF Live, BeginCallback, Play, OnVideoType, OnVideoData, OnRtspClientEvent
  <2> QED
    BY <1>k, <2>1, <2>2
<1>2. CASE Call \/ DeinitStop
  <2>1. player'.frameReady = player.frameReady
    BY <1>t, <1>2 DEF Call, Create, InitCall, Start, Stop, Destroy, DeinitStop, StopBegin, StopFlags
  <2>2. rgb' = rgb /\ pipeline' = pipeline /\ (decoder' = decoder \/ decoder' = QueueNotified(decoder))
    BY <1>2 DEF Call, Create, InitCall, Start, Stop, Destroy, DeinitStop, StopBegin
  <2> QED
    BY <1>k, <2>1, <2>2
<1>3. CASE \/ InitReset \/ OpenSession \/ Opened \/ Describe \/ CloseSession \/ CloseJoins
           \/ StopJoin \/ DeinitLock
  <2>1. player'.frameReady = player.frameReady
    BY <1>t, <1>3 DEF InitReset, OpenSession, Opened, Describe, CloseSession, CloseJoins, StopJoin, DeinitLock
  <2>2. rgb' = rgb /\ pipeline' = pipeline /\ (decoder' = decoder \/ decoder' = NoDecoder)
    BY <1>3 DEF InitReset, OpenSession, Opened, Describe, CloseSession, CloseJoins, StopJoin, DeinitLock
  <2> QED
    BY <1>k, <2>1, <2>2
<1>4. CASE ClientDeinit
  <2>1. player'.frameReady => player.frameReady
    BY <1>t, <1>4 DEF ClientDeinit, NewPlayer
  <2>2. rgb' = rgb /\ pipeline' = pipeline /\ decoder' = decoder
    BY <1>4 DEF ClientDeinit
  <2> QED
    BY <1>k, <2>1, <2>2
<1>5. CASE StartDecode
  <2>1. CASE UNCHANGED <<player, decoder, pipeline>>
    BY <1>5, <1>k, <2>1 DEF StartDecode
  <2>2. CASE pipeline'
    BY <2>2 DEF PipelineOutlivesUsers
  <2> QED
    BY <1>5, <2>1, <2>2 DEF StartDecode
<1>6. CASE StopTeardown
  <2>1. decoder'.pc = "none" /\ rgb' = FALSE
    BY <1>6, <1>g DEF StopTeardown
  <2>2. ~player'.frameReady
    BY <1>t, <1>6 DEF StopTeardown
  <2> QED
    BY <2>1, <2>2 DEF PipelineOutlivesUsers
<1>7. ASSUME NEW r \in Readers, GetFrame(r) \/ Reader(r) \/ FrameTimeout(r)
      PROVE  PipelineOutlivesUsers'
  <2>1. TakeFrame(r) => (player'.frameReady => player.frameReady)
    BY <1>t DEF TakeFrame
  <2>2. player'.frameReady => player.frameReady
    BY <1>t, <1>7, <2>1 DEF GetFrame, Reader, FrameEnter, FrameSpurious, FrameWakes, FrameTimeout
  <2>3. rgb' = rgb /\ pipeline' = pipeline /\ decoder' = decoder
    BY <1>7 DEF GetFrame, Reader, FrameEnter, FrameSpurious, FrameWakes, FrameTimeout
  <2> QED
    BY <1>k, <2>2, <2>3
<1>8. CASE Decode
  <2>1. decoder.pc # "none" /\ pipeline' = pipeline
    BY <1>8 DEF Decode, DecodeTake, SendStream, SendRetry, SendGiveUp, DrainFrame, PublishRgb, DrainEnds, DecodeCheck
  <2> QED
    BY <2>1 DEF PipelineOutlivesUsers
<1>9. CASE UNCHANGED vars
  BY <1>9, <1>k DEF vars
<1> HIDE DEF PipelineOutlivesUsers
<1> QED
  BY <1>1, <1>2, <1>3, <1>4, <1>5, <1>6, <1>7, <1>8, <1>9, Zenon DEF Next, Script

(* the views that are lent,                                                *)
LEMMA ViewsStep ==
  ASSUME TypeOK, Decoding, Views, ViewStaysMapped, [Next]_vars
  PROVE  Views' /\ ViewStaysMapped'
<1>t. /\ player \in [Flags -> BOOLEAN] /\ {"started", "waiting", "frameReady", "connFailed"} \subseteq Flags
      /\ readers \in ReaderStates /\ op \in Ops
  BY DEF TypeOK, Flags, ReaderStates, Ops
<1>g. op.at \notin {"idle", "stop"} => ~player.started
  BY DEF Decoding
<1>k. ASSUME player'.waiting => player.waiting, player.started => player'.started,
             \A r \in Readers : /\ readers'[r].view = readers[r].view
                                /\ WaitingInGetFrame(r) => readers'[r].pc \in {"asleep", "awake"}
      PROVE  Views' /\ ViewStaysMapped'
  BY <1>k DEF Views, ViewStaysMapped, WaitingInGetFrame
<1>v. ASSUME player'.waiting => player.waiting,
             \A r \in Readers : /\ readers'[r].view = "none"
                                /\ WaitingInGetFrame(r) => readers'[r].pc \in {"asleep", "awake"}
      PROVE  Views' /\ ViewStaysMapped'
  BY <1>v DEF Views, ViewStaysMapped, WaitingInGetFrame
<1>s. ASSUME UNCHANGED readers
      PROVE  \A r \in Readers : /\ readers'[r].view = readers[r].view
                                /\ WaitingInGetFrame(r) => readers'[r].pc \in {"asleep", "awake"}
  BY <1>s DEF WaitingInGetFrame
<1>1. CASE BeginCallback \/ Play \/ OnVideoType \/ OnVideoData
  <2>1. player'.waiting = player.waiting /\ player'.started = player.started
    BY <1>t, <1>1 DEF BeginCallback, Play, OnVideoType, OnVideoData
  <2>2. UNCHANGED readers
    BY <1>1 DEF BeginCallback, Play, OnVideoType, OnVideoData
  <2> QED
    BY <1>k, <1>s, <2>1, <2>2
<1>2. CASE OnRtspClientEvent
  <2>1. player'.waiting = player.waiting /\ player'.started = player.started
    BY <1>t, <1>2 DEF OnRtspClientEvent
  <2>2. readers' = FrameNotified(readers)
    BY <1>2 DEF OnRtspClientEvent
  <2>3. \A r \in Readers : /\ readers'[r].view = readers[r].view
                           /\ WaitingInGetFrame(r) => readers'[r].pc \in {"asleep", "awake"}
    BY <1>t, <2>2, NotifyFacts DEF WaitingInGetFrame
  <2> QED
    BY <1>k, <2>1, <2>3
<1>3. CASE Create \/ InitCall \/ Start \/ Destroy
  BY <1>3, <1>k, <1>s DEF Create, InitCall, Start, Destroy
<1>4. CASE StopBegin
  <2>1. player'.waiting = player.waiting
    BY <1>t, <1>4 DEF StopBegin, StopFlags
  <2>2. readers' = FrameNotified(Revoked(readers)) /\ Revoked(readers) \in ReaderStates
    BY <1>t, <1>4, NotifyFacts DEF StopBegin
  <2>3. \A r \in Readers : Revoked(readers)[r].view = "none" /\ Revoked(readers)[r].pc = readers[r].pc
    BY <1>t, NotifyFacts
  <2>4. \A r \in Readers : /\ readers'[r].view = "none"
                           /\ WaitingInGetFrame(r) => readers'[r].pc \in {"asleep", "awake"}
    BY <2>2, <2>3, NotifyFacts DEF WaitingInGetFrame
  <2> QED
    BY <1>v, <2>1, <2>4
<1>5. CASE Stop \/ DeinitStop
  <2>1. CASE ~StopBegin
    BY <1>5, <1>k, <1>s, <2>1 DEF Stop, DeinitStop
  <2> QED
    BY <1>4, <2>1
<1>6. CASE \/ InitReset \/ OpenSession \/ Opened \/ Describe \/ CloseSession \/ CloseJoins
           \/ StopJoin \/ DeinitLock \/ ClientDeinit \/ StartDecode
  <2>1. op.at \notin {"idle", "stop"}
    BY <1>6 DEF InitReset, OpenSession, Opened, Describe, CloseSession, CloseJoins, StopJoin, DeinitLock, ClientDeinit, StartDecode
  <2>2. player'.waiting => player.waiting
    BY <1>t, <1>6 DEF InitReset, OpenSession, Opened, Describe, CloseSession, CloseJoins, StopJoin, DeinitLock, ClientDeinit,
                      StartDecode, NewPlayer
  <2>3. UNCHANGED readers
    BY <1>6 DEF InitReset, OpenSession, Opened, Describe, CloseSession, CloseJoins, StopJoin, DeinitLock, ClientDeinit, StartDecode
  <2> QED
    BY <1>g, <1>k, <1>s, <2>1, <2>2, <2>3
<1>7. CASE StopTeardown
  <2>1. \A r \in Readers : readers[r].view = "none"
    BY <1>7, <1>g DEF StopTeardown, Views
  <2>2. ~player'.waiting
    BY <1>t, <1>7 DEF StopTeardown
  <2>3. readers' = readers \/ readers' = Unmapped(readers)
    BY <1>7 DEF StopTeardown
  <2>4. \A r \in Readers : /\ readers'[r].view = "none"
                           /\ WaitingInGetFrame(r) => readers'[r].pc \in {"asleep", "awake"}
    BY <1>t, <2>1, <2>3, NotifyFacts DEF WaitingInGetFrame
  <2> QED
    BY <1>v, <2>2, <2>4
<1>8. ASSUME NEW r \in Readers, GetFrame(r) \/ FrameSpurious(r)
      PROVE  Views' /\ ViewStaysMapped'
  <2>1. player' = player
    BY <1>8 DEF GetFrame, FrameSpurious
  <2>2. \A q \in Readers : /\ readers'[q].view = readers[q].view
                           /\ WaitingInGetFrame(q) => readers'[q].pc \in {"asleep", "awake"}
    BY <1>t, <1>8 DEF GetFrame, FrameSpurious, ReaderStates, WaitingInGetFrame
  <2> QED
    BY <1>k, <2>1, <2>2
<1>9. ASSUME NEW r \in Readers, TakeFrame(r)
      PROVE  Views' /\ ViewStaysMapped'
  <2>1. player'.started = player.started /\ player'.waiting = (player.waiting /\ ~WaitingInGetFrame(r))
    BY <1>t, <1>9 DEF TakeFrame
  <2>2. \A q \in Readers \ {r} : readers'[q] = readers[q]
    BY <1>t, <1>9 DEF TakeFrame, ReaderStates
  <2>3. CASE ~player.connFailed /\ player.started /\ player.frameReady
    <3>1. readers'[r].view = IF \E q \in Readers \ {r} : WaitingInGetFrame(q) THEN "none" ELSE "lent"
      BY <1>t, <1>9, <2>3 DEF TakeFrame, ReaderStates
    <3>2. ViewStaysMapped'
      BY <2>2, <3>1 DEF ViewStaysMapped
    <3>3. ASSUME player'.waiting
          PROVE  /\ \E q \in Readers : (WaitingInGetFrame(q))'
                 /\ \A q \in Readers : readers'[q].view = "none"
      <4>1. player.waiting /\ ~WaitingInGetFrame(r)
        BY <2>1, <3>3
      <4>2. /\ \E q \in Readers : WaitingInGetFrame(q)
            /\ \A q \in Readers : readers[q].view = "none"
        BY <4>1 DEF Views
      <4>3. PICK q \in Readers \ {r} : WaitingInGetFrame(q)
        BY <4>1, <4>2
      <4>4. (WaitingInGetFrame(q))'
        BY <2>2, <4>3 DEF WaitingInGetFrame
      <4>5. readers'[r].view = "none"
        BY <3>1, <4>3
      <4> QED
        BY <2>2, <4>2, <4>4, <4>5
    <3> QED
      BY <2>1, <2>3, <3>2, <3>3 DEF Views
  <2>4. CASE ~(~player.connFailed /\ player.started /\ player.frameReady)
    <3>1. readers'[r].view = readers[r].view
      BY <1>t, <1>9, <2>4 DEF TakeFrame, ReaderStates
    <3>2. ViewStaysMapped'
      BY <2>2, <3>1 DEF ViewStaysMapped
    <3>3. ASSUME player'.waiting
          PROVE  /\ \E q \in Readers : (WaitingInGetFrame(q))'
                 /\ \A q \in Readers : readers'[q].view = "none"
      <4>1. player.waiting /\ ~WaitingInGetFrame(r)
        BY <2>1, <3>3
      <4>2. /\ \E q \in Readers : WaitingInGetFrame(q)
            /\ \A q \in Readers : readers[q].view = "none"
        BY <4>1 DEF Views
      <4>3. PICK q \in Readers \ {r} : WaitingInGetFrame(q)
        BY <4>1, <4>2
      <4>4. (WaitingInGetFrame(q))'
        BY <2>2, <4>3 DEF WaitingInGetFrame
      <4> QED
        BY <2>2, <3>1, <4>2, <4>4
    <3>4. ~player'.started => \A q \in Readers : readers'[q].view = "none"
      BY <2>1, <2>2, <3>1 DEF Views
    <3> QED
      BY <3>2, <3>3, <3>4 DEF Views
  <2> QED
    BY <2>3, <2>4
<1>10. ASSUME NEW r \in Readers, FrameEnter(r) \/ FrameWakes(r) \/ FrameTimeout(r)
       PROVE  Views' /\ ViewStaysMapped'
  <2>1. CASE TakeFrame(r)
    BY <1>9, <2>1
  <2>2. CASE readers' = [Revoked(readers) EXCEPT ![r].pc = "asleep"]
    <3>1. Revoked(readers) \in ReaderStates /\ \A q \in Readers : Revoked(readers)[q].view = "none"
      BY <1>t, NotifyFacts
    <3>2. \A q \in Readers : readers'[q].view = "none"
      BY <2>2, <3>1 DEF ReaderStates
    <3>3. readers'[r].pc = "asleep"
      BY <2>2, <3>1 DEF ReaderStates
    <3> QED
      BY <3>2, <3>3 DEF Views, ViewStaysMapped, WaitingInGetFrame
  <2> QED
    BY <1>10, <2>1, <2>2 DEF FrameEnter, FrameWakes, FrameTimeout
<1>11. CASE \/ DecodeTake \/ SendStream \/ SendRetry \/ SendGiveUp \/ DrainFrame \/ DrainEnds \/ DecodeCheck
  <2>1. player'.waiting = player.waiting /\ player'.started = player.started
    BY <1>t, <1>11 DEF DecodeTake, SendStream, SendRetry, SendGiveUp, DrainFrame, DrainEnds, DecodeCheck
  <2>2. UNCHANGED readers
    BY <1>11 DEF DecodeTake, SendStream, SendRetry, SendGiveUp, DrainFrame, DrainEnds, DecodeCheck
  <2> QED
    BY <1>k, <1>s, <2>1, <2>2
<1>12. CASE PublishRgb
  <2>1. CASE UNCHANGED <<player, readers>>
    BY <1>k, <1>s, <2>1
  <2>2. CASE ~UNCHANGED <<player, readers>>
    <3>1. player.waiting /\ player' = [player EXCEPT !.frameReady = TRUE]
      BY <1>12, <2>2 DEF PublishRgb, WantsRgb
    <3>2. \A r \in Readers : readers[r].view = "none"
      BY <3>1 DEF Views
    <3>3. PICK rs \in {readers, Unmapped(readers)} : readers' = FrameNotified(rs)
      BY <1>12, <2>2 DEF PublishRgb
    <3>4. rs \in ReaderStates /\ \A r \in Readers : rs[r].view = "none" /\ rs[r].pc = readers[r].pc
      BY <1>t, <3>2, <3>3, NotifyFacts
    <3>5. \A r \in Readers : /\ readers'[r].view = "none"
                             /\ WaitingInGetFrame(r) => readers'[r].pc \in {"asleep", "awake"}
      BY <3>3, <3>4, NotifyFacts DEF WaitingInGetFrame
    <3> QED
      BY <1>t, <1>v, <3>1, <3>5
  <2> QED
    BY <2>1, <2>2
<1>13. CASE UNCHANGED vars
  BY <1>13, <1>k, <1>s DEF vars
<1> HIDE DEF Views, ViewStaysMapped
<1> QED
  BY <1>1, <1>2, <1>3, <1>5, <1>6, <1>7, <1>8, <1>10, <1>11, <1>12, <1>13, Zenon
     DEF Next, Live, Call, Script, Reader, Decode

(* and what those that sleep have been told.                               *)
LEMMA WakeupStep ==
  ASSUME TypeOK, Decoding, NoLostWakeup, [Next]_vars
  PROVE  NoLostWakeup'
<1> DEFINE DecoderTold == decoder.pc = "asleep" => queue = <<>> /\ player.decodeRun
           DescribeTold == op.at = "asleep" => ~DescribeEnded
           ReadersTold == \A r \in Readers : readers[r].pc = "asleep" => ~FrameWaitEnded
<1>t. /\ player \in [Flags -> BOOLEAN]
      /\ {"started", "decodeRun", "frameReady", "connFailed", "described", "describeFailed", "opened"} \subseteq Flags
      /\ readers \in ReaderStates /\ op \in Ops /\ decoder \in DecoderStates
  BY DEF TypeOK, Flags, ReaderStates, DecoderStates, Ops
<1>g. op.at \notin {"idle", "stop", "join"} => ~player.started /\ decoder.pc = "none"
  BY DEF Decoding
<1>n. QueueNotified(decoder).pc # "asleep" /\ DescribeNotified(op).at # "asleep"
  BY WakeFacts
<1>da. ASSUME decoder' = decoder, UNCHANGED queue, player'.decodeRun = player.decodeRun
       PROVE  DecoderTold'
  BY <1>da DEF NoLostWakeup
<1>db. decoder'.pc # "asleep" => DecoderTold'
  OBVIOUS
<1>oa. ASSUME op' = op, player'.described = player.described, player'.describeFailed = player.describeFailed
       PROVE  DescribeTold'
  BY <1>oa DEF NoLostWakeup, DescribeEnded
<1>ob. op'.at # "asleep" => DescribeTold'
  OBVIOUS
<1>ra. ASSUME player.started => player'.started, player'.frameReady => player.frameReady,
              player'.connFailed => player.connFailed,
              \A r \in Readers : readers'[r].pc = "asleep" => readers[r].pc = "asleep"
       PROVE  ReadersTold'
  BY <1>ra DEF NoLostWakeup, FrameWaitEnded
<1>rb. (\A r \in Readers : readers'[r].pc # "asleep") => ReadersTold'
  OBVIOUS
<1>q. DecoderTold' /\ DescribeTold' /\ ReadersTold' => NoLostWakeup'
  BY DEF NoLostWakeup
<1>s. ASSUME UNCHANGED readers
      PROVE  \A r \in Readers : readers'[r].pc = "asleep" => readers[r].pc = "asleep"
  BY <1>s
<1> HIDE DEF DecoderTold, DescribeTold, ReadersTold
<1>1. CASE BeginCallback \/ Play \/ SendRetry \/ SendStream \/ DrainFrame \/ DrainEnds \/ DecodeCheck
  <2>1. UNCHANGED <<player, queue, op, readers>>
    BY <1>1 DEF BeginCallback, Play, SendRetry, SendStream, DrainFrame, DrainEnds, DecodeCheck
  <2>2. decoder' = decoder \/ decoder'.pc # "asleep"
    <3>1. CASE BeginCallback \/ Play
      BY <3>1 DEF BeginCallback, Play
    <3>2. CASE SendRetry \/ DrainFrame \/ DecodeCheck
      BY <1>t, <3>2 DEF SendRetry, DrainFrame, DecodeCheck, DecoderStates
    <3>3. CASE SendStream \/ DrainEnds
      <4>1. CASE SendStream
        BY <1>t, <4>1 DEF SendStream, DecoderStates
      <4>2. CASE DrainEnds
        <5>1. decoder.after # "asleep" /\ decoder'.pc = decoder.after
          BY <1>t, <4>2 DEF DrainEnds, DecoderStates
        <5> QED
          BY <5>1
      <4> QED
        BY <3>3, <4>1, <4>2
    <3> QED
      BY <1>1, <3>1, <3>2, <3>3
  <2>3. DescribeTold' /\ ReadersTold'
    BY <1>oa, <1>ra, <1>s, <2>1
  <2>4. DecoderTold'
    BY <1>da, <1>db, <2>1, <2>2
  <2> QED
    BY <1>q, <2>3, <2>4
<1>2. CASE OnVideoType
  <2>1. /\ player'.started = player.started /\ player'.frameReady = player.frameReady
        /\ player'.connFailed = player.connFailed /\ player'.decodeRun = player.decodeRun
    BY <1>t, <1>2 DEF OnVideoType
  <2>2. UNCHANGED <<queue, decoder, readers>> /\ op'.at # "asleep"
    BY <1>n, <1>2 DEF OnVideoType
  <2>3. DescribeTold' /\ DecoderTold'
    BY <1>ob, <1>da, <2>1, <2>2
  <2>4. ReadersTold'
    BY <1>ra, <1>s, <2>1, <2>2
  <2> QED
    BY <1>q, <2>3, <2>4
<1>3. CASE OnVideoData
  <2>1. /\ player'.started = player.started /\ player'.frameReady = player.frameReady
        /\ player'.connFailed = player.connFailed /\ player'.decodeRun = player.decodeRun
        /\ player'.described = player.described /\ player'.describeFailed = player.describeFailed
    BY <1>t, <1>3 DEF OnVideoData
  <2>2. UNCHANGED <<op, readers>> /\ (UNCHANGED <<queue, decoder>> \/ decoder'.pc # "asleep")
    BY <1>n, <1>3 DEF OnVideoData
  <2>3. DescribeTold' /\ ReadersTold'
    BY <1>oa, <1>ra, <1>s, <2>1, <2>2
  <2>4. DecoderTold'
    BY <1>da, <1>db, <2>1, <2>2
  <2> QED
    BY <1>q, <2>3, <2>4
<1>4. CASE OnRtspClientEvent
  <2>1. op'.at # "asleep" /\ decoder'.pc # "asleep"
    BY <1>n, <1>4 DEF OnRtspClientEvent
  <2>2. \A r \in Readers : readers'[r].pc # "asleep"
    BY <1>t, <1>4, NotifyFacts DEF OnRtspClientEvent
  <2> QED
    BY <1>db, <1>ob, <1>rb, <1>q, <2>1, <2>2
<1>5. CASE Create \/ InitCall \/ Start \/ Destroy
  <2>1. UNCHANGED <<player, queue, decoder, readers>>
    BY <1>5 DEF Create, InitCall, Start, Destroy
  <2>2. op'.at # "asleep"
    BY <1>5 DEF Create, InitCall, Start, Destroy, Begin
  <2>3. ReadersTold'
    BY <1>ra, <1>s, <2>1
  <2> QED
    BY <1>da, <1>ob, <1>q, <2>1, <2>2, <2>3
<1>6. CASE Stop \/ DeinitStop
  <2>1. op'.at # "asleep"
    BY <1>6, OpFacts DEF Stop, DeinitStop, Begin
  <2>2. CASE StopBegin
    <3>1. decoder'.pc # "asleep"
      BY <1>n, <2>2 DEF StopBegin
    <3>2. \A r \in Readers : readers'[r].pc # "asleep"
      BY <1>t, <2>2, NotifyFacts DEF StopBegin
    <3> QED
      BY <1>db, <1>ob, <1>rb, <1>q, <2>1, <3>1, <3>2
  <2>3. CASE ~StopBegin
    <3>1. UNCHANGED <<player, queue, decoder, readers>>
      BY <1>6, <2>3 DEF Stop, DeinitStop
    <3>2. ReadersTold'
      BY <1>ra, <1>s, <3>1
    <3> QED
      BY <1>da, <1>ob, <1>q, <2>1, <3>1, <3>2
  <2> QED
    BY <2>2, <2>3
<1>7. CASE Opened
  <2>1. /\ player'.started = player.started /\ player'.frameReady = player.frameReady
        /\ player'.connFailed = player.connFailed /\ player'.decodeRun = player.decodeRun
        /\ player'.described = player.described /\ player'.describeFailed = player.describeFailed
    BY <1>t, <1>7 DEF Opened
  <2>2. UNCHANGED <<queue, decoder, readers>>
    BY <1>7 DEF Opened
  <2>3. DescribeTold'
    <3>1. CASE DescribeEnded
      <4>1. op'.at # "asleep"
        BY <1>7, <3>1, OpFacts DEF Opened
      <4> QED
        BY <1>ob, <4>1
    <3>2. CASE ~DescribeEnded
      <4>1. ~DescribeEnded'
        BY <2>1, <3>2 DEF DescribeEnded
      <4> QED
        BY <4>1 DEF DescribeTold
    <3> QED
      BY <3>1, <3>2
  <2>4. ReadersTold'
    BY <1>ra, <1>s, <2>1, <2>2
  <2> QED
    BY <1>da, <1>q, <2>1, <2>2, <2>3, <2>4
<1>8. CASE \/ InitReset \/ OpenSession \/ Describe \/ CloseSession \/ CloseJoins \/ StartDecode
           \/ StopTeardown \/ DeinitLock \/ ClientDeinit
  <2>1. ~player.started /\ decoder.pc = "none"
    BY <1>g, <1>8 DEF InitReset, OpenSession, Describe, CloseSession, CloseJoins, StartDecode, StopTeardown, DeinitLock,
                      ClientDeinit
  <2>2. \A r \in Readers : readers[r].pc # "asleep"
    BY <2>1 DEF NoLostWakeup, FrameWaitEnded
  <2>3. readers' = readers \/ readers' = Unmapped(readers)
    BY <1>8 DEF InitReset, OpenSession, Describe, CloseSession, CloseJoins, StartDecode, StopTeardown, DeinitLock,
                ClientDeinit
  <2>4. \A r \in Readers : readers'[r].pc # "asleep"
    BY <1>t, <2>2, <2>3, NotifyFacts
  <2>5. decoder'.pc # "asleep"
    <3>1. decoder' = decoder \/ decoder' = [NoDecoder EXCEPT !.pc = "top"]
      BY <1>8 DEF InitReset, OpenSession, Describe, CloseSession, CloseJoins, StartDecode, StopTeardown, DeinitLock,
                  ClientDeinit
    <3> QED
      BY <2>1, <3>1 DEF NoDecoder
  <2>6. op'.at # "asleep"
    <3>1. CASE \/ InitReset \/ OpenSession \/ Describe \/ StartDecode \/ StopTeardown \/ DeinitLock
      BY <3>1, OpFacts DEF InitReset, OpenSession, Describe, StartDecode, StopTeardown, DeinitLock
    <3>2. CASE CloseSession \/ CloseJoins
      <4>1. CASE Goto("closing")
        BY <4>1, OpFacts
      <4>2. CASE Continue(op.then)
        <5>1. CASE op.then = "fail"
          BY <4>2, <5>1, OpFacts DEF Continue
        <5>2. CASE op.then # "fail"
          <6>1. op'.at = op.then
            BY <1>t, <4>2, <5>2 DEF Continue, Goto, Ops
          <6>2. op.then # "asleep"
            BY <1>t DEF Ops
          <6> QED
            BY <6>1, <6>2
        <5> QED
          BY <5>1, <5>2
      <4> QED
        BY <3>2, <4>1, <4>2 DEF CloseSession, CloseJoins
    <3>3. CASE ClientDeinit
      BY <3>3, OpFacts DEF ClientDeinit, Begin
    <3> QED
      BY <1>8, <3>1, <3>2, <3>3
  <2> QED
    BY <1>db, <1>ob, <1>rb, <1>q, <2>4, <2>5, <2>6
<1>9. CASE StopJoin
  <2>1. UNCHANGED <<player, queue, readers>> /\ decoder'.pc # "asleep"
    BY <1>9 DEF StopJoin, NoDecoder
  <2>2. op'.at # "asleep"
    BY <1>9, OpFacts DEF StopJoin
  <2>3. ReadersTold'
    BY <1>ra, <1>s, <2>1
  <2> QED
    BY <1>db, <1>ob, <1>q, <2>1, <2>2, <2>3
<1>10. ASSUME NEW r \in Readers, GetFrame(r) \/ Reader(r) \/ FrameTimeout(r)
       PROVE  NoLostWakeup'
  <2>1. UNCHANGED <<queue, decoder, op>>
    BY <1>10 DEF GetFrame, Reader, FrameEnter, FrameSpurious, FrameWakes, FrameTimeout
  <2>2. ASSUME TakeFrame(r)
        PROVE  /\ player'.started = player.started /\ (player'.frameReady => player.frameReady)
               /\ player'.connFailed = player.connFailed /\ player'.decodeRun = player.decodeRun
               /\ player'.described = player.described /\ player'.describeFailed = player.describeFailed
               /\ \A q \in Readers : readers'[q].pc = "asleep" => readers[q].pc = "asleep"
    <3>1. /\ player'.started = player.started /\ (player'.frameReady => player.frameReady)
          /\ player'.connFailed = player.connFailed /\ player'.decodeRun = player.decodeRun
          /\ player'.described = player.described /\ player'.describeFailed = player.describeFailed
      BY <1>t, <2>2 DEF TakeFrame
    <3>2. \A q \in Readers : readers'[q].pc = "asleep" => readers[q].pc = "asleep"
      BY <1>t, <2>2 DEF TakeFrame, ReaderStates
    <3> QED
      BY <3>1, <3>2
  <2>3. CASE TakeFrame(r)
    BY <1>da, <1>oa, <1>ra, <1>q, <2>1, <2>2, <2>3
  <2>4. CASE GetFrame(r)
    <3>1. UNCHANGED player /\ \A q \in Readers : readers'[q].pc = "asleep" => readers[q].pc = "asleep"
      BY <1>t, <2>4 DEF GetFrame, ReaderStates
    <3> QED
      BY <1>da, <1>oa, <1>ra, <1>q, <2>1, <3>1
  <2>5. CASE FrameSpurious(r)
    <3>1. UNCHANGED player /\ ~FrameWaitEnded
      BY <2>5 DEF FrameSpurious
    <3>2. ReadersTold'
      BY <3>1 DEF ReadersTold, FrameWaitEnded
    <3> QED
      BY <1>da, <1>oa, <1>q, <2>1, <3>1, <3>2
  <2>6. CASE player' = [player EXCEPT !.waiting = TRUE] /\ ~FrameWaitEnded
    <3>1. /\ player'.started = player.started /\ player'.frameReady = player.frameReady
          /\ player'.connFailed = player.connFailed /\ player'.decodeRun = player.decodeRun
          /\ player'.described = player.described /\ player'.describeFailed = player.describeFailed
      BY <1>t, <2>6
    <3>2. ReadersTold'
      BY <2>6, <3>1 DEF ReadersTold, FrameWaitEnded
    <3> QED
      BY <1>da, <1>oa, <1>q, <2>1, <3>1, <3>2
  <2> QED
    BY <1>10, <2>3, <2>4, <2>5, <2>6 DEF Reader, FrameEnter, FrameWakes, FrameTimeout
<1>11. CASE DecodeTake
  <2>1. UNCHANGED <<player, op, readers>> /\ queue' = <<>>
    BY <1>11 DEF DecodeTake
  <2>2. DecoderTold'
    <3>1. decoder'.pc = "asleep" => player.decodeRun
      BY <1>t, <1>11 DEF DecodeTake, DecoderStates
    <3> QED
      BY <2>1, <3>1 DEF DecoderTold
  <2>3. DescribeTold' /\ ReadersTold'
    BY <1>oa, <1>ra, <1>s, <2>1
  <2> QED
    BY <1>q, <2>2, <2>3
<1>12. CASE SendGiveUp
  <2>1. /\ player'.started = player.started /\ player'.frameReady = player.frameReady
        /\ player'.connFailed = player.connFailed
        /\ player'.described = player.described /\ player'.describeFailed = player.describeFailed
    BY <1>t, <1>12 DEF SendGiveUp
  <2>2. UNCHANGED <<op, readers>> /\ decoder'.pc # "asleep"
    BY <1>12 DEF SendGiveUp
  <2>3. DescribeTold' /\ ReadersTold'
    BY <1>oa, <1>ra, <1>s, <2>1, <2>2
  <2> QED
    BY <1>db, <1>q, <2>2, <2>3
<1>13. CASE PublishRgb
  <2>1. op' = op /\ decoder'.pc # "asleep"
    BY <1>t, <1>13 DEF PublishRgb, DecoderStates
  <2>2. CASE UNCHANGED <<player, readers>>
    <3>1. ReadersTold' /\ DescribeTold'
      BY <1>oa, <1>ra, <1>s, <2>1, <2>2
    <3> QED
      BY <1>db, <1>q, <2>1, <3>1
  <2>3. CASE ~UNCHANGED <<player, readers>>
    <3>1. player'.described = player.described /\ player'.describeFailed = player.describeFailed
      BY <1>t, <1>13 DEF PublishRgb
    <3>2. PICK rs \in {readers, Unmapped(readers)} : readers' = FrameNotified(rs)
      BY <1>13, <2>3 DEF PublishRgb
    <3>3. \A r \in Readers : readers'[r].pc # "asleep"
      BY <1>t, <3>2, NotifyFacts
    <3> QED
      BY <1>db, <1>oa, <1>rb, <1>q, <2>1, <3>1, <3>3
  <2> QED
    BY <2>2, <2>3
<1>14. CASE UNCHANGED vars
  <2>1. UNCHANGED <<player, queue, decoder, readers, op>>
    BY <1>14 DEF vars
  <2>2. ReadersTold'
    BY <1>ra, <1>s, <2>1
  <2> QED
    BY <1>da, <1>oa, <1>q, <2>1, <2>2
<1> QED
  BY <1>1, <1>2, <1>3, <1>4, <1>5, <1>6, <1>7, <1>8, <1>9, <1>10, <1>11, <1>12, <1>13, <1>14, Zenon
     DEF Next, Live, Call, Script, Decode

-----------------------------------------------------------------------------
(* The invariant holds at first.                                           *)
LEMMA InitIInv == Init => IInv
<1> SUFFICES ASSUME Init PROVE IInv
  OBVIOUS
<1> USE RtspAssumption
<1>1. live.sess = "none" /\ live.calling = "none" /\ live \in [sess : Session, calling : Callback]
  BY DEF Init, NoSession, Session, Callback
<1>2. player \in [Flags -> BOOLEAN] /\ \A f \in Flags : player[f] = (f = "needIdr")
  BY DEF Init, NewPlayer
<1>3. /\ ~player.opened /\ ~player.started /\ ~player.decodeRun /\ ~player.waiting /\ ~player.frameReady
      /\ player.decodeRun = player.started
  BY <1>2 DEF Flags
<1>4. queue = <<>> /\ queue \in Seq(AccessUnit) /\ Len(queue) <= CacheCount
  BY DEF Init
<1>5. decoder.pc = "none" /\ decoder \in DecoderStates
  BY DEF Init, NoDecoder, DecoderStates
<1>6. op.at = "idle" /\ op \in Ops
  BY DEF Init, NoOp, Ops
<1>7. readers \in ReaderStates /\ \A r \in Readers : readers[r].pc = "idle" /\ readers[r].view = "none"
  BY DEF Init, ReaderStates
<1>8. rgb = FALSE /\ pipeline = FALSE /\ muHeld = FALSE /\ exists = FALSE /\ kept = FALSE
  BY DEF Init
<1>9. TypeOK
  BY <1>1, <1>2, <1>4, <1>5, <1>6, <1>7, <1>8 DEF TypeOK, DecoderStates, Ops, ReaderStates
<1>10. Decoding /\ Sessions
  BY <1>1, <1>3, <1>5, <1>6 DEF Decoding, Sessions
<1>11. Chain /\ Views /\ QueueFollowsOn
  BY <1>3, <1>5, <1>7 DEF Chain, Views, QueueFollowsOn
<1>12. NoLostWakeup /\ BuffersOutliveUsers
  BY <1>3, <1>5, <1>6, <1>7, <1>8 DEF NoLostWakeup, BuffersOutliveUsers, ViewStaysMapped, PipelineOutlivesUsers
<1> QED
  BY <1>9, <1>10, <1>11, <1>12 DEF IInv

(* Every step keeps the invariant.                                         *)
LEMMA StepIInv == IInv /\ [Next]_vars => IInv'
<1> SUFFICES ASSUME IInv, [Next]_vars PROVE IInv'
  OBVIOUS
<1>1. /\ TypeOK /\ Decoding /\ Sessions /\ Chain /\ Views
      /\ QueueFollowsOn /\ NoLostWakeup /\ ViewStaysMapped /\ PipelineOutlivesUsers
  BY DEF IInv, BuffersOutliveUsers
<1>2. TypeOK' /\ Decoding' /\ Sessions' /\ Chain' /\ QueueFollowsOn'
  BY <1>1, TypeStep, DecodingStep, SessionsStep, QueueStep
<1>3. Views' /\ ViewStaysMapped' /\ PipelineOutlivesUsers' /\ NoLostWakeup'
  BY <1>1, ViewsStep, PipelineStep, WakeupStep
<1> QED
  BY <1>2, <1>3 DEF IInv, BuffersOutliveUsers

(* It holds in every reachable state.                                      *)
LEMMA Inductive == Spec => []IInv
BY InitIInv, StepIInv, PTL DEF Spec

(* The flags, the queue (never longer than cache_count_), the program points of the four kinds of threads
   and the views have the values that TypeOK lists.                        *)
THEOREM TypeCorrect == Spec => []TypeOK
<1>1. IInv => TypeOK
  BY DEF IInv
<1> QED
  BY <1>1, Inductive, PTL

(* A delta frame whose predecessor was lost is never queued for the decoder, whatever lost it: a frame that
   is too large, a full queue, an event of the session, init() or start(). *)
THEOREM NoGapIsQueued == Spec => []QueueFollowsOn
<1>1. IInv => QueueFollowsOn
  BY DEF IInv
<1> QED
  BY <1>1, Inductive, PTL

(* Nobody sleeps on one of the three condition variables while what it waits for is true: neither the
   decode thread nor init() or start() nor any number of threads in get_frame. *)
THEOREM NoWakeupIsLost == Spec => []NoLostWakeup
<1>1. IInv => NoLostWakeup
  BY DEF IInv
<1> QED
  BY <1>1, Inductive, PTL

(* A view that get_frame returned stays mapped until it is revoked, and the decode thread and its frames
   never outlive the channels they come from.                              *)
THEOREM BuffersLast == Spec => []BuffersOutliveUsers
<1>1. IInv => BuffersOutliveUsers
  BY DEF IInv
<1> QED
  BY <1>1, Inductive, PTL

(* Open() never meets the thread of an earlier session, and a player that is closed has none that could
   call it back.                                                           *)
THEOREM OneSession == Spec => []SessionsOwned
<1>1. IInv => SessionsOwned
  <2>1. Sessions => OpenStartsSession /\ NoOrphanSession
    BY DEF Sessions, OpenStartsSession, NoOrphanSession
  <2> QED
    BY <2>1 DEF IInv, SessionsOwned
<1> QED
  BY <1>1, Inductive, PTL
=============================================================================
