----------------------------- MODULE RtspPlayer -----------------------------
(***************************************************************************)
(* One RtspClient object: multi_media/rtsp_player.cpp under the wrapper    *)
(* RtspClient.c.  Four kinds of threads meet in it: the script thread that *)
(* has the GIL and runs init, start, stop or deinit; threads inside        *)
(* get_frame, which gives the GIL up; the live555 session thread, which    *)
(* calls back with the stream and its events; and the decode thread.       *)
(*                                                                         *)
(* A section under mu_ is one step.  The two exceptions are modelled as    *)
(* the code has them: a condition variable releases mu_ and its sleeper    *)
(* runs again only when notified or timed out, and deinit() keeps mu_      *)
(* while it calls the client.                                              *)
(*                                                                         *)
(* Of an access unit the model keeps what decides whether it can be        *)
(* decoded: a key frame, and a delta frame whose predecessor was kept,     *)
(* "follows"; a delta frame whose predecessor was lost is a "gap".         *)
(***************************************************************************)
EXTENDS Naturals, Sequences

CONSTANTS
  Readers,      \* threads that call get_frame
  CacheCount    \* cache_count_, the longest queue

ASSUME RtspAssumption == CacheCount \in Nat \ {0}

VARIABLES
  live,      \* the session thread: state of the session, callback it is in
  player,    \* the flags of the KdRtspPlayer
  queue,     \* queue_
  kept,      \* the access unit received last is in the queue or was taken from it
  decoder,   \* the decode thread: program point, units left in the batch, where a drain returns to
  rgb,       \* rgb_virt_ # nullptr
  readers,   \* get_frame of each thread, and the view it returned last
  op,        \* the call in progress under the GIL
  pipeline,  \* the VDEC and non-AI channels and their pools exist
  muHeld,    \* deinit() is inside client_.DeInit() with mu_ locked
  exists     \* interp # NULL

vars == <<live, player, queue, kept, decoder, rgb, readers, op, pipeline, muHeld, exists>>

AccessUnit == {"follows", "gap"}

Session  == {"none", "connecting", "described", "playing", "reconnecting", "closed", "failed"}
Callback == {"none", "type", "data", "closed", "failed"}

\* What may happen next in a session: the callbacks live555 may make.
Offers(s) ==
  CASE s = "connecting"   -> {"type", "closed", "failed"}
    [] s = "described"    -> {"closed", "failed"}
    [] s = "playing"      -> {"data", "closed"}
    [] s = "reconnecting" -> {"type", "failed"}
    [] OTHER              -> {}

Flags == {"opened", "clientInited", "inited", "started", "described", "describeFailed",
          "connFailed", "decodeRun", "needIdr", "waiting", "frameReady", "codec", "sized"}

NewPlayer == [f \in Flags |-> f = "needIdr"]
NoDecoder == [pc |-> "none", batch |-> 0, after |-> "none"]
NoOp      == [call |-> "none", at |-> "idle", then |-> "none"]
NoSession == [sess |-> "none", calling |-> "none"]

Init ==
  /\ live = NoSession
  /\ player = NewPlayer
  /\ queue = <<>>
  /\ kept = FALSE
  /\ decoder = NoDecoder
  /\ rgb = FALSE
  /\ readers = [r \in Readers |-> [pc |-> "idle", view |-> "none"]]
  /\ op = NoOp
  /\ pipeline = FALSE
  /\ muHeld = FALSE
  /\ exists = FALSE

-----------------------------------------------------------------------------
(* Condition variables: a notification moves the sleeper on; the predicate is evaluated when it runs. *)

DescribeNotified(o) == IF o.at = "asleep" THEN [o EXCEPT !.at = "awake"] ELSE o
QueueNotified(d) == IF d.pc = "asleep" THEN [d EXCEPT !.pc = "top"] ELSE d
FrameNotified(rs) == [r \in Readers |-> IF rs[r].pc = "asleep" THEN [rs[r] EXCEPT !.pc = "awake"] ELSE rs[r]]

DescribeEnded == player.described \/ player.describeFailed
FrameWaitEnded == player.frameReady \/ ~player.started \/ player.connFailed

\* A view is lent until the next get_frame() that waits, and until stop().
Revoked(rs) == [r \in Readers |-> [rs[r] EXCEPT !.view = "none"]]

\* The RGB buffer is unmapped: a view that is still lent now points nowhere.
Unmapped(rs) == [r \in Readers |-> IF rs[r].view = "lent" THEN [rs[r] EXCEPT !.view = "dangling"] ELSE rs[r]]

WaitingInGetFrame(r) == readers[r].pc \in {"asleep", "awake"}

-----------------------------------------------------------------------------
(* The live555 session thread. *)

\* It enters a callback unless Close() or DeInit() has asked it to end.
BeginCallback ==
  /\ live.calling = "none"
  /\ op.at \notin {"closing", "client_deinit"}
  /\ \E c \in Offers(live.sess) : live' = [live EXCEPT !.calling = c]
  /\ UNCHANGED <<player, queue, kept, decoder, rgb, readers, op, pipeline, muHeld, exists>>

\* The session reaches PLAY.
Play ==
  /\ live = [sess |-> "described", calling |-> "none"]
  /\ live' = [live EXCEPT !.sess = "playing"]
  /\ UNCHANGED <<player, queue, kept, decoder, rgb, readers, op, pipeline, muHeld, exists>>

\* A reconnected session plays at once.
AfterType == [sess |-> IF live.sess = "reconnecting" THEN "playing" ELSE "described", calling |-> "none"]

OnVideoType ==
  /\ live.calling = "type" /\ ~muHeld
  /\ \/ \* H.264 or H.265, with parameter sets that give a size or do not
        \E parsed \in BOOLEAN :
          player' = [player EXCEPT !.codec = TRUE, !.sized = @ \/ parsed,
                                   !.described = TRUE, !.describeFailed = FALSE]
     \/ player' = [player EXCEPT !.codec = FALSE, !.describeFailed = TRUE]
  /\ op' = DescribeNotified(op)
  /\ live' = AfterType
  /\ UNCHANGED <<queue, kept, decoder, rgb, readers, pipeline, muHeld, exists>>

Mut_ForgetFull(key, oversized, full, needIdr) ==
  IF oversized THEN [drop |-> TRUE, clear |-> FALSE, needIdr |-> TRUE]
  ELSE IF ~key /\ (needIdr \/ full) THEN [drop |-> TRUE, clear |-> FALSE, needIdr |-> needIdr]
  ELSE [drop |-> FALSE, clear |-> full, needIdr |-> needIdr /\ ~key]

Mut_KeepFull(key, oversized, full, needIdr) ==
  IF oversized THEN [drop |-> TRUE, clear |-> FALSE, needIdr |-> TRUE]
  ELSE IF ~key /\ (needIdr \/ full) THEN [drop |-> TRUE, clear |-> FALSE, needIdr |-> TRUE]
  ELSE [drop |-> FALSE, clear |-> FALSE, needIdr |-> needIdr /\ ~key]

\* admit_access_unit: what to do with an access unit that is not ignored.
Admit(key, oversized, full, needIdr) ==
  IF oversized THEN [drop |-> TRUE, clear |-> FALSE, needIdr |-> TRUE]
  ELSE IF ~key /\ (needIdr \/ full) THEN [drop |-> TRUE, clear |-> FALSE, needIdr |-> TRUE]
  ELSE [drop |-> FALSE, clear |-> full, needIdr |-> needIdr /\ ~key]

OnVideoData ==
  /\ live.calling = "data" /\ ~muHeld
  /\ live' = [live EXCEPT !.calling = "none"]
  /\ IF ~player.opened
     THEN kept' = FALSE /\ UNCHANGED <<player, queue, decoder>>
     ELSE \E key, oversized, bytesFull \in BOOLEAN :
            LET decision == Admit(key, oversized, Len(queue) >= CacheCount \/ bytesFull, player.needIdr)
                unit == IF key \/ kept THEN "follows" ELSE "gap"
            IN /\ player' = [player EXCEPT !.needIdr = decision.needIdr]
               /\ kept' = ~decision.drop
               /\ IF decision.drop
                  THEN UNCHANGED <<queue, decoder>>
                  ELSE /\ queue' = Append(IF decision.clear THEN <<>> ELSE queue, unit)
                       /\ decoder' = QueueNotified(decoder)
  /\ UNCHANGED <<rgb, readers, op, pipeline, muHeld, exists>>

\* What clear_queue_locked() leaves of the chain of access units.
KeptAfterClear == kept /\ queue = <<>>

OnRtspClientEvent ==
  /\ live.calling \in {"closed", "failed"} /\ ~muHeld
  /\ player' = [player EXCEPT !.connFailed = @ \/ live.calling = "failed",
                              !.describeFailed = @ \/ live.calling = "failed" \/ ~player.started,
                              !.needIdr = TRUE]
  /\ queue' = <<>> /\ kept' = FALSE
  /\ op' = DescribeNotified(op)
  /\ decoder' = QueueNotified(decoder)
  /\ readers' = FrameNotified(readers)
  /\ live' = [sess |-> IF live.calling = "closed" /\ live.sess = "playing" THEN "reconnecting" ELSE live.calling,
              calling |-> "none"]
  /\ UNCHANGED <<rgb, pipeline, muHeld, exists>>

-----------------------------------------------------------------------------
(* The script thread: init, start, stop and deinit, one at a time under the GIL. *)

Begin(call, at, then) == op' = [call |-> call, at |-> at, then |-> then]
Goto(at) == op' = [op EXCEPT !.at = at]
Return == op' = NoOp

\* A failed constructor destroys the player, any other call raises an exception.
Fail == IF op.call = "create" THEN Begin("destroy", "stop", "none") ELSE Return

\* close_session(), then the rest of the call
CloseThen(next) == op' = [op EXCEPT !.at = "close", !.then = next]

Continue(next) == IF next = "fail" THEN Fail ELSE Goto(next)

\* RtspClient(...): RtspPlayer_create and init on a new object
Create ==
  /\ op.at = "idle" /\ ~exists
  /\ exists' = TRUE
  /\ Begin("create", "reset", "none")
  /\ UNCHANGED <<live, player, queue, kept, decoder, rgb, readers, pipeline, muHeld>>

Mut_InitOverOpen ==
  /\ op.at = "idle" /\ exists
  /\ ~player.started
  /\ Begin("init", "reset", "none")
  /\ UNCHANGED <<live, player, queue, kept, decoder, rgb, readers, pipeline, muHeld, exists>>

InitCall ==
  /\ op.at = "idle" /\ exists
  /\ ~player.started
  /\ IF player.opened THEN Begin("init", "close", "reset") ELSE Begin("init", "reset", "none")
  /\ UNCHANGED <<live, player, queue, kept, decoder, rgb, readers, pipeline, muHeld, exists>>

InitReset ==
  /\ op.at = "reset"
  /\ player' = [player EXCEPT !.codec = FALSE, !.sized = FALSE, !.described = FALSE, !.describeFailed = FALSE,
                              !.connFailed = FALSE, !.needIdr = TRUE]
  /\ queue' = <<>> /\ kept' = KeptAfterClear
  /\ Goto("open")
  /\ UNCHANGED <<live, decoder, rgb, readers, pipeline, muHeld, exists>>

\* open_locked(), called without mu_: the session may call back before opened_ is set.
OpenSession ==
  /\ op.at = "open"
  /\ \/ \* Init() fails
        ~player.clientInited /\ Fail /\ UNCHANGED <<player, live>>
     \/ /\ player' = [player EXCEPT !.clientInited = TRUE, !.described = FALSE, !.describeFailed = FALSE]
        /\ \/ Fail /\ UNCHANGED live
           \/ /\ Goto("opened")
              /\ live' = IF live.sess = "none" THEN [sess |-> "connecting", calling |-> "none"] ELSE live
  /\ UNCHANGED <<queue, kept, decoder, rgb, readers, pipeline, muHeld, exists>>

\* opened_ = true, then the wait for the description
Opened ==
  /\ op.at = "opened"
  /\ player' = [player EXCEPT !.opened = TRUE]
  /\ Goto(IF DescribeEnded THEN "awake" ELSE "asleep")
  /\ UNCHANGED <<live, queue, kept, decoder, rgb, readers, pipeline, muHeld, exists>>

\* The wait ends, by the predicate or after kDescribeWaitMs.
Describe ==
  /\ \/ op.at = "awake" /\ DescribeEnded
     \/ op.at = "asleep"
  /\ IF ~DescribeEnded \/ player.describeFailed \/ ~player.codec
     THEN CloseThen("fail") /\ UNCHANGED player
     ELSE IF op.call = "start"
     THEN Goto("create") /\ UNCHANGED player
     ELSE \/ CloseThen("fail") /\ UNCHANGED player    \* the output size is not a downscale
          \/ /\ player' = [player EXCEPT !.inited = TRUE]
             /\ Return
  /\ UNCHANGED <<live, queue, kept, decoder, rgb, readers, pipeline, muHeld, exists>>

\* close_session(): opened_ is cleared under mu_, Close() is called without it.
CloseSession ==
  /\ op.at = "close"
  /\ player' = [player EXCEPT !.opened = FALSE]
  /\ IF player.opened THEN Goto("closing") ELSE Continue(op.then)
  /\ UNCHANGED <<live, queue, kept, decoder, rgb, readers, pipeline, muHeld, exists>>

\* Close() joins the session thread.
CloseJoins ==
  /\ op.at = "closing"
  /\ live.calling = "none"
  /\ live' = NoSession
  /\ kept' = FALSE
  /\ Continue(op.then)
  /\ UNCHANGED <<player, queue, decoder, rgb, readers, pipeline, muHeld, exists>>

SessionNeedsReopen == ~player.opened \/ player.describeFailed \/ player.connFailed

Start ==
  /\ op.at = "idle" /\ exists
  /\ player.inited /\ ~player.started /\ player.codec /\ player.sized
  /\ IF SessionNeedsReopen THEN Begin("start", "close", "open") ELSE Begin("start", "create", "none")
  /\ UNCHANGED <<live, player, queue, kept, decoder, rgb, readers, pipeline, muHeld, exists>>

\* The rest of start() under mu_; a channel that cannot be had leaves nothing behind.
StartDecode ==
  /\ op.at = "create"
  /\ \/ UNCHANGED <<player, queue, kept, decoder, pipeline>>
     \/ /\ pipeline' = TRUE
        /\ queue' = <<>> /\ kept' = KeptAfterClear
        /\ player' = [player EXCEPT !.needIdr = TRUE, !.connFailed = FALSE, !.decodeRun = TRUE, !.started = TRUE]
        /\ decoder' = [NoDecoder EXCEPT !.pc = "top"]
  /\ Return
  /\ UNCHANGED <<live, rgb, readers, muHeld, exists>>

StopFlags == [player EXCEPT !.decodeRun = FALSE, !.started = FALSE]

Mut_StopLeavesQueue ==
  /\ player.started
  /\ player' = StopFlags
  /\ readers' = FrameNotified(Revoked(readers))
  /\ UNCHANGED <<live, queue, kept, decoder, rgb, pipeline, muHeld, exists>>

\* stop(), called by the script or as the first step of deinit(): the flags and the notifications under mu_
StopBegin ==
  /\ player.started
  /\ player' = StopFlags
  /\ decoder' = QueueNotified(decoder)
  /\ readers' = FrameNotified(Revoked(readers))
  /\ UNCHANGED <<live, queue, kept, rgb, pipeline, muHeld, exists>>

Stop ==
  /\ op.at = "idle" /\ exists
  /\ StopBegin
  /\ Begin("stop", "join", "none")

DeinitStop ==
  /\ op.at = "stop"
  /\ IF player.started
     THEN StopBegin /\ Goto("join")
     ELSE /\ Goto("deinit")
          /\ UNCHANGED <<live, player, queue, kept, decoder, rgb, readers, pipeline, muHeld, exists>>

StopJoin ==
  /\ op.at = "join"
  /\ decoder.pc = "done"
  /\ decoder' = NoDecoder
  /\ CloseThen("teardown")
  /\ UNCHANGED <<live, player, queue, kept, rgb, readers, pipeline, muHeld, exists>>

StopTeardown ==
  /\ op.at = "teardown"
  /\ readers' = IF rgb THEN Unmapped(readers) ELSE readers
  /\ rgb' = FALSE /\ pipeline' = FALSE
  /\ queue' = <<>> /\ kept' = KeptAfterClear
  /\ player' = [player EXCEPT !.frameReady = FALSE, !.waiting = FALSE, !.connFailed = FALSE]
  /\ IF op.call = "stop" THEN Return ELSE Goto("deinit")
  /\ UNCHANGED <<live, decoder, muHeld, exists>>

\* deinit(), __del__ (call "destroy"), or RtspPlayer_DeInitAll of a soft reset, which is followed by
\* __del__.  A script joins the threads that are inside get_frame before; the reset has joined all workers.
Destroy ==
  /\ op.at = "idle" /\ exists
  /\ \A r \in Readers : readers[r].pc = "idle"
  /\ \E call \in {"destroy", "deinit_all"} : Begin(call, "stop", "none")
  /\ UNCHANGED <<live, player, queue, kept, decoder, rgb, readers, pipeline, muHeld, exists>>

\* The rest of deinit() is under mu_; client_.DeInit() ends the session.
DeinitLock ==
  /\ op.at = "deinit"
  /\ muHeld' = TRUE
  /\ player' = [player EXCEPT !.inited = FALSE, !.described = FALSE]
  /\ Goto("client_deinit")
  /\ UNCHANGED <<live, queue, kept, decoder, rgb, readers, pipeline, exists>>

ClientDeinit ==
  /\ op.at = "client_deinit"
  /\ player.clientInited => live.calling = "none"
  /\ live' = NoSession
  /\ muHeld' = FALSE
  /\ IF op.call = "deinit_all"
     THEN /\ player' = [player EXCEPT !.clientInited = FALSE, !.opened = FALSE]
          /\ Begin("destroy", "stop", "none")
          /\ UNCHANGED <<exists, queue, kept>>
     ELSE /\ player' = NewPlayer /\ queue' = <<>> /\ kept' = FALSE    \* delete player
          /\ exists' = FALSE
          /\ Return
  /\ UNCHANGED <<decoder, rgb, readers, pipeline>>

-----------------------------------------------------------------------------
(* get_frame, called without the GIL once its arguments are parsed *)

GetFrame(r) ==
  /\ op.at = "idle" /\ exists
  /\ readers[r].pc = "idle"
  /\ readers' = [readers EXCEPT ![r].pc = "called"]
  /\ UNCHANGED <<live, player, queue, kept, decoder, rgb, op, pipeline, muHeld, exists>>

\* The outcome of get_frame: a view if a frame is ready, else an error or None.
TakeFrame(r) ==
  LET lent == IF \E q \in Readers \ {r} : WaitingInGetFrame(q) THEN "none" ELSE "lent"
  IN IF ~player.connFailed /\ player.started /\ player.frameReady
     THEN /\ player' = [player EXCEPT !.frameReady = FALSE, !.waiting = @ /\ ~WaitingInGetFrame(r)]
          /\ readers' = [readers EXCEPT ![r] = [pc |-> "idle", view |-> lent]]
     ELSE /\ player' = [player EXCEPT !.waiting = @ /\ ~WaitingInGetFrame(r)]
          /\ readers' = [readers EXCEPT ![r].pc = "idle"]

FrameEnter(r) ==
  /\ readers[r].pc = "called" /\ ~muHeld
  /\ IF FrameWaitEnded
     THEN TakeFrame(r)
     ELSE /\ player' = [player EXCEPT !.waiting = TRUE]
          /\ readers' = [Revoked(readers) EXCEPT ![r].pc = "asleep"]
  /\ UNCHANGED <<live, queue, kept, decoder, rgb, op, pipeline, muHeld, exists>>

FrameSpurious(r) ==
  /\ readers[r].pc = "awake" /\ ~FrameWaitEnded /\ ~muHeld
  /\ readers' = [readers EXCEPT ![r].pc = "asleep"]
  /\ UNCHANGED <<live, player, queue, kept, decoder, rgb, op, pipeline, muHeld, exists>>

FrameWakes(r) ==
  /\ readers[r].pc = "awake" /\ FrameWaitEnded /\ ~muHeld
  /\ TakeFrame(r)
  /\ UNCHANGED <<live, queue, kept, decoder, rgb, op, pipeline, muHeld, exists>>

FrameTimeout(r) ==
  /\ readers[r].pc = "asleep" /\ ~muHeld
  /\ TakeFrame(r)
  /\ UNCHANGED <<live, queue, kept, decoder, rgb, op, pipeline, muHeld, exists>>

-----------------------------------------------------------------------------
(* The decode thread. *)

DecodeLeaves == ~player.decodeRun /\ queue = <<>>

DecodeTake ==
  /\ decoder.pc = "top" /\ ~muHeld
  /\ IF queue # <<>>
     THEN decoder' = [decoder EXCEPT !.pc = "send", !.batch = Len(queue)]
     ELSE decoder' = [decoder EXCEPT !.pc = IF player.decodeRun THEN "asleep" ELSE "done"]
  /\ queue' = <<>>
  /\ UNCHANGED <<live, player, kept, rgb, readers, op, pipeline, muHeld, exists>>

SendStream ==
  /\ decoder.pc = "send"
  /\ decoder' = IF decoder.batch = 1
                THEN [pc |-> "drain", batch |-> 0, after |-> "check"]
                ELSE [decoder EXCEPT !.batch = @ - 1]
  /\ UNCHANGED <<live, player, queue, kept, rgb, readers, op, pipeline, muHeld, exists>>

Mut_RetryOn ==
  /\ decoder.pc = "send" /\ ~muHeld
  /\ decoder' = [decoder EXCEPT !.pc = "drain", !.after = "send"]
  /\ UNCHANGED <<live, player, queue, kept, rgb, readers, op, pipeline, muHeld, exists>>

\* A failed send is repeated after a drain while decode_run_ is set and kSendRetryMs has not passed.
SendRetry ==
  /\ decoder.pc = "send" /\ player.decodeRun /\ ~muHeld
  /\ decoder' = [decoder EXCEPT !.pc = "drain", !.after = "send"]
  /\ UNCHANGED <<live, player, queue, kept, rgb, readers, op, pipeline, muHeld, exists>>

SendGiveUp ==
  /\ decoder.pc = "send" /\ ~muHeld
  /\ player' = [player EXCEPT !.needIdr = TRUE]
  /\ decoder' = [pc |-> "drain", batch |-> 0, after |-> "check"]
  /\ UNCHANGED <<live, queue, kept, rgb, readers, op, pipeline, muHeld, exists>>

Mut_WantsAlways == ~player.frameReady

\* One outstanding RGB, made for a caller that waits for it.
WantsRgb == player.waiting /\ ~player.frameReady

\* publish_rgb: the first look, then the conversion without mu_
DrainFrame ==
  /\ decoder.pc = "drain" /\ ~muHeld
  /\ WantsRgb
  /\ decoder' = [decoder EXCEPT !.pc = "convert"]
  /\ UNCHANGED <<live, player, queue, kept, rgb, readers, op, pipeline, muHeld, exists>>

PublishRgb ==
  /\ decoder.pc = "convert" /\ ~muHeld
  /\ decoder' = [decoder EXCEPT !.pc = "drain"]
  /\ \/ UNCHANGED <<player, readers, rgb>>     \* a driver call failed
     \/ IF WantsRgb
        THEN /\ readers' = FrameNotified(IF rgb THEN Unmapped(readers) ELSE readers)
             /\ rgb' = TRUE
             /\ player' = [player EXCEPT !.frameReady = TRUE]
        ELSE UNCHANGED <<player, readers, rgb>>
  /\ UNCHANGED <<live, queue, kept, op, pipeline, muHeld, exists>>

DrainEnds ==
  /\ decoder.pc = "drain"
  /\ decoder' = [decoder EXCEPT !.pc = decoder.after, !.after = "none"]
  /\ UNCHANGED <<live, player, queue, kept, rgb, readers, op, pipeline, muHeld, exists>>

DecodeCheck ==
  /\ decoder.pc = "check" /\ ~muHeld
  /\ decoder' = [decoder EXCEPT !.pc = IF DecodeLeaves THEN "done" ELSE "top"]
  /\ UNCHANGED <<live, player, queue, kept, rgb, readers, op, pipeline, muHeld, exists>>

-----------------------------------------------------------------------------
Live == BeginCallback \/ Play \/ OnVideoType \/ OnVideoData \/ OnRtspClientEvent

\* What a call does once it has begun
Script ==
  \/ InitReset \/ OpenSession \/ Opened \/ CloseSession \/ CloseJoins
  \/ StartDecode \/ DeinitStop \/ StopJoin \/ StopTeardown \/ DeinitLock \/ ClientDeinit

Call == Create \/ InitCall \/ Start \/ Stop \/ Destroy

Reader(r) == FrameEnter(r) \/ FrameSpurious(r) \/ FrameWakes(r)

Decode ==
  \/ DecodeTake \/ SendStream \/ SendRetry \/ SendGiveUp
  \/ DrainFrame \/ PublishRgb \/ DrainEnds \/ DecodeCheck

Next ==
  \/ Live \/ Call \/ Script \/ Describe \/ Decode
  \/ \E r \in Readers : GetFrame(r) \/ Reader(r) \/ FrameTimeout(r)

Spec == Init /\ [][Next]_vars

(***************************************************************************)
(* Threads that can run do run, and a callback that was entered ends.  No  *)
(* fairness is given to a timeout: what must happen happens without it.    *)
(* DrainEnds is strongly fair since VDEC runs out of decoded pictures, and *)
(* the last conjunct says that the camera does not deliver an access unit  *)
(* within every single pass of the decode loop.                            *)
(***************************************************************************)
Fairness ==
  /\ WF_vars(OnVideoType) /\ WF_vars(OnVideoData) /\ WF_vars(OnRtspClientEvent)
  /\ WF_vars(Script) /\ WF_vars(Describe /\ op.at = "awake") /\ WF_vars(Decode)
  /\ SF_vars(DrainEnds)
  /\ SF_vars(DecodeCheck /\ DecodeLeaves)
  /\ <>[](decoder.pc # "check") \/ []<>(decoder.pc = "check" /\ queue = <<>>)
  /\ \A r \in Readers : WF_vars(Reader(r))

FairSpec == Spec /\ Fairness

-----------------------------------------------------------------------------
\* The values every variable may take.
TypeOK ==
  /\ live \in [sess : Session, calling : Callback]
  /\ player \in [Flags -> BOOLEAN]
  /\ queue \in Seq(AccessUnit) /\ Len(queue) <= CacheCount
  /\ kept \in BOOLEAN /\ rgb \in BOOLEAN /\ pipeline \in BOOLEAN /\ muHeld \in BOOLEAN /\ exists \in BOOLEAN
  /\ decoder \in [pc : {"none", "top", "asleep", "send", "drain", "convert", "check", "done"},
                  batch : 0 .. CacheCount, after : {"none", "send", "check"}]
  /\ readers \in [Readers -> [pc : {"idle", "called", "asleep", "awake"}, view : {"none", "lent", "dangling"}]]
  /\ op \in [call : {"none", "create", "init", "start", "stop", "destroy", "deinit_all"},
             at : {"idle", "reset", "open", "opened", "asleep", "awake", "create", "close", "closing",
                   "join", "teardown", "stop", "deinit", "client_deinit"},
             then : {"none", "reset", "open", "fail", "teardown"}]

\* While the decode thread runs, no delta frame is queued after a loss: every way of losing an access unit
\* (oversized, queue full, waiting for a key frame, cleared by an event or by start()) leaves need_idr_ set.
QueueFollowsOn == decoder.pc # "none" => \A i \in 1 .. Len(queue) : queue[i] # "gap"

\* No lost wakeup on any of the three condition variables: nobody sleeps while what it waits for is true.
NoLostWakeup ==
  /\ decoder.pc = "asleep" => queue = <<>> /\ player.decodeRun
  /\ op.at = "asleep" => ~DescribeEnded
  /\ \A r \in Readers : readers[r].pc = "asleep" => ~FrameWaitEnded

\* A view returned by get_frame stays mapped until the next get_frame that waits, or stop().
ViewStaysMapped == \A r \in Readers : readers[r].view # "dangling"

\* The decode thread never outlives the channels it uses, nor a mapped frame the channel it came from.
PipelineOutlivesUsers == (decoder.pc # "none" \/ rgb \/ player.frameReady) => pipeline

\* What the decoder and the callers of get_frame use is there as long as they use it.
BuffersOutliveUsers == ViewStaysMapped /\ PipelineOutlivesUsers

\* Open() is never called while the thread of an earlier session is alive, when it would do nothing.
OpenStartsSession == op.at = "open" => live.sess = "none"

\* A player that is gone, or closed by a call that failed, has no session thread that could call it back.
NoOrphanSession == (op.at = "idle" /\ ~player.opened) => live.sess = "none"

\* One session thread per player that is open, from Open() to Close(), also when a call fails half way.
SessionsOwned == OpenStartsSession /\ NoOrphanSession

\* stop() returns, and so does a get_frame that waits when stop() is called, without its timeout.
StopReturns == (op.at = "join") ~> (op.at = "idle" /\ ~pipeline)
StopReleasesReaders ==
  \A r \in Readers : (WaitingInGetFrame(r) /\ ~player.started) ~> (~WaitingInGetFrame(r) \/ player.started)

\* stop() ends, and ends the waits of others.
StopEnds == StopReturns /\ StopReleasesReaders
=============================================================================
