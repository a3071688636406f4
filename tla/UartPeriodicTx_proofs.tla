----------------------- MODULE UartPeriodicTx_proofs -----------------------
(***************************************************************************)
(* Theorems about UartPeriodicTx, for any number of objects, timers, UARTs *)
(* and handler activations, and any number of frames.                      *)
(***************************************************************************)
EXTENDS UartPeriodicTx, FiniteSetTheorems, TLAPS

HandlerPcs == {"idle", "owner", "running", "leave", "try", "skip"} \cup Sending
Published == {"recheck"} \cup Reading

(* Where the processes are, and which object they name there.  config is a *)
(* function; its values are the caller's.                                  *)
Places ==
    /\ DOMAIN config = Uarts
    /\ pc[Script] \notin {"owner", "running", "leave"}
    /\ pc[Script] \notin {"idle", "sweep", "return"} => self[Script] \in Objs
    /\ pc[Script] = "idle" => call = NoCall
    /\ pc[Script] = "sweep" => call.all
    /\ call.all => pc[Script] \in {"sweep", "free", "return"} \cup Teardown
    /\ \A h \in Handlers :
        /\ pc[h] \in HandlerPcs
        /\ pc[h] \in HandlerPcs \ {"idle", "owner", "leave"} => self[h] \in Objs
        /\ pc[h] \in {"idle", "owner"} => self[h] = None
        /\ pc[h] = "idle" <=> arg[h] = None
        /\ self[h] # None => TimerOf[self[h]] = arg[h]
    /\ \A p \in Procs :
        /\ pc[p] \in {"load", "publish", "recheck"} => attempt[p] <= 2
        /\ pc[p] \in {"publish"} \cup Published => index[p] \in Buffers

(* The reservations: what an object has claimed, it claimed in this order, *)
(* it alone has the timer, and no claim outlives the call that failed.     *)
Claims ==
    /\ \A o \in Objs :
        /\ slot[o] => timer[o]
        /\ timer[o] => uart_claimed[o]
        /\ uart_claimed[o] => timer_claimed[o]
        /\ timer_claimed[o] => buffers[o] /\ native_claimed[TimerOf[o]]
        /\ timer_claimed[o] =>
            \/ active_obj[TimerOf[o]] = o
            \/ self[Script] = o /\ pc[Script] \in {"configure", "own", "run"} \cup Teardown
    /\ \A o, q \in Objs : timer_claimed[o] /\ timer_claimed[q] /\ TimerOf[o] = TimerOf[q] => o = q
    /\ \A t \in Timers : native_claimed[t] =>
        ~python_timer[t] /\ \E o \in Objs : timer_claimed[o] /\ TimerOf[o] = t
    /\ pc[Script] = "configure" => uart_claimed[self[Script]] /\ ~slot[self[Script]]
    /\ pc[Script] = "own" => timer[self[Script]]
    /\ pc[Script] \in {"run", "wait"} => slot[self[Script]]
    /\ pc[Script] = "arm" => active_obj[TimerOf[self[Script]]] = self[Script]
    /\ pc[Script] = "free" => ~timer_claimed[self[Script]]

(* The slots: their owners and the objects the sweep finds have one, only  *)
(* these tick, and a stop has taken its object out before it waits.        *)
Slots ==
    /\ \A t \in Timers :
        /\ owner[t] # None => slot[owner[t]] /\ TimerOf[owner[t]] = t
        /\ active_obj[t] # None => slot[active_obj[t]] /\ TimerOf[active_obj[t]] = t
        /\ armed[t] => active_obj[t] # None
    /\ pc[Script] \in Teardown \ {"disown"} => owner[TimerOf[self[Script]]] # self[Script]
    /\ pc[Script] \in {"wait", "release"} =>
        \A t \in Timers : active_obj[t] = self[Script] => ~armed[t]

(* The handshake of owner and in_callback.                                 *)
Handshake ==
    /\ \A h \in Handlers : self[h] # None => slot[self[h]]
    /\ pc[Script] = "release" => \A h \in Handlers : self[h] # self[Script]
    /\ \A t \in Timers : in_callback[t] = Cardinality({h \in Handlers : arg[h] = t})

(* A sender keeps the UART it has claimed.                                 *)
Senders ==
    /\ \A p \in Procs : pc[p] \in Sending => uart_claimed[self[p]] /\ tx_busy[Uart(p)]
    /\ OneSender

(* The sweep leaves no object behind it, and goes over every slot.         *)
Swept ==
    call.all =>
        /\ \A t \in Timers \ call.sweep :
            active_obj[t] = None \/ (pc[Script] \in Teardown /\ active_obj[t] = self[Script])
        /\ call.free
        /\ pc[Script] = "return" => call.sweep = {}

(* The active buffer has the latest generation; the one update() is about  *)
(* to activate is the next.                                                *)
Frames ==
    /\ \A o \in Objs :
        /\ \A i \in Buffers : buffer_generation[o][i] <= next_generation[o]
        /\ ~(pc[Script] = "activate" /\ self[Script] = o) =>
            buffer_generation[o][active_idx[o]] = next_generation[o]
    /\ pc[Script] \in {"choose", "copy"} => next_generation[self[Script]] < MaxGeneration
    /\ pc[Script] \in {"copy", "activate"} => call.target # active_idx[self[Script]]
    /\ pc[Script] = "activate" =>
        LET o == self[Script]
        IN /\ buffer_generation[o][call.target] = next_generation[o]
           /\ buffer_generation[o][active_idx[o]] = next_generation[o] - 1
           /\ \A i \in Buffers \ {call.target} : buffer_generation[o][i] < next_generation[o]

(* A sender has published the buffer it reads, and update() has another.   *)
Readers ==
    /\ \A p \in Procs : pc[p] \in Published => reader_idx[self[p]] = index[p]
    /\ pc[Script] \in {"copy", "activate"} =>
        \A p \in Procs : pc[p] \in Reading /\ self[p] = self[Script] => index[p] # call.target

(* last_sent_generation is the latest generation delivered, but between    *)
(* the write and its record.                                               *)
Deliveries ==
    /\ \A o \in Objs :
        /\ \A g \in delivered[o] : g <= buffer_generation[o][active_idx[o]]
        /\ last_sent_generation[o] # NoGeneration => last_sent_generation[o] \in delivered[o]
        /\ (\A p \in Procs : ~(pc[p] = "mark" /\ self[p] = o)) =>
            \A g \in delivered[o] : last_sent_generation[o] # NoGeneration /\ g <= last_sent_generation[o]
    /\ \A p \in Procs :
        /\ pc[p] = "check" => \A g \in delivered[self[p]] : g <= buffer_generation[self[p]][index[p]]
        /\ pc[p] = "write" => generation[p] <= buffer_generation[self[p]][active_idx[self[p]]]
        /\ pc[p] = "mark" => /\ generation[p] \in delivered[self[p]]
                             /\ \A g \in delivered[self[p]] : g <= generation[p]
    /\ OnceInOrder

(* What update(send_now=True) is about to report.                          *)
Reports ==
    /\ sent[Script] => /\ pc[Script] \in {"unread", "unlock", "return"}
                       /\ self[Script] \in Objs /\ Required(Script) \in delivered[self[Script]]
    /\ pc[Script] \in {"write", "mark"} => generation[Script] = Required(Script)

(* The inductive invariant.                                                *)
IInv == /\ TypeOK /\ Places /\ Claims /\ Slots /\ Handshake /\ UsersExact /\ Senders /\ Swept
        /\ Frames /\ Readers /\ Deliveries /\ Reports

-----------------------------------------------------------------------------
(* The script is a process beside the handlers; nobody is an object.       *)
LEMMA ProcFacts ==
    /\ Script \in Procs /\ Script \notin Handlers /\ None \notin Objs /\ None \notin Timers
    /\ \A h \in Handlers : h \in Procs /\ h # Script
    /\ \A p \in Procs : p = Script \/ p \in Handlers
    /\ TimerOf \in [Objs -> Timers] /\ UartOf \in [Objs -> Uarts] /\ MaxGeneration \in Nat
    BY ConstantsAssumption DEF ConstantsAssumption, Procs

(* Three buffers.                                                          *)
LEMMA BufferFacts == Buffers = {0, 1, 2} /\ Cardinality(Buffers) = 3
<1>1. 0 \in Int /\ 2 \in Int
    OBVIOUS
<1>2. Cardinality(0..2) = IF 0 > 2 THEN 0 ELSE 2 - 0 + 1
    BY <1>1, FS_Interval, Zenon
<1> QED
    BY <1>2 DEF Buffers

(* There is always a buffer neither active nor read; update() takes one.   *)
LEMMA FreeBuffer ==
    ASSUME NEW i \in Buffers, NEW r
    PROVE  LET free == Buffers \ {i, r}
           IN (CHOOSE j \in free : \A k \in free : j <= k) \in Buffers \ {i, r}
<1> DEFINE free == Buffers \ {i, r}
<1>1. \E j \in free : \A k \in free : j <= k
    BY BufferFacts
<1> QED
    BY <1>1

(* The disjuncts of Next in one list.                                      *)
LEMMA StepCases ==
    ASSUME [Next]_vars
    PROVE  \/ \E o \in Objs, len \in {0, 1}, now \in BOOLEAN : CallUpdate(o, len, now)
           \/ ChooseBuffer \/ FinishCopy \/ Activate \/ AlreadySent(Script) \/ Return
           \/ \E p \in Procs : TrySend(p)
           \/ \E h \in Handlers : LoadOwner(h) \/ CheckRunning(h) \/ LeaveCallback(h)
           \/ \E h \in Handlers, t \in Timers : EnterCallback(h, t)
           \/ \E t \in Timers : Tick(t)
           \/ \E o \in Objs : CallStart(o) \/ CallStop(o) \/ CallDeinit(o)
           \/ CallDeinitAll \/ Sweep \/ \E t \in Timers : PythonTimer(t)
           \/ ConfigureTimer \/ OwnSlot \/ RunTimer \/ ArmTimer
           \/ Disown \/ Halt \/ Silence \/ WaitForCallback \/ Release \/ FreeBuffers
           \/ UNCHANGED vars
    BY ProcFacts, Zenon DEF Next, NewCall, ScriptStep, HandlerStep

-----------------------------------------------------------------------------

LEMMA PcFacts ==
    /\ {"idle", "owner", "running", "leave", "already", "try", "skip", "choose", "copy", "activate", "return",
         "configure", "own", "run", "arm", "sweep", "free"} \subseteq Pcs
    /\ Sending \subseteq Pcs /\ Teardown \subseteq Pcs
    BY DEF Pcs

(* Every step keeps the types of the locals,                               *)
LEMMA LocalStep ==
    ASSUME TypeOK, Places, [Next]_vars
    PROVE  LocalTypes'
<1> USE ProcFacts, PcFacts DEF TypeOK, LocalTypes, Goto, locals
<1>1. ASSUME NEW o \in Objs, NEW len \in {0, 1}, NEW now \in BOOLEAN, CallUpdate(o, len, now)
      PROVE  LocalTypes'
  <2>1. [NoCall EXCEPT !.len = len, !.now = now] \in Calls
    BY BufferFacts DEF NoCall, Calls
  <2> QED
    BY <1>1, <2>1 DEF CallUpdate, Begin, elsewhere, OrNone
<1>2. CASE ChooseBuffer
  <2> DEFINE free == Buffers \ {active_idx[self[Script]], reader_idx[self[Script]]}
             i == CHOOSE j \in free : \A k \in free : j <= k
  <2>1. active_idx[self[Script]] \in Buffers
    BY <1>2 DEF ChooseBuffer, Places, FrameTypes
  <2>2. i \in Buffers \ {active_idx[self[Script]], reader_idx[self[Script]]}
    BY <2>1, FreeBuffer, Zenon
  <2>3. call' = [call EXCEPT !.target = i]
    BY <1>2 DEF ChooseBuffer
  <2> HIDE DEF i
  <2>4. call' \in Calls
    BY <2>2, <2>3 DEF Calls
  <2> QED
    BY <1>2, <2>4 DEF ChooseBuffer, elsewhere
<1>3. CASE FinishCopy \/ Activate
    BY <1>3 DEF FinishCopy, Activate, elsewhere
<1>4. CASE AlreadySent(Script)
  <2>1. sent' \in [Procs -> BOOLEAN] /\ pc' \in [Procs -> Pcs]
    BY <1>4 DEF AlreadySent
  <2> QED
    BY <1>4, <2>1 DEF AlreadySent, still
<1>5. CASE Return
  <2>1. NoCall \in Calls
    BY BufferFacts DEF NoCall, Calls
  <2> QED
    BY <1>5, <2>1 DEF Return, OrNone, Generations
<1>6. ASSUME NEW p \in Procs, TrySend(p)
      PROVE  LocalTypes'
    <2> USE DEF still
    <2>1. CASE ClaimTx(p)
        BY <2>1 DEF ClaimTx, Sending
    <2>7. CASE SkipTx(p)
      <3>1. sent' \in [Procs -> BOOLEAN]
        BY <2>7 DEF SkipTx
      <3>2. pc' \in [Procs -> Pcs]
        BY <2>7 DEF SkipTx, ReturnPoint
      <3> QED
        BY <3>1, <3>2, <2>7 DEF SkipTx
    <2>2. CASE LoadActive(p)
        BY <2>2, BufferFacts DEF LoadActive, FrameTypes, Sending, Places
    <2>2a. CASE PublishReader(p) \/ RecheckActive(p)
        BY <2>2a, BufferFacts DEF PublishReader, RecheckActive, Sending, Places
    <2>3. CASE CheckFrame(p)
      <3>1. sent' \in [Procs -> BOOLEAN]
        BY <2>3 DEF CheckFrame
      <3>2. pc' \in [Procs -> Pcs]
        BY <2>3 DEF CheckFrame, Sending
      <3>3. generation' \in [Procs -> Generations]
        BY <2>3 DEF CheckFrame, FrameTypes, Places, HandlerPcs, Published, Sending, Reading
      <3> QED
        BY <3>1, <3>2, <3>3, <2>3 DEF CheckFrame
    <2>4. CASE WriteWhole(p) \/ WriteFails(p)
        BY <2>4 DEF WriteWhole, WriteFails, Sending
    <2>8. CASE MarkSent(p)
        BY <2>8 DEF MarkSent, Sending
    <2>5. CASE ClearReader(p)
        BY <2>5 DEF ClearReader, Sending
    <2>6. CASE ReleaseTx(p)
        BY <2>6 DEF ReleaseTx, ReturnPoint, Sending
    <2> QED
        BY <1>6, <2>1, <2>2, <2>2a, <2>3, <2>4, <2>5, <2>6, <2>7, <2>8 DEF TrySend
<1>7. ASSUME NEW h \in Handlers, LoadOwner(h) \/ CheckRunning(h)
      PROVE  LocalTypes'
  <2>1. CASE LoadOwner(h)
    BY <2>1 DEF LoadOwner, quiet, Places, HandleTypes, OrNone
  <2>2. CASE CheckRunning(h)
    BY <2>2 DEF CheckRunning, quiet
  <2> QED
    BY <1>7, <2>1, <2>2
<1>8. ASSUME NEW h \in Handlers, LeaveCallback(h)
      PROVE  LocalTypes'
    BY <1>8 DEF LeaveCallback, OrNone, Generations
<1>9. ASSUME NEW h \in Handlers, NEW t \in Timers, EnterCallback(h, t)
      PROVE  LocalTypes'
    BY <1>9 DEF EnterCallback, quiet, OrNone
<1>10. ASSUME NEW t \in Timers, Tick(t) \/ PythonTimer(t)
      PROVE  LocalTypes'
    BY <1>10 DEF Tick, PythonTimer
<1>11. ASSUME NEW o \in Objs, CallStart(o) \/ CallStop(o) \/ CallDeinit(o)
      PROVE  LocalTypes'
  <2>1. NoCall \in Calls /\ [NoCall EXCEPT !.free = TRUE] \in Calls
    BY BufferFacts DEF NoCall, Calls
  <2>2. CASE CallStart(o)
    BY <2>1, <2>2 DEF CallStart, Begin, data, OrNone, Teardown
  <2>3. CASE CallStop(o)
    BY <2>1, <2>3 DEF CallStop, Begin, data, OrNone, Teardown
  <2>4. CASE CallDeinit(o)
    BY <2>1, <2>4 DEF CallDeinit, Begin, data, OrNone, Teardown
  <2> QED
    BY <1>11, <2>2, <2>3, <2>4
<1>12. CASE CallDeinitAll
  <2>1. [NoCall EXCEPT !.free = TRUE, !.all = TRUE, !.sweep = Timers] \in Calls
    BY BufferFacts DEF NoCall, Calls
  <2> QED
    BY <1>12, <2>1 DEF CallDeinitAll, Begin, data, OrNone
<1>13. CASE Sweep
  <2>1. call' \in Calls
    BY <1>13 DEF Sweep, Calls
  <2>2. self' \in [Procs -> OrNone(Objs)]
    BY <1>13 DEF Sweep, TypeOK, HandleTypes, Calls
  <2>3. pc' \in [Procs -> Pcs]
    BY <1>13 DEF Sweep, Teardown
  <2> QED
    BY <1>13, <2>1, <2>2, <2>3 DEF Sweep, data
<1>14. CASE ConfigureTimer \/ OwnSlot \/ RunTimer \/ ArmTimer
    BY <1>14 DEF ConfigureTimer, OwnSlot, RunTimer, ArmTimer, data, Teardown
<1>15. CASE Disown \/ Halt \/ Silence \/ WaitForCallback \/ FreeBuffers
    BY <1>15 DEF Disown, Halt, Silence, WaitForCallback, FreeBuffers, data, Teardown
<1>16. CASE Release
    BY <1>16 DEF Release, data
<1>17. CASE UNCHANGED vars
    BY <1>17 DEF vars
<1> HIDE DEF TypeOK, LocalTypes, Goto, locals
<1> QED
    BY <1>1, <1>2, <1>3, <1>4, <1>5, <1>6, <1>7, <1>8, <1>9, <1>10, <1>11, <1>12, <1>13, <1>14, <1>15, <1>16, <1>17,
       StepCases, Zenon

(* of the triple buffers,                                                  *)
LEMMA FrameStep ==
    ASSUME TypeOK, Places, Frames, [Next]_vars
    PROVE  FrameTypes'
<1> USE ProcFacts, BufferFacts DEF TypeOK, LocalTypes, FrameTypes, frames
<1>1. ASSUME NEW o \in Objs, NEW len \in {0, 1}, NEW now \in BOOLEAN, CallUpdate(o, len, now)
      PROVE  FrameTypes'
    BY <1>1 DEF CallUpdate, elsewhere
<1>2. CASE ChooseBuffer \/ AlreadySent(Script) \/ Return
    BY <1>2 DEF ChooseBuffer, AlreadySent, Return, elsewhere, still
<1>3. CASE FinishCopy
  <2>1. self[Script] \in Objs /\ call.target \in Buffers /\ call.len \in {0, 1}
    BY <1>3 DEF FinishCopy, Places, Calls
  <2>2. next_generation[self[Script]] + 1 \in Generations
    BY <1>3, <2>1 DEF FinishCopy, Frames, Generations
  <2>3. next_generation' \in [Objs -> Generations]
    BY <1>3, <2>1, <2>2 DEF FinishCopy
  <2>4. buffer_len' \in [Objs -> [Buffers -> {0, 1}]]
    BY <1>3, <2>1 DEF FinishCopy
  <2>5. buffer_generation' \in [Objs -> [Buffers -> Generations]]
    BY <1>3, <2>1, <2>2 DEF FinishCopy
  <2> QED
    BY <1>3, <2>3, <2>4, <2>5 DEF FinishCopy, elsewhere
<1>4. CASE Activate
    BY <1>4 DEF Activate, elsewhere, Places, Calls
<1>5. ASSUME NEW p \in Procs, TrySend(p)
      PROVE  FrameTypes'
  <2> USE DEF still
  <2>1. CASE ClaimTx(p) \/ SkipTx(p) \/ LoadActive(p) \/ RecheckActive(p) \/ CheckFrame(p) \/ WriteFails(p) \/ ReleaseTx(p)
    BY <2>1 DEF ClaimTx, SkipTx, LoadActive, RecheckActive, CheckFrame, WriteFails, ReleaseTx
  <2>2. CASE PublishReader(p)
    BY <2>2 DEF PublishReader
  <2>5. CASE ClearReader(p)
    BY <2>5 DEF ClearReader
  <2>3. CASE WriteWhole(p)
    <3>1. self[p] \in Objs /\ generation[p] \in Generations
      BY <2>3 DEF WriteWhole, Places, HandlerPcs, Sending
    <3> QED
      BY <2>3, <3>1 DEF WriteWhole
  <2>4. CASE MarkSent(p)
    BY <2>4 DEF MarkSent
  <2> QED
    BY <1>5, <2>1, <2>2, <2>3, <2>4, <2>5 DEF TrySend
<1>6. ASSUME NEW h \in Handlers, LoadOwner(h) \/ CheckRunning(h) \/ LeaveCallback(h)
      PROVE  FrameTypes'
    BY <1>6 DEF LoadOwner, CheckRunning, LeaveCallback, quiet
<1>7. ASSUME NEW h \in Handlers, NEW t \in Timers, EnterCallback(h, t)
      PROVE  FrameTypes'
    BY <1>7 DEF EnterCallback, quiet
<1>8. ASSUME NEW t \in Timers, Tick(t) \/ PythonTimer(t)
      PROVE  FrameTypes'
    BY <1>8 DEF Tick, PythonTimer
<1>9. ASSUME NEW o \in Objs, CallStart(o) \/ CallStop(o) \/ CallDeinit(o)
      PROVE  FrameTypes'
    BY <1>9 DEF CallStart, CallStop, CallDeinit, data
<1>10. CASE CallDeinitAll \/ Sweep \/ ConfigureTimer \/ OwnSlot \/ RunTimer \/ ArmTimer
    BY <1>10 DEF CallDeinitAll, Sweep, ConfigureTimer, OwnSlot, RunTimer, ArmTimer, data
<1>11. CASE Disown \/ Halt \/ Silence \/ WaitForCallback
    BY <1>11 DEF Disown, Halt, Silence, WaitForCallback, data
<1>12. CASE Release
    BY <1>12 DEF Release, data
<1>13. CASE FreeBuffers
    BY <1>13 DEF FreeBuffers, data
<1>14. CASE UNCHANGED vars
    BY <1>14 DEF vars
<1> HIDE DEF TypeOK, LocalTypes, FrameTypes, frames
<1> QED
    BY <1>1, <1>2, <1>3, <1>4, <1>5, <1>6, <1>7, <1>8, <1>9, <1>10, <1>11, <1>12, <1>13, <1>14, StepCases, Zenon

(* What in_callback and users count are finite sets.                       *)
LEMMA CountFacts ==
    /\ \A S \in SUBSET Handlers : IsFiniteSet(S) /\ Cardinality(S) \in 0..Cardinality(Handlers)
    /\ \A S \in SUBSET Objs : IsFiniteSet(S) /\ Cardinality(S) \in 0..Cardinality(Objs)
<1>1. ASSUME NEW S, NEW W, IsFiniteSet(W), S \subseteq W
      PROVE  IsFiniteSet(S) /\ Cardinality(S) \in 0..Cardinality(W)
  <2>1. IsFiniteSet(S) /\ Cardinality(S) <= Cardinality(W)
    BY <1>1, FS_Subset
  <2>2. Cardinality(S) \in Nat /\ Cardinality(W) \in Nat
    BY <1>1, <2>1, FS_CardinalityType
  <2> QED
    BY <2>1, <2>2
<1>2. IsFiniteSet(Handlers) /\ IsFiniteSet(Objs)
    BY ConstantsAssumption DEF ConstantsAssumption
<1> QED
    BY <1>1, <1>2

(* and of the reservations; in_callback and users are bounded by what they *)
(* count.                                                                  *)
LEMMA HandleStep ==
    ASSUME TypeOK, Places, Handshake, UsersExact, [Next]_vars, Handshake', UsersExact'
    PROVE  HandleTypes'
<1> USE ProcFacts DEF TypeOK, LocalTypes, HandleTypes, handles, uart, hardware
<1>1. ASSUME NEW o \in Objs, NEW len \in {0, 1}, NEW now \in BOOLEAN, CallUpdate(o, len, now)
      PROVE  HandleTypes'
    BY <1>1 DEF CallUpdate, elsewhere, frames
<1>2. CASE ChooseBuffer \/ FinishCopy \/ Activate
    BY <1>2 DEF ChooseBuffer, FinishCopy, Activate, elsewhere, frames
<1>3. CASE AlreadySent(Script) \/ Return
    BY <1>3 DEF AlreadySent, Return, still, frames
<1>4. ASSUME NEW p \in Procs, TrySend(p)
      PROVE  HandleTypes'
  <2> USE DEF still, frames
  <2>1. CASE SkipTx(p) \/ LoadActive(p) \/ RecheckActive(p) \/ CheckFrame(p) \/ WriteFails(p)
    BY <2>1 DEF SkipTx, LoadActive, RecheckActive, CheckFrame, WriteFails
  <2>2. CASE PublishReader(p) \/ ClearReader(p) \/ MarkSent(p) \/ WriteWhole(p)
    BY <2>2 DEF PublishReader, ClearReader, MarkSent, WriteWhole
  <2>3. CASE ClaimTx(p) \/ ReleaseTx(p)
    BY <2>3 DEF ClaimTx, ReleaseTx
  <2> QED
    BY <1>4, <2>1, <2>2, <2>3 DEF TrySend
<1>5. ASSUME NEW h \in Handlers, LoadOwner(h) \/ CheckRunning(h)
      PROVE  HandleTypes'
    BY <1>5 DEF LoadOwner, CheckRunning, quiet, frames
<1>6. ASSUME NEW h \in Handlers, LeaveCallback(h) \/ \E t \in Timers : EnterCallback(h, t)
      PROVE  HandleTypes'
  <2>1. ASSUME NEW t \in Timers
        PROVE  in_callback'[t] \in 0..Cardinality(Handlers)
    <3>1. Cardinality({g \in Handlers : arg'[g] = t}) \in 0..Cardinality(Handlers)
      BY CountFacts, Zenon
    <3>2. in_callback'[t] = Cardinality({g \in Handlers : arg'[g] = t})
      BY Zenon DEF Handshake
    <3> QED
      BY <3>1, <3>2
  <2>2. DOMAIN in_callback' = Timers /\ in_callback' = [t \in Timers |-> in_callback'[t]]
    BY <1>6 DEF LeaveCallback, EnterCallback
  <2>3. in_callback' \in [Timers -> 0..Cardinality(Handlers)]
    BY <2>1, <2>2
  <2>4. UNCHANGED <<frames, running, handles, owner, python_timer, armed, uart, tx_busy>>
    BY <1>6 DEF LeaveCallback, EnterCallback, quiet
  <2>5. signal' \in [Timers -> BOOLEAN]
    BY <1>6 DEF LeaveCallback, EnterCallback, quiet
  <2> QED
    BY <2>3, <2>4, <2>5 DEF frames
<1>7. ASSUME NEW t \in Timers, Tick(t) \/ PythonTimer(t)
      PROVE  HandleTypes'
    BY <1>7, ZenonT(60) DEF Tick, PythonTimer, frames
<1>8. ASSUME NEW o \in Objs, CallStart(o)
      PROVE  HandleTypes'
  <2>1. ASSUME NEW u \in Uarts
        PROVE  users'[u] \in 0..Cardinality(Objs)
    <3>1. Cardinality({q \in Objs : uart_claimed'[q] /\ UartOf[q] = u}) \in 0..Cardinality(Objs)
      BY CountFacts, Zenon
    <3>2. users'[u] = Cardinality({q \in Objs : uart_claimed'[q] /\ UartOf[q] = u})
      BY Zenon DEF UsersExact
    <3> QED
      BY <3>1, <3>2
  <2>2. CASE AcquireUart(o, "failed")
    BY <1>8, <2>2 DEF CallStart, AcquireUart, data
  <2>3. CASE AcquireUart(o, "ok")
    <3>1. users' \in [Uarts -> 0..Cardinality(Objs)]
      BY <2>1, <2>3 DEF AcquireUart
    <3>2. tx_busy' \in [Uarts -> BOOLEAN] /\ uart_claimed' \in [Objs -> BOOLEAN]
      BY <2>3 DEF AcquireUart
    <3> QED
      BY <1>8, <3>1, <3>2 DEF CallStart, data
  <2> QED
    BY <1>8, <2>2, <2>3 DEF CallStart
<1>9. ASSUME NEW o \in Objs, CallStop(o) \/ CallDeinit(o)
      PROVE  HandleTypes'
    BY <1>9 DEF CallStop, CallDeinit, data
<1>10. CASE CallDeinitAll \/ Sweep
    BY <1>10 DEF CallDeinitAll, Sweep, data
<1>11. CASE ConfigureTimer \/ ArmTimer
    BY <1>11 DEF ConfigureTimer, ArmTimer, data
<1>12. CASE OwnSlot
    BY <1>12 DEF OwnSlot, data, OrNone, Places
<1>17. CASE RunTimer
    BY <1>17 DEF RunTimer, data, OrNone, Places
<1>13. CASE Halt \/ Silence \/ WaitForCallback
    BY <1>13 DEF Halt, Silence, WaitForCallback, data
<1>18. CASE Disown
    BY <1>18 DEF Disown, data, OrNone
<1>14. CASE Release
  <2>1. ASSUME NEW u \in Uarts
        PROVE  users'[u] \in 0..Cardinality(Objs)
    <3>1. Cardinality({q \in Objs : uart_claimed'[q] /\ UartOf[q] = u}) \in 0..Cardinality(Objs)
      BY CountFacts, Zenon
    <3>2. users'[u] = Cardinality({q \in Objs : uart_claimed'[q] /\ UartOf[q] = u})
      BY Zenon DEF UsersExact
    <3> QED
      BY <3>1, <3>2
  <2>2. users' \in [Uarts -> 0..Cardinality(Objs)] /\ tx_busy' \in [Uarts -> BOOLEAN]
    BY <1>14, <2>1 DEF Release, ReleaseUart
  <2>3. /\ timer' \in [Objs -> BOOLEAN] /\ timer_claimed' \in [Objs -> BOOLEAN]
        /\ uart_claimed' \in [Objs -> BOOLEAN] /\ slot' \in [Objs -> BOOLEAN]
    BY <1>14 DEF Release
  <2>4. native_claimed' \in [Timers -> BOOLEAN] /\ active_obj' \in [Timers -> OrNone(Objs)]
    BY <1>14 DEF Release, OrNone
  <2> QED
    BY <1>14, <2>2, <2>3, <2>4 DEF Release, data
<1>15. CASE FreeBuffers
    BY <1>15 DEF FreeBuffers, data
<1>16. CASE UNCHANGED vars
    BY <1>16 DEF vars, frames
<1> HIDE DEF TypeOK, LocalTypes, HandleTypes, handles, uart, hardware
<1> QED
    BY <1>1, <1>2, <1>3, <1>4, <1>5, <1>6, <1>7, <1>8, <1>9, <1>10, <1>11, <1>12, <1>13, <1>14, <1>15, <1>16, <1>17, <1>18,
       StepCases, Zenon

-----------------------------------------------------------------------------
(* Every step keeps the processes at their places,                         *)
LEMMA PlacesStep ==
    ASSUME TypeOK, Places, Slots, [Next]_vars
    PROVE  Places'
<1> USE ProcFacts, BufferFacts DEF TypeOK, LocalTypes, Places, HandlerPcs, Published, Sending, Reading, Teardown, Goto,
                                  locals, uart
<1>1. ASSUME NEW o \in Objs, NEW len \in {0, 1}, NEW now \in BOOLEAN, CallUpdate(o, len, now)
      PROVE  Places'
    BY <1>1 DEF CallUpdate, Begin, NoCall, elsewhere
<1>2. CASE ChooseBuffer
    BY <1>2 DEF ChooseBuffer, elsewhere, Calls
<1>3. CASE FinishCopy \/ Activate
    BY <1>3 DEF FinishCopy, Activate, elsewhere
<1>4. CASE AlreadySent(Script)
    BY <1>4 DEF AlreadySent, still
<1>5. CASE Return
    BY <1>5 DEF Return, NoCall
<1>6. ASSUME NEW p \in Procs, TrySend(p)
      PROVE  Places'
  <2> USE DEF still
  <2>1. CASE ClaimTx(p)
    BY <2>1 DEF ClaimTx
  <2>2. CASE SkipTx(p)
    BY <2>2 DEF SkipTx, ReturnPoint
  <2>3. CASE LoadActive(p)
    BY <2>3 DEF LoadActive, FrameTypes
  <2>4. CASE PublishReader(p)
    BY <2>4 DEF PublishReader
  <2>5. CASE RecheckActive(p)
    BY <2>5 DEF RecheckActive
  <2>6. CASE CheckFrame(p)
    BY <2>6, SMTT(30) DEF CheckFrame
  <2>7. CASE WriteWhole(p) \/ WriteFails(p)
    BY <2>7 DEF WriteWhole, WriteFails
  <2>8. CASE MarkSent(p) \/ ClearReader(p)
    BY <2>8 DEF MarkSent, ClearReader
  <2>9. CASE ReleaseTx(p)
    BY <2>9 DEF ReleaseTx, ReturnPoint
  <2> QED
    BY <1>6, <2>1, <2>2, <2>3, <2>4, <2>5, <2>6, <2>7, <2>8, <2>9 DEF TrySend
<1>7. ASSUME NEW h \in Handlers, LoadOwner(h)
      PROVE  Places'
    BY <1>7 DEF LoadOwner, quiet, HandleTypes, OrNone, Slots
<1>8. ASSUME NEW h \in Handlers, CheckRunning(h)
      PROVE  Places'
    BY <1>8 DEF CheckRunning, quiet
<1>9. ASSUME NEW h \in Handlers, LeaveCallback(h)
      PROVE  Places'
    BY <1>9 DEF LeaveCallback
<1>10. ASSUME NEW h \in Handlers, NEW t \in Timers, EnterCallback(h, t)
      PROVE  Places'
    BY <1>10 DEF EnterCallback, quiet
<1>11. ASSUME NEW t \in Timers, Tick(t) \/ PythonTimer(t)
      PROVE  Places'
    BY <1>11 DEF Tick, PythonTimer
<1>12. ASSUME NEW o \in Objs, CallStart(o)
      PROVE  Places'
  <2>1. DOMAIN config' = Uarts
    BY <1>12 DEF CallStart, AcquireUart
  <2>2. pc' \in {[pc EXCEPT ![Script] = "configure"], [pc EXCEPT ![Script] = "disown"]}
    BY <1>12 DEF CallStart, Begin
  <2>3. self' = [self EXCEPT ![Script] = o] /\ call' = NoCall /\ UNCHANGED <<arg, attempt, index>>
    BY <1>12 DEF CallStart, Begin, data
  <2> QED
    BY <2>1, <2>2, <2>3 DEF NoCall
<1>13. ASSUME NEW o \in Objs, CallStop(o) \/ CallDeinit(o)
      PROVE  Places'
    BY <1>13 DEF CallStop, CallDeinit, Begin, NoCall, data
<1>14. CASE CallDeinitAll
    BY <1>14 DEF CallDeinitAll, Begin, NoCall, data
<1>15. CASE Sweep
    BY <1>15 DEF Sweep, data, HandleTypes, OrNone, Calls
<1>16. CASE ConfigureTimer \/ OwnSlot \/ RunTimer \/ ArmTimer
    BY <1>16 DEF ConfigureTimer, OwnSlot, RunTimer, ArmTimer, data
<1>17. CASE Disown \/ Halt \/ Silence \/ WaitForCallback
    BY <1>17 DEF Disown, Halt, Silence, WaitForCallback, data
<1>18. CASE Release
    BY <1>18 DEF Release, ReleaseUart, data
<1>19. CASE FreeBuffers
    BY <1>19 DEF FreeBuffers, data
<1>20. CASE UNCHANGED vars
    BY <1>20 DEF vars
<1> HIDE DEF TypeOK, LocalTypes, Places, HandlerPcs, Published, Sending, Reading, Teardown, Goto, locals, uart
<1> QED
    BY <1>1, <1>2, <1>3, <1>4, <1>5, <1>6, <1>7, <1>8, <1>9, <1>10, <1>11, <1>12, <1>13, <1>14, <1>15, <1>16, <1>17, <1>18,
       <1>19, <1>20, StepCases, Zenon

-----------------------------------------------------------------------------
(* The steps of update(), try_send and the handlers, which leave every     *)
(* reservation alone, and those of start() and stop().                     *)
Calm == {"idle", "choose", "copy", "activate", "return", "already", "try", "skip"} \cup Sending

Aside ==
    /\ UNCHANGED <<handles, owner, armed, buffers, python_timer, uart>>
    /\ \/ pc'[Script] = pc[Script] /\ self'[Script] = self[Script] /\ UNCHANGED call
       \/ pc[Script] \in Calm /\ pc'[Script] \in Calm /\ ~call'.all

LEMMA AsideCases ==
    ASSUME TypeOK, Places, [Next]_vars
    PROVE  \/ Aside
           \/ \E t \in Timers : PythonTimer(t)
           \/ \E o \in Objs : CallStart(o) \/ CallStop(o) \/ CallDeinit(o)
           \/ CallDeinitAll \/ Sweep
           \/ ConfigureTimer \/ OwnSlot \/ RunTimer \/ ArmTimer
           \/ Disown \/ Halt \/ Silence \/ WaitForCallback \/ Release \/ FreeBuffers
<1> USE ProcFacts DEF Aside, Calm, Sending, Goto, frames, hardware
<1>t. pc \in [Procs -> Pcs] /\ self \in [Procs -> OrNone(Objs)] /\ call \in Calls
    BY DEF TypeOK, LocalTypes
<1>c. call.all => pc[Script] \in {"sweep", "free", "return"} \cup Teardown
    BY DEF Places
<1>1. ASSUME NEW o \in Objs, NEW len \in {0, 1}, NEW now \in BOOLEAN, CallUpdate(o, len, now)
      PROVE  Aside
    BY <1>t, <1>1 DEF CallUpdate, Begin, NoCall, elsewhere
<1>2. CASE ChooseBuffer
    BY <1>t, <1>c, <1>2 DEF ChooseBuffer, elsewhere, Calls, Teardown
<1>3. CASE FinishCopy
    BY <1>t, <1>c, <1>3 DEF FinishCopy, elsewhere, Teardown
<1>4. CASE Activate
    BY <1>t, <1>c, <1>4 DEF Activate, elsewhere, Teardown
<1>5. CASE AlreadySent(Script)
    BY <1>t, <1>c, <1>5 DEF AlreadySent, still, Teardown
<1>6. CASE Return
    BY <1>t, <1>6 DEF Return, NoCall
<1>7. ASSUME NEW p \in Procs, TrySend(p)
      PROVE  Aside
  <2>1. pc[p] \in {"try", "skip"} \cup Sending
    BY <1>7 DEF TrySend, ClaimTx, SkipTx, LoadActive, PublishReader, RecheckActive, CheckFrame, WriteWhole,
                WriteFails, MarkSent, ClearReader, ReleaseTx
  <2>2. UNCHANGED still
    BY <1>7, Zenon DEF TrySend, ClaimTx, SkipTx, LoadActive, PublishReader, RecheckActive, CheckFrame, WriteWhole,
                WriteFails, MarkSent, ClearReader, ReleaseTx
  <2>3. \A q \in Procs : q # p => pc'[q] = pc[q]
    BY <1>t, <1>7 DEF TrySend, ClaimTx, SkipTx, LoadActive, PublishReader, RecheckActive, CheckFrame, WriteWhole,
                WriteFails, MarkSent, ClearReader, ReleaseTx
  <2>4. p = Script => pc'[p] \in Calm
    BY <1>t, <1>7 DEF TrySend, ClaimTx, SkipTx, LoadActive, PublishReader, RecheckActive, CheckFrame, WriteWhole,
                WriteFails, MarkSent, ClearReader, ReleaseTx, ReturnPoint
  <2>5. p = Script => ~call.all
    BY <2>1, <1>c DEF Teardown
  <2> QED
    BY <2>1, <2>2, <2>3, <2>4, <2>5 DEF still
<1>8. ASSUME NEW h \in Handlers, LoadOwner(h) \/ CheckRunning(h)
      PROVE  Aside
    BY <1>t, <1>8 DEF LoadOwner, CheckRunning, quiet
<1>9. ASSUME NEW h \in Handlers, LeaveCallback(h)
      PROVE  Aside
    BY <1>t, <1>9 DEF LeaveCallback
<1>10. ASSUME NEW h \in Handlers, NEW t \in Timers, EnterCallback(h, t)
      PROVE  Aside
    BY <1>t, <1>10 DEF EnterCallback, quiet
<1>11. ASSUME NEW t \in Timers, Tick(t)
      PROVE  Aside
    BY <1>11 DEF Tick, locals
<1>12. CASE UNCHANGED vars
    BY <1>12 DEF vars, locals
<1> HIDE DEF Aside, Calm, Sending, Goto, frames, hardware
<1> QED
    BY <1>1, <1>2, <1>3, <1>4, <1>5, <1>6, <1>7, <1>8, <1>9, <1>10, <1>11, <1>12, StepCases, Zenon

(* Every step keeps the claims,                                            *)
LEMMA ClaimsStep ==
    ASSUME TypeOK, Places, Claims, Slots, [Next]_vars
    PROVE  Claims'
<1> USE ProcFacts DEF TypeOK, LocalTypes, HandleTypes, OrNone, Places, Claims, Slots, Teardown, Goto, handles
<1>1. CASE Aside
    BY <1>1 DEF Aside, Calm, Sending
<1>2. ASSUME NEW t \in Timers, PythonTimer(t)
      PROVE  Claims'
    BY <1>2 DEF PythonTimer, locals, frames
<1>3. ASSUME NEW o \in Objs, CallStart(o)
      PROVE  Claims'
  <2>1. ~timer_claimed[o] /\ \A q \in Objs : timer_claimed[q] => TimerOf[q] # TimerOf[o]
    BY <1>3 DEF CallStart
  <2>2. /\ timer_claimed' = [timer_claimed EXCEPT ![o] = TRUE]
        /\ native_claimed' = [native_claimed EXCEPT ![TimerOf[o]] = TRUE]
        /\ ~python_timer[TimerOf[o]] /\ buffers[o]
        /\ UNCHANGED <<buffers, timer, slot, active_obj, python_timer>>
    BY <1>3 DEF CallStart, data
  <2>3. /\ self'[Script] = o
        /\ \/ pc'[Script] = "configure" /\ uart_claimed' = [uart_claimed EXCEPT ![o] = TRUE]
           \/ pc'[Script] = "disown" /\ UNCHANGED uart_claimed
    BY <1>3 DEF CallStart, AcquireUart, Begin
  <2> QED
    BY <1>3, <2>1, <2>2, <2>3 DEF CallStart, Begin
<1>4. ASSUME NEW o \in Objs, CallStop(o) \/ CallDeinit(o)
      PROVE  Claims'
    BY <1>4 DEF CallStop, CallDeinit, Begin, data
<1>5. CASE CallDeinitAll
    BY <1>5 DEF CallDeinitAll, Begin, data
<1>6. CASE Sweep
    BY <1>6 DEF Sweep, data
<1>7. CASE ConfigureTimer
    BY <1>7 DEF ConfigureTimer, data
<1>8. CASE OwnSlot
    BY <1>8 DEF OwnSlot, data
<1>9. CASE RunTimer
    BY <1>9 DEF RunTimer, data
<1>10. CASE ArmTimer
    BY <1>10 DEF ArmTimer, data
<1>11. CASE Disown
    BY <1>11 DEF Disown, data
<1>12. CASE Halt
    BY <1>12 DEF Halt, data
<1>13. CASE Silence \/ WaitForCallback
    BY <1>13 DEF Silence, WaitForCallback, data
<1>14. CASE Release
    BY <1>14 DEF Release, data
<1>15. CASE FreeBuffers
    BY <1>15 DEF FreeBuffers, data
<1> HIDE DEF TypeOK, LocalTypes, HandleTypes, OrNone, Places, Claims, Slots, Teardown, Goto, handles
<1> QED
    BY <1>1, <1>2, <1>3, <1>4, <1>5, <1>6, <1>7, <1>8, <1>9, <1>10, <1>11, <1>12, <1>13, <1>14, <1>15, AsideCases, Zenon

(* the slots,                                                              *)
LEMMA SlotsStep ==
    ASSUME TypeOK, Places, Claims, Slots, [Next]_vars
    PROVE  Slots'
<1> USE ProcFacts DEF TypeOK, LocalTypes, HandleTypes, OrNone, Places, Claims, Slots, Teardown, Goto, handles
<1>1. CASE Aside
    BY <1>1 DEF Aside, Calm, Sending
<1>2. ASSUME NEW t \in Timers, PythonTimer(t)
      PROVE  Slots'
    BY <1>2 DEF PythonTimer, locals, frames, hardware
<1>3. ASSUME NEW o \in Objs, CallStart(o)
      PROVE  Slots'
    BY <1>3 DEF CallStart, Begin, data
<1>4. ASSUME NEW o \in Objs, CallStop(o) \/ CallDeinit(o)
      PROVE  Slots'
    BY <1>4 DEF CallStop, CallDeinit, Begin, data
<1>5. CASE CallDeinitAll
    BY <1>5 DEF CallDeinitAll, Begin, data
<1>6. CASE Sweep
    BY <1>6 DEF Sweep, data
<1>7. CASE ConfigureTimer
    BY <1>7 DEF ConfigureTimer, data
<1>8. CASE OwnSlot
    BY <1>8 DEF OwnSlot, data
<1>9. CASE RunTimer
    BY <1>9 DEF RunTimer, data
<1>10. CASE ArmTimer
    BY <1>10 DEF ArmTimer, data
<1>11. CASE Disown
    BY <1>11 DEF Disown, data
<1>12. CASE Halt
    BY <1>12 DEF Halt, data
<1>13. CASE Silence
    BY <1>13 DEF Silence, data
<1>16. CASE WaitForCallback
    BY <1>16 DEF WaitForCallback, data
<1>14. CASE Release
    BY <1>14, SMTT(60) DEF Release, data
<1>15. CASE FreeBuffers
    BY <1>15 DEF FreeBuffers, data
<1> HIDE DEF TypeOK, LocalTypes, HandleTypes, OrNone, Places, Claims, Slots, Teardown, Goto, handles
<1> QED
    BY <1>1, <1>2, <1>3, <1>4, <1>5, <1>6, <1>7, <1>8, <1>9, <1>10, <1>11, <1>12, <1>13, <1>14, <1>15, <1>16,
       AsideCases, Zenon

(* what the sweep has done,                                                *)
LEMMA SweptStep ==
    ASSUME TypeOK, Places, Claims, Slots, Swept, [Next]_vars
    PROVE  Swept'
<1> USE ProcFacts DEF TypeOK, LocalTypes, HandleTypes, OrNone, Places, Claims, Slots, Swept, Calls, Teardown, Goto, handles
<1>1. CASE Aside
    BY <1>1 DEF Aside, Calm, Sending
<1>2. ASSUME NEW t \in Timers, PythonTimer(t)
      PROVE  Swept'
    BY <1>2 DEF PythonTimer, locals, frames, hardware
<1>3. ASSUME NEW o \in Objs, CallStart(o)
      PROVE  Swept'
    BY <1>3 DEF CallStart, Begin, NoCall, data
<1>4. ASSUME NEW o \in Objs, CallStop(o) \/ CallDeinit(o)
      PROVE  Swept'
    BY <1>4 DEF CallStop, CallDeinit, Begin, NoCall, data
<1>5. CASE CallDeinitAll
    BY <1>5 DEF CallDeinitAll, Begin, NoCall, data
<1>6. CASE Sweep
    BY <1>6, SMTT(30) DEF Sweep, data
<1>7. CASE ConfigureTimer
    BY <1>7 DEF ConfigureTimer, data
<1>8. CASE OwnSlot
    BY <1>8 DEF OwnSlot, data
<1>9. CASE RunTimer
    BY <1>9 DEF RunTimer, data
<1>10. CASE ArmTimer
    BY <1>10 DEF ArmTimer, data
<1>11. CASE Disown
    BY <1>11 DEF Disown, data
<1>12. CASE Halt
    BY <1>12 DEF Halt, data
<1>13. CASE Silence \/ WaitForCallback
    BY <1>13 DEF Silence, WaitForCallback, data
<1>14. CASE Release
    BY <1>14 DEF Release, data
<1>15. CASE FreeBuffers
    BY <1>15 DEF FreeBuffers, data
<1> HIDE DEF TypeOK, LocalTypes, HandleTypes, OrNone, Places, Claims, Slots, Swept, Calls, Teardown, Goto, handles
<1> QED
    BY <1>1, <1>2, <1>3, <1>4, <1>5, <1>6, <1>7, <1>8, <1>9, <1>10, <1>11, <1>12, <1>13, <1>14, <1>15, AsideCases, Zenon

(* the count of the activations of a slot,                                 *)
LEMMA CountStep ==
    ASSUME TypeOK, Places, Handshake, [Next]_vars, NEW t \in Timers
    PROVE  in_callback'[t] = Cardinality({h \in Handlers : arg'[h] = t})
<1> DEFINE In == {h \in Handlers : arg[h] = t}
<1> USE ProcFacts
<1>a. arg \in [Handlers -> OrNone(Timers)] /\ in_callback \in [Timers -> 0..Cardinality(Handlers)]
    BY DEF TypeOK, LocalTypes, HandleTypes
<1>b. in_callback[t] = Cardinality(In) /\ IsFiniteSet(In)
    BY CountFacts, Zenon DEF Handshake
<1>1. ASSUME NEW h \in Handlers, NEW s \in Timers, EnterCallback(h, s)
      PROVE  in_callback'[t] = Cardinality({g \in Handlers : arg'[g] = t})
  <2>1. arg[h] = None
    BY <1>1 DEF EnterCallback, Places
  <2>2. /\ arg' = [arg EXCEPT ![h] = s]
        /\ in_callback' = [in_callback EXCEPT ![s] = @ + 1]
    BY <1>1 DEF EnterCallback
  <2>3. CASE s = t
    <3>1. {g \in Handlers : arg'[g] = t} = In \cup {h}
      BY <2>2, <2>3, <1>a
    <3>2. h \notin In
      BY <2>1
    <3>3. Cardinality(In \cup {h}) = Cardinality(In) + 1
      BY <1>b, <3>2, FS_AddElement, Zenon
    <3> QED
      BY <2>2, <2>3, <3>1, <3>3, <1>a, <1>b
  <2>4. CASE s # t
    <3>1. {g \in Handlers : arg'[g] = t} = In
      BY <2>1, <2>2, <2>4, <1>a
    <3> QED
      BY <2>2, <2>4, <3>1, <1>a, <1>b
  <2> QED
    BY <2>3, <2>4
<1>2. ASSUME NEW h \in Handlers, LeaveCallback(h)
      PROVE  in_callback'[t] = Cardinality({g \in Handlers : arg'[g] = t})
  <2>1. arg[h] \in Timers
    BY <1>2, <1>a DEF LeaveCallback, Places, OrNone
  <2>2. /\ arg' = [arg EXCEPT ![h] = None]
        /\ in_callback' = [in_callback EXCEPT ![arg[h]] = @ - 1]
    BY <1>2 DEF LeaveCallback
  <2>3. CASE arg[h] = t
    <3>1. {g \in Handlers : arg'[g] = t} = In \ {h}
      BY <2>2, <2>3, <1>a
    <3>2. h \in In
      BY <2>3
    <3>3. Cardinality(In \ {h}) = Cardinality(In) - 1
      BY <1>b, <3>2, FS_RemoveElement, Zenon
    <3> QED
      BY <2>2, <2>3, <3>1, <3>3, <1>a, <1>b
  <2>4. CASE arg[h] # t
    <3>1. {g \in Handlers : arg'[g] = t} = In
      BY <2>1, <2>2, <2>4, <1>a
    <3> QED
      BY <2>1, <2>2, <2>4, <3>1, <1>a, <1>b
  <2> QED
    BY <2>3, <2>4
<1>3. CASE UNCHANGED <<arg, in_callback>>
    BY <1>3, <1>b
<1>4. \/ UNCHANGED <<arg, in_callback>>
      \/ \E h \in Handlers : LeaveCallback(h)
      \/ \E h \in Handlers, s \in Timers : EnterCallback(h, s)
  <2>1. ASSUME NEW o \in Objs, NEW len \in {0, 1}, NEW now \in BOOLEAN, CallUpdate(o, len, now)
        PROVE  UNCHANGED <<arg, in_callback>>
    BY <2>1 DEF CallUpdate, elsewhere
  <2>2. CASE ChooseBuffer \/ FinishCopy \/ Activate \/ AlreadySent(Script) \/ Return
    BY <2>2 DEF ChooseBuffer, FinishCopy, Activate, AlreadySent, Return, elsewhere, still
  <2>3. ASSUME NEW p \in Procs, TrySend(p)
        PROVE  UNCHANGED <<arg, in_callback>>
    BY <2>3, Zenon DEF TrySend, ClaimTx, SkipTx, LoadActive, PublishReader, RecheckActive, CheckFrame, WriteWhole,
                       WriteFails, MarkSent, ClearReader, ReleaseTx, still
  <2>4. ASSUME NEW h \in Handlers, LoadOwner(h) \/ CheckRunning(h)
        PROVE  UNCHANGED <<arg, in_callback>>
    BY <2>4 DEF LoadOwner, CheckRunning
  <2>5. ASSUME NEW s \in Timers, Tick(s) \/ PythonTimer(s)
        PROVE  UNCHANGED <<arg, in_callback>>
    BY <2>5 DEF Tick, PythonTimer, locals
  <2>6. ASSUME NEW o \in Objs, CallStart(o) \/ CallStop(o) \/ CallDeinit(o)
        PROVE  UNCHANGED <<arg, in_callback>>
    BY <2>6 DEF CallStart, CallStop, CallDeinit, data
  <2>7. CASE CallDeinitAll \/ Sweep \/ ConfigureTimer \/ OwnSlot \/ RunTimer \/ ArmTimer
    BY <2>7 DEF CallDeinitAll, Sweep, ConfigureTimer, OwnSlot, RunTimer, ArmTimer, data
  <2>8. CASE Disown \/ Halt \/ Silence \/ WaitForCallback \/ Release \/ FreeBuffers
    BY <2>8 DEF Disown, Halt, Silence, WaitForCallback, Release, FreeBuffers, data
  <2>9. CASE UNCHANGED vars
    BY <2>9 DEF vars, locals
  <2> QED
    BY <2>1, <2>2, <2>3, <2>4, <2>5, <2>6, <2>7, <2>8, <2>9, StepCases, Zenon
<1> QED
    BY <1>1, <1>2, <1>3, <1>4

(* the handshake,                                                          *)
LEMMA HandshakeStep ==
    ASSUME TypeOK, Places, Claims, Slots, Handshake, [Next]_vars
    PROVE  Handshake'
<1> DEFINE Held ==
        /\ \A h \in Handlers : self'[h] # None => slot'[self'[h]]
        /\ pc'[Script] = "release" => \A h \in Handlers : self'[h] # self'[Script]
<1> SUFFICES Held
    BY CountStep, Zenon DEF Handshake
<1> USE ProcFacts
<1>t. TypeOK /\ Places
    OBVIOUS
<1>h. /\ \A h \in Handlers : self[h] # None => slot[self[h]]
      /\ pc[Script] = "release" => \A h \in Handlers : self[h] # self[Script]
    BY DEF Handshake
<1> USE DEF TypeOK, LocalTypes, HandleTypes, OrNone, Places, Goto, handles
<1>1. ASSUME NEW o \in Objs, NEW len \in {0, 1}, NEW now \in BOOLEAN, CallUpdate(o, len, now)
      PROVE  Held
    BY <1>h, <1>1 DEF CallUpdate, Begin, elsewhere
<1>2. CASE ChooseBuffer \/ FinishCopy \/ Activate
    BY <1>h, <1>2 DEF ChooseBuffer, FinishCopy, Activate, elsewhere
<1>3. CASE AlreadySent(Script)
    BY <1>h, <1>3 DEF AlreadySent, still
<1>4. CASE Return
    BY <1>h, <1>4 DEF Return
<1>5. ASSUME NEW p \in Procs, TrySend(p)
      PROVE  Held
  <2>1. UNCHANGED still
    BY <1>5, Zenon DEF TrySend, ClaimTx, SkipTx, LoadActive, PublishReader, RecheckActive, CheckFrame, WriteWhole,
                       WriteFails, MarkSent, ClearReader, ReleaseTx
  <2>2. \E there : Goto(p, there) /\ there # "release"
    BY <1>5 DEF TrySend, ClaimTx, SkipTx, LoadActive, PublishReader, RecheckActive, CheckFrame, WriteWhole,
                WriteFails, MarkSent, ClearReader, ReleaseTx, ReturnPoint
  <2> QED
    BY <1>h, <2>1, <2>2 DEF still
<1>6. ASSUME NEW h \in Handlers, LoadOwner(h)
      PROVE  Held
  <2>1. pc'[Script] = pc[Script] /\ self'[Script] = self[Script] /\ UNCHANGED slot
    BY <1>6 DEF LoadOwner, quiet
  <2>2. self' = [self EXCEPT ![h] = owner[arg[h]]] /\ arg[h] \in Timers
    BY <1>6 DEF LoadOwner
  <2>3. owner[arg[h]] # None => slot[owner[arg[h]]] /\ TimerOf[owner[arg[h]]] = arg[h]
    BY <2>2 DEF Slots
  <2>4. pc[Script] = "release" => owner[arg[h]] # self[Script]
    BY <2>2, <2>3 DEF Slots, Teardown
  <2> QED
    BY <1>h, <2>1, <2>2, <2>3, <2>4
<1>7. ASSUME NEW h \in Handlers, CheckRunning(h) \/ LeaveCallback(h) \/ \E t \in Timers : EnterCallback(h, t)
      PROVE  Held
    BY <1>h, <1>7 DEF CheckRunning, LeaveCallback, EnterCallback, quiet
<1>8. ASSUME NEW t \in Timers, Tick(t) \/ PythonTimer(t)
      PROVE  Held
    BY <1>h, <1>8 DEF Tick, PythonTimer, locals
<1>9. ASSUME NEW o \in Objs, CallStart(o) \/ CallStop(o) \/ CallDeinit(o)
      PROVE  Held
    BY <1>h, <1>9 DEF CallStart, CallStop, CallDeinit, Begin, data
<1>10. CASE CallDeinitAll
    BY <1>h, <1>10 DEF CallDeinitAll, Begin, data
<1>11. CASE Sweep
    BY <1>h, <1>11 DEF Sweep, data
<1>12. CASE ConfigureTimer \/ OwnSlot \/ RunTimer \/ ArmTimer
    <2>1. CASE ConfigureTimer
      BY <1>h, <2>1 DEF ConfigureTimer, data
    <2>2. CASE OwnSlot
      BY <1>h, <2>2 DEF OwnSlot, data
    <2>3. CASE RunTimer
      BY <1>h, <2>3 DEF RunTimer, data
    <2>4. CASE ArmTimer
      BY <1>h, <2>4 DEF ArmTimer, data
    <2> QED
      BY <1>12, <2>1, <2>2, <2>3, <2>4
<1>13. CASE Disown \/ FreeBuffers
    BY <1>h, <1>13 DEF Disown, FreeBuffers, data
<1>14. CASE Halt
    BY <1>h, <1>14 DEF Halt, data, Claims, Teardown
<1>15. CASE Silence
    BY <1>h, <1>15 DEF Silence, data, Teardown
<1>16. CASE WaitForCallback
  <2>1. self[Script] \in Objs /\ in_callback[TimerOf[self[Script]]] = 0
    BY <1>16 DEF WaitForCallback, Teardown
  <2>2. ASSUME NEW h \in Handlers
        PROVE  arg[h] # TimerOf[self[Script]]
    <3> DEFINE In == {g \in Handlers : arg[g] = TimerOf[self[Script]]}
    <3>1. TimerOf[self[Script]] \in Timers
      BY <2>1
    <3>2. Cardinality(In) = 0 /\ IsFiniteSet(In)
      BY <2>1, <3>1, CountFacts, Zenon DEF Handshake
    <3>3. In = {}
      BY <3>2, FS_EmptySet, Zenon
    <3> QED
      BY <3>3
  <2> QED
    BY <1>h, <1>16, <2>1, <2>2 DEF WaitForCallback, data
<1>17. CASE Release
    BY <1>h, <1>17 DEF Release, data
<1>18. CASE UNCHANGED vars
    BY <1>h, <1>18 DEF vars, locals
<1> HIDE DEF TypeOK, LocalTypes, HandleTypes, OrNone, Places, Goto, handles, Held
<1> QED
    BY <1>1, <1>2, <1>3, <1>4, <1>5, <1>6, <1>7, <1>8, <1>9, <1>10, <1>11, <1>12, <1>13, <1>14, <1>15, <1>16, <1>17, <1>18,
       StepCases, Zenon

(* A UART with a claim has a user, and with one user, one claim.           *)
LEMMA UserFacts ==
    ASSUME TypeOK, UsersExact, NEW o \in Objs, uart_claimed[o]
    PROVE  /\ users[UartOf[o]] > 0
           /\ users[UartOf[o]] = 1 => \A q \in Objs : uart_claimed[q] /\ UartOf[q] = UartOf[o] => q = o
<1> DEFINE claims == {q \in Objs : uart_claimed[q] /\ UartOf[q] = UartOf[o]}
<1>1. UartOf[o] \in Uarts
    BY ProcFacts
<1>2. users[UartOf[o]] = Cardinality(claims)
    BY <1>1, Zenon DEF UsersExact
<1>3. IsFiniteSet(claims) /\ Cardinality(claims) \in Nat
    BY CountFacts, FS_CardinalityType, Zenon
<1>4. o \in claims
    OBVIOUS
<1>5. Cardinality(claims) # 0
    BY <1>3, <1>4, FS_EmptySet, Zenon
<1>6. Cardinality(claims) = 1 => \E x : claims = {x}
    BY <1>3, FS_Singleton, Zenon
<1>7. Cardinality(claims) > 0
    BY <1>3, <1>5
<1> HIDE DEF claims
<1>8. Cardinality(claims) = 1 => \A q \in claims : q = o
    BY <1>4, <1>6
<1>9. \A q \in Objs : uart_claimed[q] /\ UartOf[q] = UartOf[o] => q \in claims
    BY DEF claims
<1> QED
    BY <1>2, <1>7, <1>8, <1>9

(* the users of the UARTs,                                                 *)
LEMMA UsersStep ==
    ASSUME TypeOK, Places, Claims, UsersExact, [Next]_vars
    PROVE  UsersExact'
<1> USE ProcFacts
<1>a. /\ uart_claimed \in [Objs -> BOOLEAN] /\ users \in [Uarts -> 0..Cardinality(Objs)] /\ DOMAIN config = Uarts
      /\ Cardinality(Objs) \in Nat
    BY CountFacts, FS_CardinalityType DEF TypeOK, HandleTypes, Places
<1> SUFFICES ASSUME NEW u \in Uarts
             PROVE  /\ users'[u] = Cardinality({q \in Objs : uart_claimed'[q] /\ UartOf[q] = u})
                    /\ \A q \in Objs : uart_claimed'[q] /\ UartOf[q] = u => config'[u] = ConfigOf[q]
    BY Zenon DEF UsersExact
<1> DEFINE claims == {q \in Objs : uart_claimed[q] /\ UartOf[q] = u}
           Exact == /\ users'[u] = Cardinality({q \in Objs : uart_claimed'[q] /\ UartOf[q] = u})
                    /\ \A q \in Objs : uart_claimed'[q] /\ UartOf[q] = u => config'[u] = ConfigOf[q]
<1>b. /\ users[u] = Cardinality(claims) /\ IsFiniteSet(claims) /\ Cardinality(claims) \in Nat
      /\ \A q \in Objs : uart_claimed[q] /\ UartOf[q] = u => config[u] = ConfigOf[q]
  <2>1. users[u] = Cardinality(claims) /\ \A q \in claims : config[u] = ConfigOf[q]
    BY Zenon DEF UsersExact
  <2>2. IsFiniteSet(claims) /\ Cardinality(claims) \in Nat
    BY CountFacts, FS_CardinalityType, Zenon
  <2> QED
    BY <2>1, <2>2
<1>1. CASE UNCHANGED <<uart_claimed, uart>>
    BY <1>1, <1>b DEF uart
<1>2. ASSUME NEW o \in Objs, CallStart(o)
      PROVE  Exact
  <2>1. CASE AcquireUart(o, "failed")
    BY <2>1, <1>b DEF AcquireUart, uart
  <2>2. CASE AcquireUart(o, "ok") /\ UartOf[o] = u /\ ~uart_claimed[o]
    <3>1. {q \in Objs : uart_claimed'[q] /\ UartOf[q] = u} = claims \cup {o}
      BY <2>2, <1>a DEF AcquireUart
    <3>2. Cardinality(claims \cup {o}) = Cardinality(claims) + 1
      BY <1>b, <2>2, FS_AddElement, Zenon
    <3>3. users'[u] = users[u] + 1 /\ config'[u] = ConfigOf[o]
      BY <2>2, <1>a DEF AcquireUart
    <3>4. ASSUME NEW q \in Objs, uart_claimed'[q], UartOf[q] = u, q # o
          PROVE  ConfigOf[q] = ConfigOf[o]
      <4>1. q \in claims
        BY <3>4, <2>2, <1>a DEF AcquireUart
      <4>2. Cardinality(claims) # 0
        BY <4>1, <1>b, FS_EmptySet, Zenon
      <4> QED
        BY <2>2, <1>b, <4>1, <4>2 DEF AcquireUart
    <3> QED
      BY <3>1, <3>2, <3>3, <3>4, <1>b
  <2>3. CASE AcquireUart(o, "ok") /\ UartOf[o] # u
    <3>1. {q \in Objs : uart_claimed'[q] /\ UartOf[q] = u} = claims
      BY <2>3, <1>a DEF AcquireUart
    <3> QED
      BY <2>3, <3>1, <1>a, <1>b, ZenonT(60) DEF AcquireUart
  <2>4. ~uart_claimed[o]
    BY <1>2 DEF CallStart, Claims
  <2> QED
    BY <1>2, <2>1, <2>2, <2>3, <2>4 DEF CallStart
<1>3. CASE Release
  <2> DEFINE o == self[Script]
  <2>0. o \in Objs
    BY <1>3 DEF Release, Places
  <2>4. uart_claimed' = [uart_claimed EXCEPT ![o] = FALSE] /\ ReleaseUart(o)
    BY <1>3 DEF Release
  <2> HIDE DEF o
  <2>1. CASE ~uart_claimed[o]
    <3>1. {q \in Objs : uart_claimed'[q] /\ UartOf[q] = u} = claims
      BY <2>4, <2>0, <2>1, <1>a
    <3> QED
      BY <2>4, <2>1, <3>1, <1>a, <1>b DEF ReleaseUart, uart
  <2>2. CASE uart_claimed[o] /\ UartOf[o] = u
    <3>1. {q \in Objs : uart_claimed'[q] /\ UartOf[q] = u} = claims \ {o}
      BY <2>4, <2>0, <2>2, <1>a
    <3>2. o \in claims
      BY <2>0, <2>2
    <3>3. Cardinality(claims \ {o}) = Cardinality(claims) - 1 /\ IsFiniteSet(claims \ {o})
      BY <1>b, <3>2, FS_RemoveElement, Zenon
    <3>4. Cardinality(claims) # 0
      BY <3>2, <1>b, FS_EmptySet, Zenon
    <3>5. Cardinality(claims \ {o}) = 0 => claims \ {o} = {}
      BY <3>3, FS_EmptySet, Zenon
    <3>6. users'[u] = users[u] - 1 /\ (users[u] = 1 \/ config'[u] = config[u])
      BY <2>4, <2>2, <1>a, <1>b, <3>4 DEF ReleaseUart
    <3> HIDE DEF claims
    <3>7. users'[u] = Cardinality({q \in Objs : uart_claimed'[q] /\ UartOf[q] = u})
      BY <3>1, <3>3, <3>6, <1>b
    <3>8. ASSUME NEW q \in Objs, uart_claimed'[q], UartOf[q] = u
          PROVE  config'[u] = ConfigOf[q]
      <4>1. q \in claims \ {o}
        BY <3>8, <3>1
      <4>2. users[u] # 1
        BY <3>3, <3>5, <4>1, <1>b
      <4>3. uart_claimed[q]
        BY <4>1 DEF claims
      <4> QED
        BY <3>6, <4>2, <4>3, <3>8, <1>b
    <3> QED
      BY <3>7, <3>8
  <2>3. CASE uart_claimed[o] /\ UartOf[o] # u
    <3>1. {q \in Objs : uart_claimed'[q] /\ UartOf[q] = u} = claims
      BY <2>4, <2>0, <2>3, <1>a
    <3> QED
      BY <2>4, <2>3, <3>1, <1>a, <1>b DEF ReleaseUart
  <2> QED
    BY <2>1, <2>2, <2>3
<1>4. CASE Aside
    BY <1>4, <1>1 DEF Aside, handles
<1>5. ASSUME NEW t \in Timers, PythonTimer(t)
      PROVE  Exact
    BY <1>5, <1>1 DEF PythonTimer, handles
<1>6. ASSUME NEW o \in Objs, CallStop(o) \/ CallDeinit(o)
      PROVE  Exact
    BY <1>6, <1>1 DEF CallStop, CallDeinit, handles
<1>7. CASE CallDeinitAll \/ Sweep \/ ConfigureTimer \/ OwnSlot \/ RunTimer \/ ArmTimer
    BY <1>7, <1>1 DEF CallDeinitAll, Sweep, ConfigureTimer, OwnSlot, RunTimer, ArmTimer, handles
<1>8. CASE Disown \/ Halt \/ Silence \/ WaitForCallback \/ FreeBuffers
    BY <1>8, <1>1 DEF Disown, Halt, Silence, WaitForCallback, FreeBuffers, handles
<1> QED
    BY <1>2, <1>3, <1>4, <1>5, <1>6, <1>7, <1>8, AsideCases

(* and one sender to a UART.                                               *)
LEMMA SendersStep ==
    ASSUME TypeOK, Places, Claims, Handshake, UsersExact, Senders, [Next]_vars
    PROVE  Senders'
<1> USE ProcFacts DEF Goto
<1>a. /\ pc \in [Procs -> Pcs] /\ self \in [Procs -> OrNone(Objs)]
      /\ tx_busy \in [Uarts -> BOOLEAN] /\ uart_claimed \in [Objs -> BOOLEAN]
      /\ users \in [Uarts -> 0..Cardinality(Objs)] /\ Cardinality(Objs) \in Nat
    BY CountFacts, FS_CardinalityType DEF TypeOK, LocalTypes, HandleTypes
<1>b. /\ \A p \in Procs : pc[p] \in Sending => self[p] \in Objs /\ uart_claimed[self[p]] /\ tx_busy[Uart(p)]
      /\ \A p, q \in Procs : p # q /\ pc[p] \in Sending /\ pc[q] \in Sending => Uart(p) # Uart(q)
    BY DEF Senders, OneSender, Places, HandlerPcs, Sending
<1> DEFINE Kept == /\ \A u \in Uarts : tx_busy[u] => tx_busy'[u]
                   /\ \A o \in Objs : uart_claimed[o] => uart_claimed'[o]
                   /\ \A p \in Procs : pc'[p] \in Sending => pc[p] \in Sending /\ self'[p] = self[p]
<1>1. ASSUME Kept
      PROVE  Senders'
    BY <1>1, <1>b DEF Senders, OneSender, Uart
<1>2. ASSUME NEW o \in Objs, NEW len \in {0, 1}, NEW now \in BOOLEAN, CallUpdate(o, len, now)
      PROVE  Kept
    BY <1>a, <1>2 DEF CallUpdate, Begin, elsewhere, handles, Sending
<1>3. CASE ChooseBuffer \/ FinishCopy \/ Activate
    BY <1>1, <1>a, <1>3 DEF ChooseBuffer, FinishCopy, Activate, elsewhere, handles, Sending
<1>4. CASE AlreadySent(Script)
    BY <1>1, <1>a, <1>4 DEF AlreadySent, still, handles, Sending
<1>5. CASE Return
    BY <1>1, <1>a, <1>5 DEF Return, handles, Sending
<1>6. ASSUME NEW p \in Procs, TrySend(p)
      PROVE  Senders'
  <2> USE DEF still, handles
  <2>1. CASE ClaimTx(p)
    <3>1. self[p] \in Objs
      BY <2>1 DEF ClaimTx, Places, HandlerPcs
    <3>2. CASE uart_claimed[self[p]] /\ ~tx_busy[Uart(p)]
      <4>1. /\ tx_busy' = [tx_busy EXCEPT ![Uart(p)] = TRUE] /\ pc' = [pc EXCEPT ![p] = "load"]
            /\ UNCHANGED <<self, uart_claimed>>
        BY <3>2, <2>1 DEF ClaimTx
      <4>2. \A q \in Procs : q # p /\ pc'[q] \in Sending => pc[q] \in Sending
        BY <4>1, <1>a
      <4>3. \A q \in Procs : q # p /\ pc'[q] \in Sending => Uart(q) # Uart(p)
        BY <4>2, <3>2, <1>b
      <4>4. \A q \in Procs : pc'[q] \in Sending =>
                self[q] \in Objs /\ uart_claimed[self[q]] /\ tx_busy'[Uart(q)]
        BY <4>1, <4>2, <3>1, <3>2, <1>a, <1>b DEF Uart
      <4> QED
        BY <4>1, <4>2, <4>3, <4>4, <1>b DEF Senders, OneSender, Uart
    <3>3. CASE ~(uart_claimed[self[p]] /\ ~tx_busy[Uart(p)])
      BY <1>1, <2>1, <3>3, <1>a DEF ClaimTx, Sending
    <3> QED
      BY <3>2, <3>3
  <2>2. CASE ReleaseTx(p)
    <3>1. pc[p] \in Sending
      BY <2>2 DEF ReleaseTx, Sending
    <3>2. /\ tx_busy' = [tx_busy EXCEPT ![Uart(p)] = FALSE] /\ pc'[p] \notin Sending
          /\ UNCHANGED <<self, uart_claimed>> /\ \A q \in Procs : q # p => pc'[q] = pc[q]
      BY <2>2, <1>a DEF ReleaseTx, ReturnPoint, Sending
    <3>3. \A q \in Procs : pc'[q] \in Sending =>
              pc[q] \in Sending /\ uart_claimed[self[q]] /\ tx_busy'[Uart(q)]
      BY <3>1, <3>2, <1>a, <1>b DEF Uart
    <3> QED
      BY <3>2, <3>3, <1>b DEF Senders, OneSender, Uart
  <2>3. CASE SkipTx(p)
    BY <1>1, <2>3, <1>a DEF SkipTx, ReturnPoint, Sending
  <2>4. CASE LoadActive(p) \/ PublishReader(p) \/ RecheckActive(p)
    BY <1>1, <2>4, <1>a DEF LoadActive, PublishReader, RecheckActive, Sending
  <2>5. CASE CheckFrame(p)
    BY <1>1, <2>5, <1>a DEF CheckFrame, Sending
  <2>6. CASE WriteWhole(p) \/ WriteFails(p) \/ MarkSent(p) \/ ClearReader(p)
    BY <1>1, <2>6, <1>a DEF WriteWhole, WriteFails, MarkSent, ClearReader, Sending
  <2> QED
    BY <1>6, <2>1, <2>2, <2>3, <2>4, <2>5, <2>6 DEF TrySend
<1>7. ASSUME NEW h \in Handlers, LoadOwner(h) \/ CheckRunning(h)
      PROVE  Kept
    BY <1>a, <1>7 DEF LoadOwner, CheckRunning, quiet, handles, Sending
<1>8. ASSUME NEW h \in Handlers, LeaveCallback(h) \/ \E t \in Timers : EnterCallback(h, t)
      PROVE  Kept
    BY <1>a, <1>8 DEF LeaveCallback, EnterCallback, quiet, handles, Sending
<1>9. ASSUME NEW t \in Timers, Tick(t) \/ PythonTimer(t)
      PROVE  Kept
    BY <1>9 DEF Tick, PythonTimer, locals, handles
<1>10. ASSUME NEW o \in Objs, CallStart(o)
      PROVE  Senders'
  <2>1. \A p \in Procs : pc'[p] \in Sending => pc[p] \in Sending /\ self'[p] = self[p]
    BY <1>a, <1>10 DEF CallStart, Begin, data, Sending
  <2>2. CASE AcquireUart(o, "failed")
    BY <1>1, <1>a, <2>1, <2>2 DEF AcquireUart
  <2>3. CASE AcquireUart(o, "ok")
    <3>1. \A q \in Procs : pc[q] \in Sending => users[Uart(q)] > 0
      BY <1>b, UserFacts DEF Uart
    <3>2. \A q \in Procs : pc[q] \in Sending => tx_busy'[Uart(q)] /\ uart_claimed'[self[q]]
      BY <1>a, <1>b, <2>3, <3>1 DEF AcquireUart, Uart
    <3> QED
      BY <2>1, <3>2, <1>b DEF Senders, OneSender, Uart
  <2> QED
    BY <1>10, <2>2, <2>3 DEF CallStart
<1>11. ASSUME NEW o \in Objs, CallStop(o) \/ CallDeinit(o)
      PROVE  Kept
    BY <1>a, <1>11 DEF CallStop, CallDeinit, Begin, data, handles, Sending
<1>12. CASE CallDeinitAll
    BY <1>1, <1>a, <1>12 DEF CallDeinitAll, Begin, data, handles, Sending
<1>13. CASE Sweep
    BY <1>1, <1>a, <1>13 DEF Sweep, data, handles, Sending
<1>14. CASE ConfigureTimer \/ OwnSlot \/ RunTimer \/ ArmTimer
    BY <1>1, <1>a, <1>14 DEF ConfigureTimer, OwnSlot, RunTimer, ArmTimer, data, handles, Sending
<1>15. CASE Disown \/ Halt \/ Silence \/ WaitForCallback \/ FreeBuffers
    BY <1>1, <1>a, <1>15 DEF Disown, Halt, Silence, WaitForCallback, FreeBuffers, data, handles, Sending
<1>16. CASE Release
  <2> DEFINE o == self[Script]
  <2>1. o \in Objs /\ UartOf[o] \in Uarts
    BY <1>16 DEF Release, Places
  <2>2. /\ uart_claimed' = [uart_claimed EXCEPT ![o] = FALSE] /\ ReleaseUart(o)
        /\ \A p \in Procs : pc'[p] \in Sending => pc[p] \in Sending /\ p # Script
        /\ UNCHANGED self
    BY <1>16, <1>a DEF Release, Sending
  <2>3. ASSUME NEW p \in Procs, pc'[p] \in Sending
        PROVE  self[p] # o
    BY <1>16, <2>2, <2>3 DEF Release, Handshake
  <2>4. ASSUME NEW p \in Procs, pc'[p] \in Sending
        PROVE  tx_busy'[Uart(p)]
    <3>1. CASE uart_claimed[o] /\ Uart(p) = UartOf[o]
      <4>1. users[UartOf[o]] > 0 /\ users[UartOf[o]] # 1
        BY <3>1, <2>1, <2>2, <2>3, <2>4, <1>b, UserFacts DEF Uart
      <4> QED
        BY <3>1, <4>1, <2>1, <2>2, <2>4, <1>a, <1>b DEF ReleaseUart
    <3>2. CASE ~(uart_claimed[o] /\ Uart(p) = UartOf[o])
      BY <3>2, <2>1, <2>2, <2>4, <1>a, <1>b DEF ReleaseUart, Uart
    <3> QED
      BY <3>1, <3>2
  <2>5. ASSUME NEW p \in Procs, pc'[p] \in Sending
        PROVE  uart_claimed'[self[p]]
    BY <2>1, <2>2, <2>3, <2>5, <1>a, <1>b
  <2> QED
    BY <2>2, <2>4, <2>5, <1>b DEF Senders, OneSender, Uart
<1>17. CASE UNCHANGED vars
    BY <1>1, <1>17 DEF vars, locals, handles
<1> HIDE DEF Goto, Kept
<1> QED
    BY <1>1, <1>2, <1>3, <1>4, <1>5, <1>6, <1>7, <1>8, <1>9, <1>10, <1>11, <1>12, <1>13, <1>14, <1>15, <1>16, <1>17,
       StepCases, Zenon

-----------------------------------------------------------------------------
(* Every step keeps the generations in the buffers,                        *)
LEMMA FramesStep ==
    ASSUME TypeOK, Places, Frames, [Next]_vars
    PROVE  Frames'
<1> USE ProcFacts, BufferFacts DEF Goto
<1>a. /\ pc \in [Procs -> Pcs] /\ self \in [Procs -> OrNone(Objs)] /\ call \in Calls
      /\ buffer_generation \in [Objs -> [Buffers -> Generations]] /\ active_idx \in [Objs -> Buffers]
      /\ next_generation \in [Objs -> Generations] /\ Generations = 0..MaxGeneration
    BY DEF TypeOK, LocalTypes, FrameTypes, Generations
<1> DEFINE Editing == {"choose", "copy", "activate"}
           Kept == /\ UNCHANGED <<buffer_generation, next_generation, active_idx>>
                   /\ \/ pc'[Script] = pc[Script] /\ self'[Script] = self[Script] /\ UNCHANGED call
                      \/ pc[Script] \notin Editing /\ pc'[Script] \notin Editing
<1>1. ASSUME Kept
      PROVE  Frames'
    BY <1>1 DEF Frames
<1>2. ASSUME NEW o \in Objs, NEW len \in {0, 1}, NEW now \in BOOLEAN, CallUpdate(o, len, now)
      PROVE  Frames'
    BY <1>2, <1>a DEF CallUpdate, Begin, frames, Frames
<1>3. CASE ChooseBuffer
  <2> DEFINE free == Buffers \ {active_idx[self[Script]], reader_idx[self[Script]]}
             i == CHOOSE j \in free : \A k \in free : j <= k
  <2>1. active_idx[self[Script]] \in Buffers
    BY <1>3, <1>a DEF ChooseBuffer, Places
  <2>2. i \in Buffers \ {active_idx[self[Script]], reader_idx[self[Script]]}
    BY <2>1, FreeBuffer, Zenon
  <2>3. /\ call' = [call EXCEPT !.target = i] /\ pc' = [pc EXCEPT ![Script] = "copy"] /\ pc[Script] = "choose"
        /\ UNCHANGED <<frames, self>>
    BY <1>3 DEF ChooseBuffer
  <2> HIDE DEF i
  <2> QED
    BY <1>a, <2>2, <2>3 DEF frames, Frames, Calls
<1>4. CASE FinishCopy
  <2> DEFINE o == self[Script]
             i == call.target
  <2>1. o \in Objs /\ i \in Buffers /\ i # active_idx[o] /\ pc[Script] = "copy"
    BY <1>4, <1>a DEF FinishCopy, Places, Frames, Calls
  <2>2. /\ next_generation' = [next_generation EXCEPT ![o] = @ + 1]
        /\ buffer_generation' = [buffer_generation EXCEPT ![o][i] = next_generation[o] + 1]
        /\ pc'[Script] = "activate" /\ UNCHANGED <<self, call, active_idx>>
    BY <1>4, <1>a DEF FinishCopy
  <2>3. \A q \in Objs, j \in Buffers :
            buffer_generation'[q][j] = IF q = o /\ j = i THEN next_generation[o] + 1 ELSE buffer_generation[q][j]
    BY <1>a, <2>1, <2>2
  <2>4. \A q \in Objs : next_generation'[q] = IF q = o THEN next_generation[q] + 1 ELSE next_generation[q]
    BY <1>a, <2>1, <2>2
  <2>5. \A q \in Objs : /\ buffer_generation[q][active_idx[q]] = next_generation[q]
                        /\ next_generation[q] \in Nat
                        /\ \A j \in Buffers : buffer_generation[q][j] <= next_generation[q]
                                              /\ buffer_generation[q][j] \in Nat
    BY <1>a, <2>1 DEF Frames
  <2> HIDE DEF o, i
  <2>6. \A q \in Objs : \A j \in Buffers : buffer_generation'[q][j] <= next_generation'[q]
    BY <2>3, <2>4, <2>5
  <2>7. \A q \in Objs : q # o => buffer_generation'[q][active_idx'[q]] = next_generation'[q]
    BY <1>a, <2>2, <2>3, <2>4, <2>5
  <2>8. active_idx[o] \in Buffers /\ o \in Objs /\ i \in Buffers /\ i # active_idx[o]
    BY <1>a, <2>1 DEF o, i
  <2>9. buffer_generation'[o][i] = next_generation'[o]
    BY <2>3, <2>4, <2>8
  <2>10. buffer_generation'[o][active_idx[o]] = next_generation'[o] - 1
    BY <2>3, <2>4, <2>5, <2>8
  <2>11. \A j \in Buffers \ {i} : buffer_generation'[o][j] < next_generation'[o]
    BY <2>3, <2>4, <2>5, <2>8
  <2> QED
    BY <2>1, <2>2, <2>6, <2>7, <2>9, <2>10, <2>11 DEF Frames, o, i
<1>5. CASE Activate
  <2>1. self[Script] \in Objs /\ call.target \in Buffers
    BY <1>5, <1>a DEF Activate, Places, Calls
  <2> QED
    BY <1>5, <1>a, <2>1 DEF Activate, Frames
<1>6. CASE AlreadySent(Script)
    BY <1>1, <1>a, <1>6 DEF AlreadySent, still, frames
<1>7. CASE Return
    BY <1>1, <1>a, <1>7 DEF Return, frames
<1>8. ASSUME NEW p \in Procs, TrySend(p)
      PROVE  Kept
  <2>1. UNCHANGED still
    BY <1>8, Zenon DEF TrySend, ClaimTx, SkipTx, LoadActive, PublishReader, RecheckActive, CheckFrame, WriteWhole,
                       WriteFails, MarkSent, ClearReader, ReleaseTx
  <2>2. \E there : Goto(p, there) /\ there \notin Editing /\ pc[p] \notin Editing
    BY <1>8 DEF TrySend, ClaimTx, SkipTx, LoadActive, PublishReader, RecheckActive, CheckFrame, WriteWhole,
                WriteFails, MarkSent, ClearReader, ReleaseTx, ReturnPoint
  <2> QED
    BY <1>a, <2>1, <2>2 DEF still, frames
<1>9. ASSUME NEW h \in Handlers, LoadOwner(h) \/ CheckRunning(h) \/ LeaveCallback(h) \/ \E t \in Timers : EnterCallback(h, t)
      PROVE  Kept
    BY <1>a, <1>9 DEF LoadOwner, CheckRunning, LeaveCallback, EnterCallback, quiet, frames
<1>10. ASSUME NEW t \in Timers, Tick(t) \/ PythonTimer(t)
      PROVE  Kept
    BY <1>10 DEF Tick, PythonTimer, locals, frames
<1>11. ASSUME NEW o \in Objs, CallStart(o) \/ CallStop(o) \/ CallDeinit(o)
      PROVE  Kept
    BY <1>a, <1>11 DEF CallStart, CallStop, CallDeinit, Begin, data
<1>12. CASE CallDeinitAll \/ Sweep \/ ConfigureTimer \/ OwnSlot \/ RunTimer \/ ArmTimer
    BY <1>1, <1>a, <1>12 DEF CallDeinitAll, Begin, Sweep, ConfigureTimer, OwnSlot, RunTimer, ArmTimer, data
<1>13. CASE Disown \/ Halt \/ Silence \/ WaitForCallback \/ Release \/ FreeBuffers
    BY <1>1, <1>a, <1>13 DEF Disown, Halt, Silence, WaitForCallback, Release, FreeBuffers, data
<1>14. CASE UNCHANGED vars
    BY <1>1, <1>14 DEF vars, locals, frames
<1> HIDE DEF Goto, Kept
<1> QED
    BY <1>1, <1>2, <1>3, <1>4, <1>5, <1>6, <1>7, <1>8, <1>9, <1>10, <1>11, <1>12, <1>13, <1>14, StepCases, Zenon

(* An object has one sender.                                               *)
LEMMA SenderFacts ==
    ASSUME TypeOK, Places, Senders
    PROVE  /\ \A p, q \in Procs : p # q /\ pc[p] \in Sending /\ pc[q] \in Sending => self[p] # self[q]
           /\ \A p \in Procs : pc[p] \in Sending => self[p] \in Objs
           /\ Published \subseteq Sending /\ Reading \subseteq Published
<1>1. Published \subseteq Sending /\ Reading \subseteq Published
    BY DEF Published, Reading, Sending
<1>2. \A p \in Procs : pc[p] \in Sending => self[p] \in Objs
    BY ProcFacts DEF Places, HandlerPcs, Sending
<1>3. \A p, q \in Procs : p # q /\ pc[p] \in Sending /\ pc[q] \in Sending => self[p] # self[q]
    BY DEF Senders, OneSender, Uart
<1> QED
    BY <1>1, <1>2, <1>3

(* what the senders have published,                                        *)
LEMMA ReadersStep ==
    ASSUME TypeOK, Places, Handshake, Senders, Frames, Readers, [Next]_vars
    PROVE  Readers'
<1> USE ProcFacts, SenderFacts DEF Goto
<1>a. /\ pc \in [Procs -> Pcs] /\ self \in [Procs -> OrNone(Objs)] /\ call \in Calls
      /\ index \in [Procs -> Buffers \cup {NoReader}] /\ reader_idx \in [Objs -> Buffers \cup {NoReader}]
    BY DEF TypeOK, LocalTypes, FrameTypes
<1>b. /\ \A p \in Procs : pc[p] \in Published => reader_idx[self[p]] = index[p]
      /\ pc[Script] \in {"copy", "activate"} =>
             \A p \in Procs : pc[p] \in Reading /\ self[p] = self[Script] => index[p] # call.target
      /\ pc[Script] \in {"copy", "activate"} => call.target # active_idx[self[Script]]
    BY Zenon DEF Readers, Frames
<1> DEFINE Editing == {"copy", "activate"}
           Kept == /\ \A p \in Procs : pc'[p] \in Published =>
                          pc[p] \in Published /\ self'[p] = self[p] /\ index'[p] = index[p]
                   /\ \A p \in Procs : pc'[p] \in Published => reader_idx'[self[p]] = reader_idx[self[p]]
                   /\ \A p \in Procs : pc'[p] \in Reading => pc[p] \in Reading
                   /\ pc'[Script] \in Editing => pc[Script] \in Editing /\ self'[Script] = self[Script]
                                                 /\ call' = call
<1>1. ASSUME Kept
      PROVE  Readers'
    BY <1>1, <1>b DEF Readers
<1>2. ASSUME NEW o \in Objs, NEW len \in {0, 1}, NEW now \in BOOLEAN, CallUpdate(o, len, now)
      PROVE  Kept
    BY <1>a, <1>2 DEF CallUpdate, Begin, elsewhere, Published, Reading
<1>3. CASE ChooseBuffer
  <2> DEFINE free == Buffers \ {active_idx[self[Script]], reader_idx[self[Script]]}
             i == CHOOSE j \in free : \A k \in free : j <= k
  <2>1. active_idx[self[Script]] \in Buffers
    BY <1>3, <1>a DEF ChooseBuffer, Places, TypeOK, FrameTypes
  <2>2. i \in Buffers \ {active_idx[self[Script]], reader_idx[self[Script]]}
    BY <2>1, FreeBuffer, Zenon
  <2>3. /\ call' = [call EXCEPT !.target = i] /\ pc' = [pc EXCEPT ![Script] = "copy"] /\ pc[Script] = "choose"
        /\ UNCHANGED <<index, reader_idx, self>>
    BY <1>3 DEF ChooseBuffer, elsewhere
  <2> HIDE DEF i
  <2>4. call'.target # reader_idx[self[Script]]
    BY <2>2, <2>3, <1>a DEF Calls
  <2> QED
    BY <1>a, <1>b, <2>3, <2>4 DEF Readers, Published, Reading
<1>4. CASE FinishCopy \/ Activate
    BY <1>1, <1>a, <1>4 DEF FinishCopy, Activate, elsewhere, Published, Reading
<1>5. CASE AlreadySent(Script)
    BY <1>1, <1>a, <1>5 DEF AlreadySent, still, Published, Reading
<1>6. CASE Return
    BY <1>1, <1>a, <1>6 DEF Return, Published, Reading
<1>7. ASSUME NEW p \in Procs, TrySend(p)
      PROVE  Readers'
  <2> USE DEF still
  <2>1. CASE ClaimTx(p)
    BY <1>1, <1>a, <2>1 DEF ClaimTx, Published, Reading
  <2>2. CASE SkipTx(p) \/ ReleaseTx(p)
    BY <1>1, <1>a, <2>2 DEF SkipTx, ReleaseTx, ReturnPoint, Published, Reading
  <2>3. CASE LoadActive(p)
    BY <1>1, <1>a, <2>3 DEF LoadActive, Published, Reading
  <2>4. CASE PublishReader(p)
    <3>1. /\ pc[p] \in Sending /\ pc' = [pc EXCEPT ![p] = "recheck"]
          /\ reader_idx' = [reader_idx EXCEPT ![self[p]] = index[p]]
          /\ UNCHANGED <<self, index, call>>
      BY <2>4 DEF PublishReader, Sending
    <3>2. reader_idx'[self[p]] = index[p]
      BY <3>1, <1>a
    <3>3. \A q \in Procs : q # p /\ pc[q] \in Published => reader_idx'[self[q]] = index[q]
      BY <3>1, <1>a, <1>b
    <3> QED
      BY <1>a, <1>b, <3>1, <3>2, <3>3 DEF Readers, Reading
  <2>5. CASE RecheckActive(p)
    <3>1. /\ pc[p] \in Published /\ \A q \in Procs : q # p => pc'[q] = pc[q]
          /\ pc[p] = "recheck" /\ pc'[p] \in {"check", "load", "unread"}
          /\ pc'[p] = "check" => index[p] = active_idx[self[p]]
          /\ UNCHANGED <<reader_idx, self, index, call>>
      BY <1>a, <2>5 DEF RecheckActive, Published
    <3> QED
      BY <1>a, <1>b, <3>1 DEF Readers, Reading, Published
  <2>6. CASE CheckFrame(p) \/ WriteWhole(p) \/ WriteFails(p) \/ MarkSent(p)
    BY <1>1, <1>a, <2>6 DEF CheckFrame, WriteWhole, WriteFails, MarkSent, Published, Reading
  <2>7. CASE ClearReader(p)
    <3>1. /\ pc[p] \in Sending \ Published /\ pc' = [pc EXCEPT ![p] = "unlock"]
          /\ reader_idx' = [reader_idx EXCEPT ![self[p]] = NoReader]
          /\ UNCHANGED <<self, index, call>>
      BY <2>7 DEF ClearReader, Sending, Published, Reading
    <3>2. \A q \in Procs : pc'[q] \in Published => pc[q] \in Published /\ reader_idx'[self[q]] = reader_idx[self[q]]
      BY <3>1, <1>a DEF Published, Reading
    <3> QED
      BY <1>1, <1>a, <3>1, <3>2 DEF Published, Reading
  <2> QED
    BY <1>7, <2>1, <2>2, <2>3, <2>4, <2>5, <2>6, <2>7 DEF TrySend
<1>8. ASSUME NEW h \in Handlers, LoadOwner(h) \/ CheckRunning(h) \/ LeaveCallback(h) \/ \E t \in Timers : EnterCallback(h, t)
      PROVE  Kept
    BY <1>a, <1>8 DEF LoadOwner, CheckRunning, LeaveCallback, EnterCallback, quiet, Published, Reading
<1>9. ASSUME NEW t \in Timers, Tick(t) \/ PythonTimer(t)
      PROVE  Kept
    BY <1>9 DEF Tick, PythonTimer, locals
<1>10. ASSUME NEW o \in Objs, CallStart(o) \/ CallStop(o) \/ CallDeinit(o)
      PROVE  Kept
    BY <1>a, <1>10 DEF CallStart, CallStop, CallDeinit, Begin, data, Published, Reading
<1>11. CASE CallDeinitAll \/ Sweep \/ ConfigureTimer \/ OwnSlot \/ RunTimer \/ ArmTimer
    BY <1>1, <1>a, <1>11 DEF CallDeinitAll, Begin, Sweep, ConfigureTimer, OwnSlot, RunTimer, ArmTimer, data,
                             Published, Reading
<1>12. CASE Disown \/ Halt \/ Silence \/ WaitForCallback \/ FreeBuffers
    BY <1>1, <1>a, <1>12 DEF Disown, Halt, Silence, WaitForCallback, FreeBuffers, data, Published, Reading
<1>13. CASE Release
  <2>1. \A p \in Procs : pc'[p] \in Published => pc[p] \in Published /\ p # Script
    BY <1>13, <1>a DEF Release, Published, Reading
  <2>2. \A h \in Handlers : self[h] # self[Script]
    BY <1>13 DEF Release, Handshake
  <2>3. \A p \in Procs : pc'[p] \in Published => reader_idx'[self[p]] = reader_idx[self[p]]
    BY <1>13, <1>a, <2>1, <2>2 DEF Release
  <2> QED
    BY <1>1, <1>a, <1>13, <2>1, <2>3 DEF Release, data, Published, Reading
<1>14. CASE UNCHANGED vars
    BY <1>1, <1>14 DEF vars, locals
<1> HIDE DEF Goto, Kept
<1> QED
    BY <1>1, <1>2, <1>3, <1>4, <1>5, <1>6, <1>7, <1>8, <1>9, <1>10, <1>11, <1>12, <1>13, <1>14, StepCases, Zenon

(* what has been delivered and what is about to be,                        *)
LEMMA DeliveriesStep ==
    ASSUME TypeOK, Places, Senders, Frames, Readers, Deliveries, [Next]_vars
    PROVE  Deliveries'
<1> USE ProcFacts, SenderFacts DEF Goto, AllowRepeat
<1>a. /\ pc \in [Procs -> Pcs] /\ self \in [Procs -> OrNone(Objs)] /\ call \in Calls
      /\ index \in [Procs -> Buffers \cup {NoReader}] /\ generation \in [Procs -> Generations]
      /\ buffer_generation \in [Objs -> [Buffers -> Generations]] /\ active_idx \in [Objs -> Buffers]
      /\ delivered \in [Objs -> SUBSET Generations]
      /\ last_sent_generation \in [Objs -> Generations \cup {NoGeneration}]
    BY DEF TypeOK, LocalTypes, FrameTypes
<1>g. Generations \subseteq Nat /\ NoGeneration \notin Generations
    BY DEF Generations, NoGeneration
<1>n. /\ \A o \in Objs : active_idx[o] \in Buffers /\ \A j \in Buffers : buffer_generation[o][j] \in Nat
      /\ \A p \in Procs : generation[p] \in Nat
      /\ \A o \in Objs : \A g \in delivered[o] : g \in Nat
  <2>1. \A o \in Objs : active_idx[o] \in Buffers /\ \A j \in Buffers : buffer_generation[o][j] \in Generations
    BY <1>a
  <2>2. \A p \in Procs : generation[p] \in Generations
    BY <1>a
  <2>3. \A o \in Objs : \A g \in delivered[o] : g \in Generations
    BY <1>a
  <2> QED
    BY <2>1, <2>2, <2>3, <1>g
<1>r. \A p \in Procs : pc[p] \in {"check", "write", "mark"} => pc[p] \in Sending /\ self[p] \in Objs /\ index[p] \in Buffers
    BY DEF Places, Sending, Published, Reading
<1>d. /\ \A o \in Objs : \A g \in delivered[o] : g <= buffer_generation[o][active_idx[o]]
      /\ \A o \in Objs : last_sent_generation[o] # NoGeneration => last_sent_generation[o] \in delivered[o]
      /\ \A o \in Objs : (\A p \in Procs : ~(pc[p] = "mark" /\ self[p] = o)) =>
             \A g \in delivered[o] : last_sent_generation[o] # NoGeneration /\ g <= last_sent_generation[o]
      /\ \A p \in Procs :
             /\ pc[p] = "check" => \A g \in delivered[self[p]] : g <= buffer_generation[self[p]][index[p]]
             /\ pc[p] = "write" => generation[p] <= buffer_generation[self[p]][active_idx[self[p]]]
             /\ pc[p] = "mark" => /\ generation[p] \in delivered[self[p]]
                                  /\ \A g \in delivered[self[p]] : g <= generation[p]
             /\ pc[p] = "write" => \A g \in delivered[self[p]] :
                    g < generation[p] \/ (p # Script /\ RepeatLast[self[p]] /\ g = generation[p])
    BY Zenon DEF Deliveries, OnceInOrder
<1> DEFINE Kept ==
        /\ UNCHANGED <<delivered, last_sent_generation, buffer_generation, active_idx>>
        /\ \A p \in Procs : pc'[p] \in {"check", "write", "mark"} =>
               pc'[p] = pc[p] /\ self'[p] = self[p] /\ index'[p] = index[p] /\ generation'[p] = generation[p]
        /\ \A p \in Procs : pc[p] = "mark" => pc'[p] = "mark" /\ self'[p] = self[p]
<1>1. ASSUME Kept
      PROVE  Deliveries'
  <2>1. \A o \in Objs : (\A p \in Procs : ~(pc'[p] = "mark" /\ self'[p] = o)) =>
                            (\A p \in Procs : ~(pc[p] = "mark" /\ self[p] = o))
    BY <1>1
  <2>2. OnceInOrder'
    BY <1>1, <1>d DEF OnceInOrder
  <2>3. \A p \in Procs :
          /\ pc'[p] = "check" => \A g \in delivered'[self'[p]] : g <= buffer_generation'[self'[p]][index'[p]]
          /\ pc'[p] = "write" => generation'[p] <= buffer_generation'[self'[p]][active_idx'[self'[p]]]
          /\ pc'[p] = "mark" => /\ generation'[p] \in delivered'[self'[p]]
                                /\ \A g \in delivered'[self'[p]] : g <= generation'[p]
    BY <1>1, <1>d, ZenonT(60)
  <2> QED
    BY <1>1, <1>d, <2>1, <2>2, <2>3 DEF Deliveries
<1>2. ASSUME NEW o \in Objs, NEW len \in {0, 1}, NEW now \in BOOLEAN, CallUpdate(o, len, now)
      PROVE  Kept
    BY <1>a, <1>2 DEF CallUpdate, Begin, elsewhere, frames
<1>3. CASE ChooseBuffer
    BY <1>1, <1>a, <1>3 DEF ChooseBuffer, elsewhere, frames
<1>4. CASE FinishCopy
  <2> DEFINE o == self[Script]
             i == call.target
  <2>1. o \in Objs /\ i \in Buffers /\ i # active_idx[o] /\ pc[Script] = "copy"
    BY <1>4, <1>a DEF FinishCopy, Places, Frames, Calls
  <2>2. /\ buffer_generation' = [buffer_generation EXCEPT ![o][i] = next_generation[o] + 1]
        /\ pc' = [pc EXCEPT ![Script] = "activate"]
        /\ UNCHANGED <<self, index, generation, delivered, last_sent_generation, active_idx>>
    BY <1>4 DEF FinishCopy, elsewhere
  <2>3. \A q \in Objs, j \in Buffers : q # o \/ j # i => buffer_generation'[q][j] = buffer_generation[q][j]
    BY <1>a, <2>1, <2>2
  <2>4. \A q \in Objs : buffer_generation'[q][active_idx[q]] = buffer_generation[q][active_idx[q]]
    BY <1>a, <2>1, <2>3
  <2>5. \A p \in Procs : pc[p] \in Reading => self[p] # o \/ index[p] # i
    BY <2>1 DEF Readers
  <2>6. \A p \in Procs : pc[p] = "check" =>
            buffer_generation'[self[p]][index[p]] = buffer_generation[self[p]][index[p]]
    BY <1>r, <2>3, <2>5 DEF Reading
  <2>7. \A p \in Procs : pc'[p] \in {"check", "write", "mark"} => pc'[p] = pc[p]
    BY <1>a, <2>2
  <2>8. \A p \in Procs : pc[p] \in {"check", "write", "mark"} => pc'[p] = pc[p]
    BY <1>a, <2>1, <2>2
  <2> HIDE DEF o, i
  <2>9. OnceInOrder'
    BY <1>d, <2>2, <2>7 DEF OnceInOrder
  <2>10. \A q \in Objs : (\A p \in Procs : ~(pc'[p] = "mark" /\ self'[p] = q)) =>
             \A g \in delivered[q] : last_sent_generation[q] # NoGeneration /\ g <= last_sent_generation[q]
    BY <1>d, <2>2, <2>8
  <2>11. ASSUME NEW p \in Procs
         PROVE  /\ pc'[p] = "check" => \A g \in delivered[self[p]] : g <= buffer_generation'[self[p]][index[p]]
                /\ pc'[p] = "write" => generation[p] <= buffer_generation'[self[p]][active_idx[self[p]]]
    <3>1. CASE pc'[p] = "check"
      BY <1>d, <2>6, <2>7, <3>1
    <3>2. CASE pc'[p] = "write"
      <4>1. pc[p] = "write" /\ self[p] \in Objs
        BY <1>r, <2>7, <3>2
      <4> QED
        BY <1>d, <2>4, <4>1, <3>2
    <3> QED
      BY <3>1, <3>2
  <2>12. \A q \in Objs : \A g \in delivered[q] : g <= buffer_generation'[q][active_idx[q]]
    BY <1>a, <1>d, <2>4
  <2> QED
    BY <1>d, <2>2, <2>7, <2>9, <2>10, <2>11, <2>12 DEF Deliveries
<1>5. CASE Activate
  <2> DEFINE o == self[Script]
             i == call.target
  <2>1. o \in Objs /\ i \in Buffers /\ pc[Script] = "activate"
    BY <1>5, <1>a DEF Activate, Places, Calls
  <2>2. /\ active_idx' = [active_idx EXCEPT ![o] = i] /\ pc'[Script] \in {"already", "return"}
        /\ \A p \in Procs : p # Script => pc'[p] = pc[p]
        /\ UNCHANGED <<self, index, generation, delivered, last_sent_generation, buffer_generation>>
    BY <1>5, <1>a DEF Activate, elsewhere
  <2>3. buffer_generation[o][active_idx[o]] <= buffer_generation[o][i]
    BY <2>1, <1>a, <1>g, <1>n DEF Frames, Generations
  <2>4. \A q \in Objs : /\ buffer_generation[q][active_idx[q]] <= buffer_generation'[q][active_idx'[q]]
                        /\ buffer_generation[q][active_idx[q]] \in Nat
                        /\ buffer_generation'[q][active_idx'[q]] \in Nat
    <3>1. \A q \in Objs : q # o => active_idx'[q] = active_idx[q]
      BY <1>a, <2>2
    <3>2. active_idx'[o] = i
      BY <1>a, <2>1, <2>2
    <3> HIDE DEF o, i
    <3> QED
      BY <1>n, <2>1, <2>2, <2>3, <3>1, <3>2
  <2>5. \A p \in Procs : pc'[p] \in {"check", "write", "mark"} <=> pc[p] \in {"check", "write", "mark"}
    BY <2>1, <2>2
  <2>6. \A p \in Procs : pc[p] \in {"check", "write", "mark"} => pc'[p] = pc[p]
    BY <2>1, <2>2
  <2> HIDE DEF o, i
  <2>7. OnceInOrder'
    BY <1>d, <2>2, <2>5, <2>6 DEF OnceInOrder
  <2>8. \A q \in Objs : (\A p \in Procs : ~(pc'[p] = "mark" /\ self'[p] = q)) =>
             \A g \in delivered[q] : last_sent_generation[q] # NoGeneration /\ g <= last_sent_generation[q]
    BY <1>d, <2>2, <2>6
  <2>9. \A q \in Objs : \A g \in delivered[q] : g <= buffer_generation'[q][active_idx'[q]]
    BY <1>n, <1>d, <2>4
  <2>10. \A p \in Procs : pc[p] = "write" => generation[p] <= buffer_generation'[self[p]][active_idx'[self[p]]]
    BY <1>n, <1>d, <1>r, <2>4
  <2> QED
    BY <1>d, <2>2, <2>5, <2>6, <2>7, <2>8, <2>9, <2>10 DEF Deliveries
<1>6. CASE AlreadySent(Script)
    BY <1>1, <1>a, <1>6 DEF AlreadySent, still, frames
<1>7. CASE Return
    BY <1>1, <1>a, <1>7 DEF Return, frames
<1>8. ASSUME NEW p \in Procs, TrySend(p)
      PROVE  Deliveries'
  <2>s. UNCHANGED <<self, buffer_generation, active_idx>>
    BY <1>8, Zenon DEF TrySend, ClaimTx, SkipTx, LoadActive, PublishReader, RecheckActive, CheckFrame, WriteWhole,
                       WriteFails, MarkSent, ClearReader, ReleaseTx, still, frames
  <2>1. CASE ClaimTx(p) \/ SkipTx(p) \/ ReleaseTx(p)
    BY <1>1, <1>a, <2>s, <2>1 DEF ClaimTx, SkipTx, ReleaseTx, ReturnPoint
  <2>2. CASE LoadActive(p) \/ PublishReader(p)
    BY <1>1, <1>a, <2>s, <2>2 DEF LoadActive, PublishReader
  <2>3. CASE RecheckActive(p)
    <3>1. /\ pc[p] = "recheck" /\ pc'[p] \in {"check", "load", "unread"} /\ self[p] \in Objs
          /\ \A q \in Procs : q # p => pc'[q] = pc[q]
          /\ pc'[p] = "check" => index[p] = active_idx[self[p]]
          /\ UNCHANGED <<index, generation, delivered, last_sent_generation>>
      BY <1>a, <2>3 DEF RecheckActive, Places, HandlerPcs
    <3>2. OnceInOrder'
      BY <1>d, <2>s, <3>1 DEF OnceInOrder
    <3>3. \A q \in Procs : pc'[q] \in {"write", "mark"} <=> pc[q] \in {"write", "mark"}
      BY <3>1
    <3>4. \A q \in Procs : pc[q] = "mark" <=> pc'[q] = "mark"
      BY <3>1
    <3>5. \A q \in Procs : pc'[q] = "check" => \A g \in delivered[self[q]] : g <= buffer_generation[self[q]][index[q]]
      BY <1>a, <1>d, <3>1
    <3> QED
      BY <1>d, <2>s, <3>1, <3>2, <3>3, <3>4, <3>5 DEF Deliveries
  <2>4. CASE CheckFrame(p)
    <3> DEFINE o == self[p]
               gen == buffer_generation[o][index[p]]
    <3>1. o \in Objs /\ index[p] \in Buffers /\ gen \in Generations /\ pc[p] = "check" /\ pc[p] \in Sending
      BY <1>r, <1>a, <2>4 DEF CheckFrame
    <3>2. /\ generation' = [generation EXCEPT ![p] = gen] /\ pc'[p] \in {"write", "unread"}
          /\ \A q \in Procs : q # p => pc'[q] = pc[q]
          /\ pc'[p] = "write" => (p # Script /\ RepeatLast[o]) \/ gen # last_sent_generation[o]
          /\ UNCHANGED <<index, delivered, last_sent_generation>>
      BY <1>a, <2>4 DEF CheckFrame
    <3>3. \A g \in delivered[o] : last_sent_generation[o] # NoGeneration /\ g <= last_sent_generation[o]
      BY <1>d, <3>1 DEF Sending
    <3>4. gen <= buffer_generation[o][active_idx[o]]
      <4>1. buffer_generation[o][active_idx[o]] \in Nat /\ gen \in Nat
        BY <1>n, <3>1
      <4>2. CASE pc[Script] = "activate" /\ self[Script] = o
        <5>1. index[p] # call.target
          BY <3>1, <4>2 DEF Readers, Reading
        <5>2. /\ buffer_generation[o][active_idx[o]] = next_generation[o] - 1
              /\ gen < next_generation[o] /\ next_generation[o] \in Nat
          BY <1>g, <3>1, <4>2, <5>1 DEF Frames, TypeOK, FrameTypes
        <5> QED
          BY <4>1, <5>2
      <4>3. CASE ~(pc[Script] = "activate" /\ self[Script] = o)
        BY <3>1, <4>3 DEF Frames
      <4> QED
        BY <4>2, <4>3
    <3>5. ASSUME pc'[p] = "write", NEW g \in delivered[o]
          PROVE  g < gen \/ (p # Script /\ RepeatLast[o] /\ g = gen)
      <4>1. g <= gen /\ g \in Nat /\ gen \in Nat /\ last_sent_generation[o] \in delivered[o]
        BY <1>a, <1>g, <1>d, <3>1, <3>3
      <4>2. last_sent_generation[o] <= gen /\ g <= last_sent_generation[o] /\ last_sent_generation[o] \in Nat
        BY <1>a, <1>g, <1>d, <3>1, <3>3, <4>1
      <4> QED
        BY <3>2, <3>5, <4>1, <4>2
    <3> HIDE DEF gen, o
    <3>6. generation'[p] = gen /\ \A q \in Procs : q # p => generation'[q] = generation[q]
      BY <1>a, <3>2
    <3>7. OnceInOrder'
      <4> SUFFICES ASSUME NEW q \in Procs, pc'[q] = "write", NEW g \in delivered'[self'[q]]
                   PROVE  g < generation'[q] \/ (q # Script /\ RepeatLast[self'[q]] /\ g = generation'[q])
        BY DEF OnceInOrder
      <4>1. CASE q = p
        BY <2>s, <3>2, <3>5, <3>6, <4>1 DEF o
      <4>2. CASE q # p
        BY <2>s, <1>d, <3>2, <3>6, <4>2
      <4> QED
        BY <4>1, <4>2
    <3>8. \A q \in Procs : pc[q] = "mark" <=> pc'[q] = "mark"
      BY <3>1, <3>2
    <3>9. \A q \in Procs : pc'[q] = "write" => generation'[q] <= buffer_generation[self[q]][active_idx[self[q]]]
      BY <1>d, <3>2, <3>4, <3>6 DEF o
    <3>10. \A q \in Procs : pc'[q] \in {"check", "mark"} => pc[q] = pc'[q] /\ generation'[q] = generation[q]
      BY <3>2, <3>6
    <3> QED
      BY <1>d, <2>s, <3>2, <3>7, <3>8, <3>9, <3>10 DEF Deliveries
  <2>5. CASE WriteWhole(p)
    <3> DEFINE o == self[p]
    <3>1. o \in Objs /\ pc[p] = "write" /\ pc[p] \in Sending /\ generation[p] \in Generations
      BY <1>r, <1>a, <2>5 DEF WriteWhole
    <3>2. /\ delivered' = [delivered EXCEPT ![o] = @ \cup {generation[p]}] /\ pc' = [pc EXCEPT ![p] = "mark"]
          /\ UNCHANGED <<index, generation, last_sent_generation>>
      BY <2>5 DEF WriteWhole
    <3>3. \A q \in Procs : q # p /\ pc'[q] \in {"check", "write", "mark"} => self[q] # o /\ pc[q] = pc'[q] /\ self[q] \in Objs
      <4>1. \A q \in Procs : q # p => pc'[q] = pc[q]
        BY <1>a, <3>2
      <4> QED
        BY <1>r, <3>1, <4>1
    <3>4. \A q \in Objs : q # o => delivered'[q] = delivered[q]
      BY <1>a, <3>2
    <3>5. delivered'[o] = delivered[o] \cup {generation[p]} /\ pc'[p] = "mark"
      BY <1>a, <3>1, <3>2
    <3>6. \A g \in delivered'[o] : g <= generation[p] /\ g <= buffer_generation[o][active_idx[o]]
      BY <1>n, <1>d, <3>1, <3>5
    <3>7. OnceInOrder'
      <4> SUFFICES ASSUME NEW q \in Procs, pc'[q] = "write", NEW g \in delivered'[self'[q]]
                   PROVE  g < generation'[q] \/ (q # Script /\ RepeatLast[self'[q]] /\ g = generation'[q])
        BY DEF OnceInOrder
      <4>1. q # p /\ self[q] \in Objs /\ self[q] # o /\ pc[q] = "write"
        BY <3>3, <3>5
      <4> QED
        BY <2>s, <1>d, <3>2, <3>4, <4>1
    <3>8. ASSUME NEW q \in Objs, \A r \in Procs : ~(pc'[r] = "mark" /\ self'[r] = q)
          PROVE  \A g \in delivered'[q] : last_sent_generation'[q] # NoGeneration /\ g <= last_sent_generation'[q]
      <4>1. q # o
        BY <2>s, <3>5, <3>8
      <4>2. \A r \in Procs : ~(pc[r] = "mark" /\ self[r] = q)
        BY <2>s, <3>8, <3>2, <3>1, <1>a
      <4> QED
        BY <1>d, <3>2, <3>4, <4>1, <4>2
    <3>9. \A q \in Objs : /\ \A g \in delivered'[q] : g <= buffer_generation[q][active_idx[q]]
                          /\ last_sent_generation[q] # NoGeneration => last_sent_generation[q] \in delivered'[q]
      BY <1>a, <1>d, <3>4, <3>5, <3>6
    <3>10. \A q \in Procs :
             /\ pc'[q] = "check" => \A g \in delivered'[self[q]] : g <= buffer_generation[self[q]][index[q]]
             /\ pc'[q] = "write" => generation[q] <= buffer_generation[self[q]][active_idx[self[q]]]
             /\ pc'[q] = "mark" => /\ generation[q] \in delivered'[self[q]]
                                   /\ \A g \in delivered'[self[q]] : g <= generation[q]
      BY <1>d, <3>3, <3>4, <3>5, <3>6, SMTT(30)
    <3> QED
      BY <2>s, <3>2, <3>7, <3>8, <3>9, <3>10 DEF Deliveries
  <2>6. CASE WriteFails(p)
    BY <1>1, <1>a, <2>s, <2>6 DEF WriteFails
  <2>7. CASE MarkSent(p)
    <3> DEFINE o == self[p]
    <3>1. o \in Objs /\ pc[p] = "mark" /\ pc[p] \in Sending /\ generation[p] \in Generations
      BY <1>r, <1>a, <2>7 DEF MarkSent
    <3>2. /\ last_sent_generation' = [last_sent_generation EXCEPT ![o] = generation[p]]
          /\ pc' = [pc EXCEPT ![p] = "unread"]
          /\ UNCHANGED <<index, generation, delivered>>
      BY <2>7 DEF MarkSent
    <3>3. \A q \in Procs : pc'[q] \in {"check", "write", "mark"} => pc[q] = pc'[q]
      BY <1>a, <3>2
    <3>4. last_sent_generation'[o] = generation[p] /\ generation[p] # NoGeneration
          /\ \A q \in Objs : q # o => last_sent_generation'[q] = last_sent_generation[q]
      BY <1>a, <1>g, <3>1, <3>2
    <3>5. OnceInOrder'
      BY <2>s, <1>d, <3>2, <3>3 DEF OnceInOrder
    <3>6. \A q \in Objs : last_sent_generation'[q] # NoGeneration => last_sent_generation'[q] \in delivered[q]
      BY <1>d, <3>1, <3>4
    <3>7. ASSUME NEW q \in Objs, \A r \in Procs : ~(pc'[r] = "mark" /\ self'[r] = q)
          PROVE  \A g \in delivered'[q] : last_sent_generation'[q] # NoGeneration /\ g <= last_sent_generation'[q]
      <4>1. CASE q = o
        BY <1>d, <3>1, <3>2, <3>4, <4>1
      <4>2. CASE q # o
        <5>1. \A r \in Procs : r # p => pc'[r] = pc[r]
          BY <1>a, <3>2
        <5>2. \A r \in Procs : ~(pc[r] = "mark" /\ self[r] = q)
          BY <2>s, <3>7, <4>2, <5>1
        <5> QED
          BY <1>d, <3>2, <3>4, <4>2, <5>2
      <4> QED
        BY <4>1, <4>2
    <3> QED
      BY <1>d, <2>s, <3>2, <3>3, <3>5, <3>6, <3>7, SMTT(30) DEF Deliveries
  <2>8. CASE ClearReader(p)
    BY <1>1, <1>a, <2>s, <2>8 DEF ClearReader
  <2> QED
    BY <1>8, <2>1, <2>2, <2>3, <2>4, <2>5, <2>6, <2>7, <2>8 DEF TrySend
<1>9. ASSUME NEW h \in Handlers, LoadOwner(h) \/ CheckRunning(h) \/ LeaveCallback(h) \/ \E t \in Timers : EnterCallback(h, t)
      PROVE  Kept
    BY <1>a, <1>9 DEF LoadOwner, CheckRunning, LeaveCallback, EnterCallback, quiet, frames
<1>10. ASSUME NEW t \in Timers, Tick(t) \/ PythonTimer(t)
      PROVE  Kept
    BY <1>10 DEF Tick, PythonTimer, locals, frames
<1>11. ASSUME NEW o \in Objs, CallStart(o) \/ CallStop(o) \/ CallDeinit(o)
      PROVE  Kept
    BY <1>a, <1>11 DEF CallStart, CallStop, CallDeinit, Begin, data
<1>12. CASE CallDeinitAll \/ Sweep \/ ConfigureTimer \/ OwnSlot \/ RunTimer \/ ArmTimer
    BY <1>1, <1>a, <1>12 DEF CallDeinitAll, Begin, Sweep, ConfigureTimer, OwnSlot, RunTimer, ArmTimer, data
<1>13. CASE Disown \/ Halt \/ Silence \/ WaitForCallback \/ Release \/ FreeBuffers
    BY <1>1, <1>a, <1>13 DEF Disown, Halt, Silence, WaitForCallback, Release, FreeBuffers, data
<1>14. CASE UNCHANGED vars
    BY <1>1, <1>14 DEF vars, locals, frames
<1> HIDE DEF Goto, Kept, AllowRepeat
<1> QED
    BY <1>1, <1>2, <1>3, <1>4, <1>5, <1>6, <1>7, <1>8, <1>9, <1>10, <1>11, <1>12, <1>13, <1>14, StepCases, Zenon

(* and what update() is about to report.                                   *)
LEMMA ReportsStep ==
    ASSUME TypeOK, Places, Deliveries, Reports, [Next]_vars
    PROVE  Reports'
<1> USE ProcFacts DEF Goto, Required, Requires
<1>a. /\ pc \in [Procs -> Pcs] /\ self \in [Procs -> OrNone(Objs)] /\ sent \in [Procs -> BOOLEAN]
      /\ generation \in [Procs -> Generations] /\ delivered \in [Objs -> SUBSET Generations]
      /\ next_generation \in [Objs -> Generations] /\ NoGeneration \notin Generations
    BY DEF TypeOK, LocalTypes, FrameTypes, Generations, NoGeneration
<1>b. /\ pc[Script] \notin {"idle", "sweep", "return"} => self[Script] \in Objs
      /\ \A o \in Objs : last_sent_generation[o] # NoGeneration => last_sent_generation[o] \in delivered[o]
      /\ pc[Script] = "mark" => generation[Script] \in delivered[self[Script]]
      /\ sent[Script] => /\ pc[Script] \in {"unread", "unlock", "return"}
                         /\ self[Script] \in Objs /\ next_generation[self[Script]] \in delivered[self[Script]]
      /\ pc[Script] \in {"write", "mark"} => generation[Script] = next_generation[self[Script]]
    BY Zenon DEF Places, Deliveries, Reports
<1> DEFINE Kept ==
        /\ UNCHANGED next_generation /\ \A o \in Objs : delivered[o] \subseteq delivered'[o]
        /\ sent'[Script] = sent[Script] /\ generation'[Script] = generation[Script]
        /\ \/ pc'[Script] = pc[Script] /\ self'[Script] = self[Script]
           \/ /\ ~sent[Script] /\ pc'[Script] \notin {"write", "mark"}
<1>1. ASSUME Kept
      PROVE  Reports'
    BY <1>1, <1>b DEF Reports
<1>2. ASSUME NEW o \in Objs, NEW len \in {0, 1}, NEW now \in BOOLEAN, CallUpdate(o, len, now)
      PROVE  Kept
    BY <1>a, <1>b, <1>2 DEF CallUpdate, Begin, elsewhere, frames
<1>3. CASE ChooseBuffer \/ Activate
    BY <1>1, <1>a, <1>b, <1>3 DEF ChooseBuffer, Activate, elsewhere, frames
<1>4. CASE FinishCopy
    BY <1>a, <1>b, <1>4 DEF FinishCopy, elsewhere, Reports
<1>5. CASE AlreadySent(Script)
  <2>1. /\ self[Script] \in Objs /\ pc'[Script] \in {"return", "try"} /\ (sent'[Script] => pc'[Script] = "return")
        /\ sent'[Script] => next_generation[self[Script]] = last_sent_generation[self[Script]]
        /\ UNCHANGED <<self, generation, next_generation, delivered>>
    BY <1>a, <1>b, <1>5 DEF AlreadySent, still, frames
  <2>2. next_generation[self[Script]] # NoGeneration
    BY <1>a, <2>1
  <2> QED
    BY <1>b, <2>1, <2>2 DEF Reports
<1>6. CASE Return
    BY <1>a, <1>b, <1>6 DEF Return, frames, Reports
<1>7. ASSUME NEW p \in Procs, TrySend(p)
      PROVE  Reports'
  <2>s. UNCHANGED <<self, next_generation>>
    BY <1>7, Zenon DEF TrySend, ClaimTx, SkipTx, LoadActive, PublishReader, RecheckActive, CheckFrame, WriteWhole,
                       WriteFails, MarkSent, ClearReader, ReleaseTx, still, frames
  <2>d. \A o \in Objs : delivered[o] \subseteq delivered'[o]
    BY <1>7, <1>a DEF TrySend, ClaimTx, SkipTx, LoadActive, PublishReader, RecheckActive, CheckFrame, WriteWhole,
                      WriteFails, MarkSent, ClearReader, ReleaseTx
  <2>1. CASE p # Script
    <3>1. /\ pc'[Script] = pc[Script] /\ sent'[Script] = sent[Script] /\ generation'[Script] = generation[Script]
      BY <1>7, <1>a, <2>1 DEF TrySend, ClaimTx, SkipTx, LoadActive, PublishReader, RecheckActive, CheckFrame, WriteWhole,
                      WriteFails, MarkSent, ClearReader, ReleaseTx
    <3> QED
      BY <1>1, <2>s, <2>d, <3>1
  <2>2. CASE p = Script /\ ClaimTx(p)
    BY <1>a, <1>b, <2>s, <2>2 DEF ClaimTx, Reports
  <2>3. CASE p = Script /\ SkipTx(p)
    <3>1. /\ self[Script] \in Objs /\ pc'[Script] = "return"
          /\ sent'[Script] => next_generation[self[Script]] = last_sent_generation[self[Script]]
          /\ UNCHANGED <<generation, delivered>>
      BY <1>a, <1>b, <2>3 DEF SkipTx, ReturnPoint
    <3>2. next_generation[self[Script]] # NoGeneration
      BY <1>a, <3>1
    <3> QED
      BY <1>b, <2>s, <3>1, <3>2 DEF Reports
  <2>4. CASE p = Script /\ (LoadActive(p) \/ PublishReader(p) \/ RecheckActive(p) \/ WriteFails(p))
    BY <1>1, <1>a, <1>b, <2>s, <2>d, <2>4 DEF LoadActive, PublishReader, RecheckActive, WriteFails
  <2>5. CASE p = Script /\ CheckFrame(p)
    <3> DEFINE gen == buffer_generation[self[Script]][index[Script]]
    <3>1. /\ self[Script] \in Objs /\ pc'[Script] \in {"write", "unread"} /\ generation'[Script] = gen
          /\ sent'[Script] => pc'[Script] = "unread" /\ gen = next_generation[self[Script]]
                              /\ gen = last_sent_generation[self[Script]]
          /\ pc'[Script] = "write" => gen = next_generation[self[Script]]
          /\ UNCHANGED delivered
      BY <1>a, <1>b, <2>5 DEF CheckFrame
    <3>2. next_generation[self[Script]] # NoGeneration
      BY <1>a, <3>1
    <3> HIDE DEF gen
    <3> QED
      BY <1>b, <2>s, <3>1, <3>2 DEF Reports
  <2>6. CASE p = Script /\ WriteWhole(p)
    BY <1>a, <1>b, <2>s, <2>d, <2>6 DEF WriteWhole, Reports
  <2>7. CASE p = Script /\ MarkSent(p)
    BY <1>a, <1>b, <2>s, <2>7 DEF MarkSent, Reports
  <2>8. CASE p = Script /\ (ClearReader(p) \/ ReleaseTx(p))
    BY <1>a, <1>b, <2>s, <2>8 DEF ClearReader, ReleaseTx, ReturnPoint, Reports
  <2> QED
    BY <1>7, <2>1, <2>2, <2>3, <2>4, <2>5, <2>6, <2>7, <2>8 DEF TrySend
<1>8. ASSUME NEW h \in Handlers, LoadOwner(h) \/ CheckRunning(h) \/ LeaveCallback(h) \/ \E t \in Timers : EnterCallback(h, t)
      PROVE  Kept
    BY <1>a, <1>8 DEF LoadOwner, CheckRunning, LeaveCallback, EnterCallback, quiet, frames
<1>9. ASSUME NEW t \in Timers, Tick(t) \/ PythonTimer(t)
      PROVE  Kept
    BY <1>9 DEF Tick, PythonTimer, locals, frames
<1>10. ASSUME NEW o \in Objs, CallStart(o) \/ CallStop(o) \/ CallDeinit(o)
      PROVE  Kept
    BY <1>a, <1>b, <1>10 DEF CallStart, CallStop, CallDeinit, Begin, data
<1>11. CASE CallDeinitAll \/ Sweep \/ ConfigureTimer \/ OwnSlot \/ RunTimer \/ ArmTimer
    BY <1>1, <1>a, <1>b, <1>11 DEF CallDeinitAll, Begin, Sweep, ConfigureTimer, OwnSlot, RunTimer, ArmTimer, data
<1>12. CASE Disown \/ Halt \/ Silence \/ WaitForCallback \/ Release \/ FreeBuffers
    BY <1>1, <1>a, <1>b, <1>12 DEF Disown, Halt, Silence, WaitForCallback, Release, FreeBuffers, data
<1>13. CASE UNCHANGED vars
    BY <1>1, <1>13 DEF vars, locals, frames
<1> HIDE DEF Goto, Kept, Required, Requires
<1> QED
    BY <1>1, <1>2, <1>3, <1>4, <1>5, <1>6, <1>7, <1>8, <1>9, <1>10, <1>11, <1>12, <1>13, StepCases, Zenon

-----------------------------------------------------------------------------
(* The invariant holds at start.                                           *)
LEMMA InitIInv ==
    ASSUME Init
    PROVE  IInv
<1> USE ProcFacts, BufferFacts DEF Init
<1>1. LocalTypes
  <2>1. NoCall \in Calls
    BY DEF NoCall, Calls
  <2> QED
    BY <2>1, PcFacts DEF LocalTypes, OrNone, Generations, NoReader
<1>2. FrameTypes
    BY DEF FrameTypes, Generations, NoReader
<1>3. HandleTypes
  <2>1. 0 \in 0..Cardinality(Handlers) /\ 0 \in 0..Cardinality(Objs)
    BY CountFacts, FS_EmptySet, Zenon
  <2> QED
    BY <2>1 DEF HandleTypes, OrNone
<1>4. Places
    BY DEF Places, HandlerPcs, Published, Sending, Reading, Teardown, NoCall
<1>5. Claims /\ Slots
    BY DEF Claims, Slots, Teardown
<1>6. Handshake
  <2>1. ASSUME NEW t \in Timers
        PROVE  in_callback[t] = Cardinality({h \in Handlers : arg[h] = t})
    <3>1. {h \in Handlers : arg[h] = t} = {}
      OBVIOUS
    <3>2. in_callback[t] = 0
      OBVIOUS
    <3> QED
      BY <3>1, <3>2, FS_EmptySet, Zenon
  <2>2. pc[Script] = "idle" /\ \A h \in Handlers : self[h] = None
    OBVIOUS
  <2> QED
    BY <2>1, <2>2, Zenon DEF Handshake
<1>7. UsersExact
  <2>1. ASSUME NEW u \in Uarts
        PROVE  /\ users[u] = Cardinality({o \in Objs : uart_claimed[o] /\ UartOf[o] = u})
               /\ {o \in Objs : uart_claimed[o] /\ UartOf[o] = u} = {}
    <3>1. {o \in Objs : uart_claimed[o] /\ UartOf[o] = u} = {}
      OBVIOUS
    <3>2. users[u] = 0
      OBVIOUS
    <3> QED
      BY <3>1, <3>2, FS_EmptySet, Zenon
  <2> QED
    BY <2>1, Zenon DEF UsersExact
<1>8. Senders /\ Swept /\ Readers
    BY DEF Senders, OneSender, Swept, Readers, Published, Reading, Sending, NoCall
<1>9. Frames
    BY DEF Frames
<1>10. Deliveries /\ Reports
    BY DEF Deliveries, OnceInOrder, Reports, NoGeneration
<1> HIDE DEF Init
<1> QED
    BY <1>1, <1>2, <1>3, <1>4, <1>5, <1>6, <1>7, <1>8, <1>9, <1>10 DEF IInv, TypeOK

(* It is inductive.                                                        *)
LEMMA NextIInv ==
    ASSUME IInv, [Next]_vars
    PROVE  IInv'
<1>1. /\ TypeOK /\ Places /\ Claims /\ Slots /\ Handshake /\ UsersExact /\ Senders /\ Swept
      /\ Frames /\ Readers /\ Deliveries /\ Reports
    BY DEF IInv
<1>2. Handshake' /\ UsersExact'
    BY <1>1, HandshakeStep, UsersStep
<1>3. LocalTypes' /\ FrameTypes' /\ HandleTypes'
    BY <1>1, <1>2, LocalStep, FrameStep, HandleStep
<1>4. Places' /\ Claims' /\ Slots' /\ Swept' /\ Senders'
    BY <1>1, PlacesStep, ClaimsStep, SlotsStep, SweptStep, SendersStep
<1>5. Frames' /\ Readers' /\ Deliveries' /\ Reports'
    BY <1>1, FramesStep, ReadersStep, DeliveriesStep, ReportsStep
<1> QED
    BY <1>2, <1>3, <1>4, <1>5 DEF IInv, TypeOK

LEMMA Inductive == Spec => []IInv
<1>1. Init => IInv
    BY InitIInv
<1>2. IInv /\ [Next]_vars => IInv'
    BY NextIInv
<1> QED
    BY <1>1, <1>2, PTL DEF Spec

-----------------------------------------------------------------------------
(* The locals of every call and callback, the buffers and the reservations *)
(* of moduart_periodic_tx.c stay in their ranges; in_callback never counts *)
(* more activations than there are, nor users more than there are objects. *)
THEOREM TypeCorrect == Spec => []TypeOK
<1>1. IInv => TypeOK
    BY DEF IInv
<1> QED
    BY <1>1, Inductive, PTL

(* update() never copies into a buffer that is being written out, and      *)
(* frames leave in the order of the updates, none twice but for            *)
(* repeat_last, whatever the script and the signal handlers interleave.    *)
THEOREM WholeFramesInOrder == Spec => []FramesInOrder
<1>1. IInv => FramesInOrder
    BY DEF IInv, FramesInOrder, FrameIntact, Readers, Deliveries
<1> QED
    BY <1>1, Inductive, PTL

(* update(send_now=True) and is_sent() report a frame as sent only when it *)
(* has left in full, whoever wrote it.                                     *)
THEOREM ReportsAreTrue == Spec => []ReportsTrue
<1>1. ASSUME IInv
      PROVE  SubmittedIsDelivered
    BY <1>1 DEF IInv, Reports, SubmittedIsDelivered
<1>2. ASSUME IInv
      PROVE  IsSentIsDelivered
  <2>1. \A o \in Objs : active_idx[o] \in Buffers /\ \A i \in Buffers : buffer_generation[o][i] \in Generations
    BY <1>2 DEF IInv, TypeOK, FrameTypes
  <2>2. NoGeneration \notin Generations
    BY ProcFacts DEF Generations, NoGeneration
  <2>3. \A o \in Objs : buffer_generation[o][active_idx[o]] # NoGeneration
    BY <2>1, <2>2
  <2> QED
    BY <1>2, <2>3 DEF IInv, Deliveries, IsSentIsDelivered
<1> QED
    BY <1>1, <1>2, Inductive, PTL DEF ReportsTrue

(* While a handler holds an object, its timer, its UART and its buffers    *)
(* are still there: the owner/in_callback handshake of stop_internal.      *)
THEOREM HandshakeHolds == Spec => []HandlerHoldsLiveObject
<1>1. ASSUME IInv
      PROVE  HandlerHoldsLiveObject
  <2>1. \A h \in Handlers : self[h] # None => self[h] \in Objs
    BY <1>1, ProcFacts DEF IInv, TypeOK, LocalTypes, OrNone
  <2> QED
    BY <1>1, <2>1 DEF IInv, HandlerHoldsLiveObject, Handshake, Claims
<1> QED
    BY <1>1, Inductive, PTL

(* A set without two elements has at most one.                             *)
LEMMA AtMostOne ==
    ASSUME NEW S, \A x, y \in S : x = y
    PROVE  Cardinality(S) <= 1
<1>1. CASE S = {}
    BY <1>1, FS_EmptySet
<1>2. CASE S # {}
  <2>1. PICK x \in S : TRUE
    BY <1>2
  <2>2. S = {x}
    BY <2>1
  <2> QED
    BY <2>2, FS_Singleton
<1> QED
    BY <1>1, <1>2

(* A UART has one sender at a time, a hard timer one user, the user counts *)
(* are exact, and after deinit_all nothing ticks, is held or is open.      *)
THEOREM Ownership == Spec => []ResourcesOwned
<1> USE ProcFacts
<1>1. ASSUME IInv
      PROVE  OneTimerUser
  <2> SUFFICES ASSUME NEW t \in Timers
               PROVE  Cardinality({o \in Objs : timer[o] /\ TimerOf[o] = t}) + (IF python_timer[t] THEN 1 ELSE 0) <= 1
    BY DEF OneTimerUser
  <2> DEFINE native == {o \in Objs : timer[o] /\ TimerOf[o] = t}
  <2>1. \A o \in native : timer_claimed[o] /\ ~python_timer[t]
    BY <1>1 DEF IInv, Claims
  <2>2. \A o, q \in native : o = q
    BY <1>1, <2>1 DEF IInv, Claims
  <2>3. IsFiniteSet(native) /\ Cardinality(native) \in Nat
    BY CountFacts, FS_CardinalityType, Zenon
  <2>4. CASE python_timer[t]
    <3>1. native = {}
      BY <2>1, <2>4
    <3>2. Cardinality(native) = 0
      BY <3>1, FS_EmptySet, Zenon
    <3> QED
      BY <2>4, <3>2
  <2>5. CASE ~python_timer[t]
    <3>1. Cardinality(native) <= 1
      BY <2>2, AtMostOne, Zenon
    <3> QED
      BY <2>5, <3>1, <2>3
  <2> QED
    BY <2>4, <2>5
<1>2. ASSUME IInv
      PROVE  SweepSilences
  <2> SUFFICES ASSUME pc[Script] = "return", call.all
               PROVE  /\ \A t \in Timers : ~armed[t] /\ owner[t] = None /\ ~native_claimed[t]
                      /\ \A h \in Handlers : self[h] = None
                      /\ \A u \in Uarts : users[u] = 0
    BY Zenon DEF SweepSilences
  <2>1. \A t \in Timers : active_obj[t] = None
    BY <1>2 DEF IInv, Swept, Teardown
  <2>2. \A o \in Objs : ~timer_claimed[o] /\ ~slot[o] /\ ~uart_claimed[o]
    BY <1>2, <2>1 DEF IInv, Claims, Teardown
  <2>3. \A t \in Timers : ~armed[t] /\ owner[t] = None /\ ~native_claimed[t]
    BY <1>2, <2>1, <2>2 DEF IInv, Claims, Slots, TypeOK, HandleTypes, OrNone
  <2>4. \A h \in Handlers : self[h] = None
    BY <1>2, <2>2 DEF IInv, Handshake, TypeOK, LocalTypes, OrNone
  <2>5. ASSUME NEW u \in Uarts
        PROVE  users[u] = 0
    <3>1. users[u] = Cardinality({o \in Objs : uart_claimed[o] /\ UartOf[o] = u})
      BY <1>2, Zenon DEF IInv, UsersExact
    <3>2. {o \in Objs : uart_claimed[o] /\ UartOf[o] = u} = {}
      BY <2>2
    <3> QED
      BY <3>1, <3>2, FS_EmptySet, Zenon
  <2> QED
    BY <2>3, <2>4, <2>5
<1>3. IInv => OneSender /\ UsersExact
    BY DEF IInv, Senders
<1> QED
    BY <1>1, <1>2, <1>3, Inductive, PTL DEF ResourcesOwned
=============================================================================
