--------------------------- MODULE UartPeriodicTx ---------------------------
(***************************************************************************)
(* port/modules/moduart_periodic_tx.c with the timer reservation of        *)
(* port/machine/machine_timer.c: a script publishes frames into a triple   *)
(* buffer, a hard-timer signal handler transmits them, and both may be     *)
(* inside uart_periodic_tx_try_send at once.                               *)
(*                                                                         *)
(* There is one script process, because every method runs with the GIL     *)
(* held (VmExclusion of MpThread), and a set of handler activations, each  *)
(* able to run for any slot.  Every atomic access of the source that a     *)
(* second process can observe is a step; memory is sequentially            *)
(* consistent.  The statistics counters and last_error are left out: no    *)
(* branch reads them.                                                      *)
(***************************************************************************)
EXTENDS Naturals, FiniteSets

CONSTANTS
    Objs,       \* UARTPeriodicTx objects
    Timers,     \* hard timers, one static slot each
    Uarts,      \* hard UARTs
    Script,     \* the thread that holds the GIL
    Handlers,   \* activations of the timer signal handler
    None,       \* NULL
    TimerOf, UartOf, ConfigOf, RepeatLast,   \* constructor arguments
    MaxGeneration   \* bound on the frames published per object

Procs == {Script} \cup Handlers
Buffers == 0..2           \* UART_PERIODIC_TX_BUFFER_COUNT
NoReader == 3             \* UART_PERIODIC_TX_NO_READER
NoGeneration == MaxGeneration + 1   \* UINT32_MAX, no frame carries it
Generations == 0..MaxGeneration

ASSUME ConstantsAssumption ==
    /\ Script \notin Handlers
    /\ None \notin Objs \cup Timers
    /\ IsFiniteSet(Handlers)
    /\ IsFiniteSet(Objs)
    /\ TimerOf \in [Objs -> Timers]
    /\ UartOf \in [Objs -> Uarts]
    /\ RepeatLast \in [Objs -> BOOLEAN]
    /\ MaxGeneration \in Nat

VARIABLES
    pc, self, index, attempt, generation, sent,   \* locals of each process
    arg,                                          \* the slot a handler was given
    call,                                         \* arguments of the script's call
    buffers, buffer_len, buffer_generation, active_idx, reader_idx,
    next_generation, last_sent_generation, running,
    timer, slot, timer_claimed, uart_claimed,
    owner, in_callback, active_obj, native_claimed, python_timer,
    armed, signal,
    users, config, tx_busy,
    delivered     \* history: the generations written in full

locals == <<pc, self, index, attempt, generation, sent, arg, call>>
frames == <<buffers, buffer_len, buffer_generation, active_idx, next_generation>>
handles == <<timer, slot, timer_claimed, uart_claimed, active_obj, native_claimed>>
uart == <<users, config>>
hardware == <<armed, signal>>
vars == <<locals, frames, reader_idx, last_sent_generation, running, handles,
          owner, in_callback, python_timer, hardware, uart, tx_busy, delivered>>

\* What no step of try_send changes.
still == <<self, arg, call, frames, running, handles, owner, in_callback, python_timer,
           hardware, uart>>

Sending == {"load", "publish", "recheck", "check", "write", "mark", "unread", "unlock"}
Reading == {"check", "write", "mark"}
Teardown == {"disown", "halt", "silence", "wait", "release"}

\* Arguments and loop state of the script's call: no other process reads them.
Calls == [target : Buffers, len : {0, 1}, now : BOOLEAN, free : BOOLEAN,
          all : BOOLEAN, sweep : SUBSET Timers]
NoCall == [target |-> 0, len |-> 0, now |-> FALSE, free |-> FALSE, all |-> FALSE, sweep |-> {}]

Init ==
    /\ pc = [p \in Procs |-> "idle"]
    /\ self = [p \in Procs |-> None]
    /\ index = [p \in Procs |-> NoReader]
    /\ attempt = [p \in Procs |-> 0]
    /\ generation = [p \in Procs |-> 0]
    /\ sent = [p \in Procs |-> FALSE]
    /\ arg = [h \in Handlers |-> None]
    /\ call = NoCall
    /\ buffers = [o \in Objs |-> TRUE]
    /\ buffer_len = [o \in Objs |-> [i \in Buffers |-> 0]]
    /\ buffer_generation = [o \in Objs |-> [i \in Buffers |-> 0]]
    /\ active_idx = [o \in Objs |-> 0]
    /\ reader_idx = [o \in Objs |-> NoReader]
    /\ next_generation = [o \in Objs |-> 0]
    /\ last_sent_generation = [o \in Objs |-> NoGeneration]
    /\ running = [o \in Objs |-> FALSE]
    /\ timer = [o \in Objs |-> FALSE]
    /\ slot = [o \in Objs |-> FALSE]
    /\ timer_claimed = [o \in Objs |-> FALSE]
    /\ uart_claimed = [o \in Objs |-> FALSE]
    /\ owner = [t \in Timers |-> None]
    /\ in_callback = [t \in Timers |-> 0]
    /\ active_obj = [t \in Timers |-> None]
    /\ native_claimed = [t \in Timers |-> FALSE]
    /\ python_timer = [t \in Timers |-> FALSE]
    /\ armed = [t \in Timers |-> FALSE]
    /\ signal = [t \in Timers |-> FALSE]
    /\ users = [u \in Uarts |-> 0]
    /\ config = [u \in Uarts |-> None]
    /\ tx_busy = [u \in Uarts |-> FALSE]
    /\ delivered = [o \in Objs |-> {}]

(***************************************************************************)
(* uart_periodic_tx_try_send: a process p sends for self[p].  The script   *)
(* calls it from update(send_now=True) and requires the generation it has  *)
(* just published; a handler requires none and may repeat.                 *)
(***************************************************************************)
Uart(p) == UartOf[self[p]]
Requires(p) == p = Script
Required(p) == next_generation[self[p]]
AllowRepeat(p) == p # Script /\ RepeatLast[self[p]]

Goto(p, there) == pc' = [pc EXCEPT ![p] = there]
ReturnPoint(p) == IF p = Script THEN "return" ELSE "leave"

\* The generation asked for has left already: nothing to do.
AlreadySent(p) ==
    /\ pc[p] = "already"
    /\ sent' = [sent EXCEPT ![p] = Required(p) = last_sent_generation[self[p]]]
    /\ Goto(p, IF sent'[p] THEN "return" ELSE "try")
    /\ UNCHANGED <<still, index, attempt, generation, reader_idx, last_sent_generation, tx_busy, delivered>>

Mut_ClaimTxUnchecked(p) ==
    /\ pc[p] = "try"
    /\ Goto(p, "load")
    /\ tx_busy' = [tx_busy EXCEPT ![Uart(p)] = TRUE]
    /\ attempt' = [attempt EXCEPT ![p] = 0]
    /\ sent' = [sent EXCEPT ![p] = FALSE]
    /\ UNCHANGED <<still, index, generation, reader_idx, last_sent_generation, delivered>>

\* The exchange of tx_busy: the UART is ours, or this attempt is skipped.
ClaimTx(p) ==
    /\ pc[p] = "try"
    /\ attempt' = [attempt EXCEPT ![p] = 0]
    /\ sent' = [sent EXCEPT ![p] = FALSE]
    /\ IF uart_claimed[self[p]] /\ ~tx_busy[Uart(p)]
         THEN /\ tx_busy' = [tx_busy EXCEPT ![Uart(p)] = TRUE]
              /\ Goto(p, "load")
         ELSE /\ Goto(p, "skip")
              /\ UNCHANGED tx_busy
    /\ UNCHANGED <<still, index, generation, reader_idx, last_sent_generation, delivered>>

\* Somebody else had the UART; the frame may have left with it.
SkipTx(p) ==
    /\ pc[p] = "skip"
    /\ sent' = [sent EXCEPT ![p] = Requires(p) /\ Required(p) = last_sent_generation[self[p]]]
    /\ Goto(p, ReturnPoint(p))
    /\ UNCHANGED <<still, index, attempt, generation, reader_idx, last_sent_generation, tx_busy, delivered>>

LoadActive(p) ==
    /\ pc[p] = "load"
    /\ index' = [index EXCEPT ![p] = active_idx[self[p]]]
    /\ Goto(p, "publish")
    /\ UNCHANGED <<still, attempt, generation, sent, reader_idx, last_sent_generation, tx_busy, delivered>>

PublishReader(p) ==
    /\ pc[p] = "publish"
    /\ reader_idx' = [reader_idx EXCEPT ![self[p]] = index[p]]
    /\ Goto(p, "recheck")
    /\ UNCHANGED <<still, index, attempt, generation, sent, last_sent_generation, tx_busy, delivered>>

Mut_RecheckOnceMore(p) ==
    /\ pc[p] = "recheck"
    /\ \/ /\ index[p] = active_idx[self[p]]
          /\ Goto(p, "check")
          /\ UNCHANGED attempt
       \/ /\ index[p] # active_idx[self[p]]
          /\ attempt' = [attempt EXCEPT ![p] = @ + 1]
          /\ Goto(p, IF attempt[p] < Cardinality(Buffers) THEN "load" ELSE "unread")
    /\ UNCHANGED <<still, index, generation, sent, reader_idx, last_sent_generation, tx_busy, delivered>>

\* The published index is used only if it is still the active one; after
\* three attempts the tick is given up.
RecheckActive(p) ==
    /\ pc[p] = "recheck"
    /\ \/ /\ index[p] = active_idx[self[p]]
          /\ Goto(p, "check")
          /\ UNCHANGED attempt
       \/ /\ index[p] # active_idx[self[p]]
          /\ attempt' = [attempt EXCEPT ![p] = @ + 1]
          /\ Goto(p, IF attempt[p] + 1 < Cardinality(Buffers) THEN "load" ELSE "unread")
    /\ UNCHANGED <<still, index, generation, sent, reader_idx, last_sent_generation, tx_busy, delivered>>

\* Length, generation and last sent generation decide whether to send.
CheckFrame(p) ==
    LET o == self[p]
        gen == buffer_generation[o][index[p]]
        matches == ~Requires(p) \/ gen = Required(p)
        repeated == gen = last_sent_generation[o]
        should == matches /\ buffer_len[o][index[p]] # 0 /\ (AllowRepeat(p) \/ ~repeated)
    IN /\ pc[p] = "check"
       /\ generation' = [generation EXCEPT ![p] = gen]
       /\ sent' = [sent EXCEPT ![p] = ~should /\ Requires(p) /\ matches /\ repeated]
       /\ Goto(p, IF should THEN "write" ELSE "unread")
       /\ UNCHANGED <<still, index, attempt, reader_idx, last_sent_generation, tx_busy, delivered>>

\* write(2) took the whole frame.
WriteWhole(p) ==
    /\ pc[p] = "write"
    /\ delivered' = [delivered EXCEPT ![self[p]] = @ \cup {generation[p]}]
    /\ Goto(p, "mark")
    /\ UNCHANGED <<still, index, attempt, generation, sent, reader_idx, last_sent_generation, tx_busy>>

\* write(2) was short or failed: only a counter moves, the frame stays due.
WriteFails(p) ==
    /\ pc[p] = "write"
    /\ Goto(p, "unread")
    /\ UNCHANGED <<still, index, attempt, generation, sent, reader_idx, last_sent_generation, tx_busy, delivered>>

Mut_MarkNewest(p) ==
    /\ pc[p] = "mark"
    /\ last_sent_generation' = [last_sent_generation EXCEPT ![self[p]] = next_generation[self[p]]]
    /\ sent' = [sent EXCEPT ![p] = TRUE]
    /\ Goto(p, "unread")
    /\ UNCHANGED <<still, index, attempt, generation, reader_idx, tx_busy, delivered>>

MarkSent(p) ==
    /\ pc[p] = "mark"
    /\ last_sent_generation' = [last_sent_generation EXCEPT ![self[p]] = generation[p]]
    /\ sent' = [sent EXCEPT ![p] = TRUE]
    /\ Goto(p, "unread")
    /\ UNCHANGED <<still, index, attempt, generation, reader_idx, tx_busy, delivered>>

ClearReader(p) ==
    /\ pc[p] = "unread"
    /\ reader_idx' = [reader_idx EXCEPT ![self[p]] = NoReader]
    /\ Goto(p, "unlock")
    /\ UNCHANGED <<still, index, attempt, generation, sent, last_sent_generation, tx_busy, delivered>>

Mut_ReleaseTxIfSent(p) ==
    /\ pc[p] = "unlock"
    /\ tx_busy' = [tx_busy EXCEPT ![Uart(p)] = ~sent[p]]
    /\ Goto(p, ReturnPoint(p))
    /\ UNCHANGED <<still, index, attempt, generation, sent, reader_idx, last_sent_generation, delivered>>

ReleaseTx(p) ==
    /\ pc[p] = "unlock"
    /\ tx_busy' = [tx_busy EXCEPT ![Uart(p)] = FALSE]
    /\ Goto(p, ReturnPoint(p))
    /\ UNCHANGED <<still, index, attempt, generation, sent, reader_idx, last_sent_generation, delivered>>

\* One step of try_send, whoever runs it.
TrySend(p) ==
    \/ ClaimTx(p) \/ SkipTx(p) \/ LoadActive(p) \/ PublishReader(p)
    \/ RecheckActive(p) \/ CheckFrame(p) \/ WriteWhole(p) \/ WriteFails(p)
    \/ MarkSent(p) \/ ClearReader(p) \/ ReleaseTx(p)

(***************************************************************************)
(* uart_periodic_tx_callback: the activation h runs for the slot arg[h].   *)
(***************************************************************************)
\* What no step of the callback outside try_send changes.
quiet == <<index, attempt, generation, sent, call, frames, reader_idx, last_sent_generation,
           running, handles, owner, python_timer, armed, uart, tx_busy, delivered>>

EnterCallback(h, t) ==
    /\ pc[h] = "idle"
    /\ signal[t]
    /\ signal' = [signal EXCEPT ![t] = FALSE]
    /\ in_callback' = [in_callback EXCEPT ![t] = @ + 1]
    /\ arg' = [arg EXCEPT ![h] = t]
    /\ Goto(h, "owner")
    /\ UNCHANGED <<quiet, self>>

LoadOwner(h) ==
    /\ pc[h] = "owner"
    /\ self' = [self EXCEPT ![h] = owner[arg[h]]]
    /\ Goto(h, IF owner[arg[h]] = None THEN "leave" ELSE "running")
    /\ UNCHANGED <<quiet, arg, in_callback, signal>>

CheckRunning(h) ==
    /\ pc[h] = "running"
    /\ Goto(h, IF running[self[h]] THEN "try" ELSE "leave")
    /\ UNCHANGED <<quiet, arg, self, in_callback, signal>>

LeaveCallback(h) ==
    /\ pc[h] = "leave"
    /\ in_callback' = [in_callback EXCEPT ![arg[h]] = @ - 1]
    /\ arg' = [arg EXCEPT ![h] = None]
    /\ self' = [self EXCEPT ![h] = None]
    /\ index' = [index EXCEPT ![h] = NoReader]
    /\ attempt' = [attempt EXCEPT ![h] = 0]
    /\ generation' = [generation EXCEPT ![h] = 0]
    /\ sent' = [sent EXCEPT ![h] = FALSE]
    /\ Goto(h, "idle")
    /\ UNCHANGED <<call, frames, reader_idx, last_sent_generation, running, handles, owner,
                   python_timer, hardware, uart, tx_busy, delivered>>

\* The hardware: an armed timer raises its signal, which is delivered later.
Tick(t) ==
    /\ armed[t]
    /\ ~signal[t]
    /\ signal' = [signal EXCEPT ![t] = TRUE]
    /\ UNCHANGED <<locals, frames, reader_idx, last_sent_generation, running, handles, owner,
                   in_callback, python_timer, armed, uart, tx_busy, delivered>>

(***************************************************************************)
(* Calls of the script.                                                    *)
(***************************************************************************)
\* What no step of update, up to try_send, changes.
elsewhere == <<index, attempt, generation, arg, reader_idx, last_sent_generation, running, handles,
               owner, in_callback, python_timer, hardware, uart, tx_busy, delivered>>

Begin(o, there, c) ==
    /\ pc[Script] = "idle"
    /\ self' = [self EXCEPT ![Script] = o]
    /\ call' = c
    /\ Goto(Script, there)

\* update(data, send_now=now), past the checks that raise.
CallUpdate(o, len, now) ==
    /\ buffers[o]
    /\ now => running[o]
    /\ next_generation[o] < MaxGeneration
    /\ Begin(o, "choose", [NoCall EXCEPT !.len = len, !.now = now])
    /\ UNCHANGED <<elsewhere, frames, sent>>

Mut_ChooseBesideActive ==
    LET o == self[Script]
    IN /\ pc[Script] = "choose"
       /\ call' = [call EXCEPT !.target = CHOOSE i \in Buffers \ {active_idx[o]} :
                      \A k \in Buffers \ {active_idx[o]} : i <= k]
       /\ Goto(Script, "copy")
       /\ UNCHANGED <<elsewhere, frames, self, sent>>

\* The first buffer neither active nor published by a sender; the copy into
\* it is under way until FinishCopy.
ChooseBuffer ==
    LET o == self[Script]
        free == Buffers \ {active_idx[o], reader_idx[o]}
    IN /\ pc[Script] = "choose"
       /\ call' = [call EXCEPT !.target = CHOOSE i \in free : \A k \in free : i <= k]
       /\ Goto(Script, "copy")
       /\ UNCHANGED <<elsewhere, frames, self, sent>>

FinishCopy ==
    LET o == self[Script]
    IN /\ pc[Script] = "copy"
       /\ buffer_len' = [buffer_len EXCEPT ![o][call.target] = call.len]
       /\ next_generation' = [next_generation EXCEPT ![o] = @ + 1]
       /\ buffer_generation' = [buffer_generation EXCEPT ![o][call.target] = next_generation[o] + 1]
       /\ Goto(Script, "activate")
       /\ UNCHANGED <<elsewhere, self, sent, call, buffers, active_idx>>

Activate ==
    /\ pc[Script] = "activate"
    /\ active_idx' = [active_idx EXCEPT ![self[Script]] = call.target]
    /\ Goto(Script, IF call.now THEN "already" ELSE "return")
    /\ UNCHANGED <<elsewhere, self, sent, call, buffers, buffer_len, buffer_generation,
                   next_generation>>

Return ==
    /\ pc[Script] = "return"
    /\ Goto(Script, "idle")
    /\ self' = [self EXCEPT ![Script] = None]
    /\ index' = [index EXCEPT ![Script] = NoReader]
    /\ attempt' = [attempt EXCEPT ![Script] = 0]
    /\ generation' = [generation EXCEPT ![Script] = 0]
    /\ sent' = [sent EXCEPT ![Script] = FALSE]
    /\ call' = NoCall
    /\ UNCHANGED <<arg, frames, reader_idx, last_sent_generation, running, handles, owner,
                   in_callback, python_timer, hardware, uart, tx_busy, delivered>>

(***************************************************************************)
(* start(): claim the timer and the UART, configure, own the slot,         *)
(* register, run, arm.  A step that fails continues at stop_internal.      *)
(***************************************************************************)
\* What no step of start and stop changes.
data == <<index, attempt, generation, sent, arg, buffer_generation, active_idx, next_generation,
          last_sent_generation, in_callback, python_timer, signal, delivered>>

AcquireUart(o, result) ==
    LET u == UartOf[o]
    IN \/ /\ result = "ok"
          /\ users[u] = 0 \/ config[u] = ConfigOf[o]
          /\ users' = [users EXCEPT ![u] = @ + 1]
          /\ config' = [config EXCEPT ![u] = ConfigOf[o]]
          /\ tx_busy' = [tx_busy EXCEPT ![u] = users[u] > 0 /\ @]
          /\ uart_claimed' = [uart_claimed EXCEPT ![o] = TRUE]
       \/ /\ result = "failed"
          /\ users[u] = 0 \/ config[u] # ConfigOf[o]
          /\ UNCHANGED <<uart, tx_busy, uart_claimed>>

\* machine_timer_native_claim, then uart_periodic_tx_uart_acquire.
CallStart(o) ==
    /\ buffers[o]
    /\ ~timer[o]
    /\ ~native_claimed[TimerOf[o]]
    /\ ~python_timer[TimerOf[o]]
    /\ native_claimed' = [native_claimed EXCEPT ![TimerOf[o]] = TRUE]
    /\ timer_claimed' = [timer_claimed EXCEPT ![o] = TRUE]
    /\ \E result \in {"ok", "failed"} :
          /\ AcquireUart(o, result)
          /\ Begin(o, IF result = "ok" THEN "configure" ELSE "disown", NoCall)
    /\ UNCHANGED <<data, buffers, buffer_len, reader_idx, running, timer, slot, owner,
                   active_obj, armed>>

\* The driver may refuse to create the timer, or to configure a created one.
ConfigureTimer ==
    /\ pc[Script] = "configure"
    /\ \E created, set \in BOOLEAN :
          /\ set => created
          /\ timer' = [timer EXCEPT ![self[Script]] = created]
          /\ Goto(Script, IF set THEN "own" ELSE "disown")
    /\ UNCHANGED <<data, self, call, buffers, buffer_len, reader_idx, running, slot, timer_claimed,
                   uart_claimed, active_obj, native_claimed, owner, armed, uart, tx_busy>>

OwnSlot ==
    /\ pc[Script] = "own"
    /\ slot' = [slot EXCEPT ![self[Script]] = TRUE]
    /\ owner' = [owner EXCEPT ![TimerOf[self[Script]]] = self[Script]]
    /\ \E registered \in BOOLEAN : Goto(Script, IF registered THEN "run" ELSE "disown")
    /\ UNCHANGED <<data, self, call, buffers, buffer_len, reader_idx, running, timer, timer_claimed,
                   uart_claimed, active_obj, native_claimed, armed, uart, tx_busy>>

RunTimer ==
    /\ pc[Script] = "run"
    /\ active_obj' = [active_obj EXCEPT ![TimerOf[self[Script]]] = self[Script]]
    /\ running' = [running EXCEPT ![self[Script]] = TRUE]
    /\ Goto(Script, "arm")
    /\ UNCHANGED <<data, self, call, buffers, buffer_len, reader_idx, timer, slot, timer_claimed,
                   uart_claimed, native_claimed, owner, armed, uart, tx_busy>>

ArmTimer ==
    /\ pc[Script] = "arm"
    /\ \E started \in BOOLEAN :
          /\ armed' = [armed EXCEPT ![TimerOf[self[Script]]] = started]
          /\ Goto(Script, IF started THEN "return" ELSE "disown")
    /\ UNCHANGED <<data, self, call, buffers, buffer_len, reader_idx, running, handles, owner, uart,
                   tx_busy>>

(***************************************************************************)
(* stop_internal, deinit_internal and deinit_all.                          *)
(***************************************************************************)
CallStop(o) ==
    /\ Begin(o, "disown", NoCall)
    /\ UNCHANGED <<data, buffers, buffer_len, reader_idx, running, handles, owner, armed, uart, tx_busy>>

\* deinit() and the finaliser.
CallDeinit(o) ==
    /\ Begin(o, "disown", [NoCall EXCEPT !.free = TRUE])
    /\ UNCHANGED <<data, buffers, buffer_len, reader_idx, running, handles, owner, armed, uart, tx_busy>>

CallDeinitAll ==
    /\ Begin(None, "sweep", [NoCall EXCEPT !.free = TRUE, !.all = TRUE, !.sweep = Timers])
    /\ UNCHANGED <<data, buffers, buffer_len, reader_idx, running, handles, owner, armed, uart, tx_busy>>

\* One turn of the loop over uart_periodic_tx_active_obj.
Sweep ==
    /\ pc[Script] = "sweep"
    /\ \/ /\ call.sweep = {}
          /\ Goto(Script, "return")
          /\ UNCHANGED <<self, call>>
       \/ \E t \in call.sweep :
             /\ call' = [call EXCEPT !.sweep = @ \ {t}]
             /\ self' = [self EXCEPT ![Script] = active_obj[t]]
             /\ Goto(Script, IF active_obj[t] = None THEN "sweep" ELSE "disown")
    /\ UNCHANGED <<data, buffers, buffer_len, reader_idx, running, handles, owner, armed, uart, tx_busy>>

Disown ==
    /\ pc[Script] = "disown"
    /\ owner' = [owner EXCEPT ![TimerOf[self[Script]]] = IF slot[self[Script]] THEN None ELSE @]
    /\ Goto(Script, "halt")
    /\ UNCHANGED <<data, self, call, buffers, buffer_len, reader_idx, running, handles, armed, uart,
                   tx_busy>>

Halt ==
    /\ pc[Script] = "halt"
    /\ running' = [running EXCEPT ![self[Script]] = FALSE]
    /\ Goto(Script, IF timer[self[Script]] THEN "silence" ELSE "release")
    /\ UNCHANGED <<data, self, call, buffers, buffer_len, reader_idx, handles, owner, armed, uart,
                   tx_busy>>

\* drv_hard_timer_stop and drv_hard_timer_unregister_irq; a signal already
\* raised stays on its way.
Silence ==
    /\ pc[Script] = "silence"
    /\ armed' = [armed EXCEPT ![TimerOf[self[Script]]] = FALSE]
    /\ Goto(Script, IF slot[self[Script]] THEN "wait" ELSE "release")
    /\ UNCHANGED <<data, self, call, buffers, buffer_len, reader_idx, running, handles, owner, uart,
                   tx_busy>>

Mut_WaitForNobody ==
    /\ pc[Script] = "wait"
    /\ Goto(Script, "release")
    /\ UNCHANGED <<data, self, call, buffers, buffer_len, reader_idx, running, handles, owner, armed,
                   uart, tx_busy>>

\* The busy wait for the handlers of this slot.
WaitForCallback ==
    /\ pc[Script] = "wait"
    /\ in_callback[TimerOf[self[Script]]] = 0
    /\ Goto(Script, "release")
    /\ UNCHANGED <<data, self, call, buffers, buffer_len, reader_idx, running, handles, owner, armed,
                   uart, tx_busy>>

\* uart_periodic_tx_uart_release: the last user closes the UART.
ReleaseUart(o) ==
    LET u == UartOf[o]
        left == IF users[u] = 0 THEN 0 ELSE users[u] - 1
    IN IF uart_claimed[o]
         THEN /\ users' = [users EXCEPT ![u] = left]
              /\ tx_busy' = [tx_busy EXCEPT ![u] = left > 0 /\ @]
              /\ config' = [config EXCEPT ![u] = IF left = 0 THEN None ELSE @]
         ELSE UNCHANGED <<uart, tx_busy>>

\* The rest of stop_internal: destroy the timer, drop both reservations.
Release ==
    LET o == self[Script]
        t == TimerOf[o]
    IN /\ pc[Script] = "release"
       /\ timer' = [timer EXCEPT ![o] = FALSE]
       /\ active_obj' = [active_obj EXCEPT ![t] = IF @ = o THEN None ELSE @]
       /\ native_claimed' = [native_claimed EXCEPT ![t] = ~timer_claimed[o] /\ @]
       /\ timer_claimed' = [timer_claimed EXCEPT ![o] = FALSE]
       /\ ReleaseUart(o)
       /\ uart_claimed' = [uart_claimed EXCEPT ![o] = FALSE]
       /\ slot' = [slot EXCEPT ![o] = FALSE]
       /\ reader_idx' = [reader_idx EXCEPT ![o] = NoReader]
       /\ Goto(Script, IF call.free THEN "free" ELSE "return")
       /\ UNCHANGED <<data, self, call, buffers, buffer_len, running, owner, armed>>

FreeBuffers ==
    LET o == self[Script]
    IN /\ pc[Script] = "free"
       /\ buffers' = [buffers EXCEPT ![o] = FALSE]
       /\ buffer_len' = [buffer_len EXCEPT ![o] = [i \in Buffers |-> 0]]
       /\ Goto(Script, IF call.all THEN "sweep" ELSE "return")
       /\ UNCHANGED <<data, self, call, reader_idx, running, handles, owner, armed, uart, tx_busy>>

\* machine.Timer(t) and its deinit() share the hard timers.
PythonTimer(t) ==
    /\ pc[Script] = "idle"
    /\ \/ /\ ~python_timer[t]
          /\ ~native_claimed[t]
          /\ python_timer' = [python_timer EXCEPT ![t] = TRUE]
       \/ /\ python_timer[t]
          /\ python_timer' = [python_timer EXCEPT ![t] = FALSE]
    /\ UNCHANGED <<locals, frames, reader_idx, last_sent_generation, running, handles, owner,
                   in_callback, hardware, uart, tx_busy, delivered>>

-----------------------------------------------------------------------------
NewCall ==
    \/ \E o \in Objs, len \in {0, 1}, now \in BOOLEAN : CallUpdate(o, len, now)
    \/ \E o \in Objs : CallStart(o) \/ CallStop(o) \/ CallDeinit(o)
    \/ CallDeinitAll
    \/ \E t \in Timers : PythonTimer(t)

ScriptStep ==
    \/ ChooseBuffer \/ FinishCopy \/ Activate \/ AlreadySent(Script) \/ TrySend(Script) \/ Return
    \/ ConfigureTimer \/ OwnSlot \/ RunTimer \/ ArmTimer
    \/ Sweep \/ Disown \/ Halt \/ Silence \/ WaitForCallback \/ Release \/ FreeBuffers

HandlerStep(h) == LoadOwner(h) \/ CheckRunning(h) \/ TrySend(h) \/ LeaveCallback(h)

Next ==
    \/ NewCall
    \/ ScriptStep
    \/ \E h \in Handlers : HandlerStep(h)
    \/ \E h \in Handlers, t \in Timers : EnterCallback(h, t)
    \/ \E t \in Timers : Tick(t)

Spec == Init /\ [][Next]_vars

\* A call in progress goes on, a delivered signal runs to its end, an armed
\* timer ticks, and a write is not refused for ever.
Fairness ==
    /\ WF_vars(ScriptStep)
    /\ \A h \in Handlers : WF_vars(HandlerStep(h)) /\ SF_vars(WriteWhole(h))
    /\ \A t \in Timers : WF_vars(Tick(t)) /\ WF_vars(\E h \in Handlers : EnterCallback(h, t))

FairSpec == Spec /\ Fairness

-----------------------------------------------------------------------------
OrNone(S) == S \cup {None}

Pcs == {"idle", "owner", "running", "leave", "already", "try", "skip", "choose", "copy", "activate", "return",
        "configure", "own", "run", "arm", "sweep", "free"} \cup Sending \cup Teardown

\* The locals of the processes.
LocalTypes ==
    /\ pc \in [Procs -> Pcs]
    /\ self \in [Procs -> OrNone(Objs)]
    /\ index \in [Procs -> Buffers \cup {NoReader}]
    /\ attempt \in [Procs -> 0..3]
    /\ generation \in [Procs -> Generations]
    /\ sent \in [Procs -> BOOLEAN]
    /\ arg \in [Handlers -> OrNone(Timers)]
    /\ call \in Calls

\* The triple buffers and what has left them.
FrameTypes ==
    /\ buffer_len \in [Objs -> [Buffers -> {0, 1}]]
    /\ buffer_generation \in [Objs -> [Buffers -> Generations]]
    /\ active_idx \in [Objs -> Buffers]
    /\ reader_idx \in [Objs -> Buffers \cup {NoReader}]
    /\ next_generation \in [Objs -> Generations]
    /\ last_sent_generation \in [Objs -> Generations \cup {NoGeneration}]
    /\ delivered \in [Objs -> SUBSET Generations]

\* The reservations and the hardware.
HandleTypes ==
    /\ buffers \in [Objs -> BOOLEAN]
    /\ running \in [Objs -> BOOLEAN]
    /\ timer \in [Objs -> BOOLEAN]
    /\ slot \in [Objs -> BOOLEAN]
    /\ timer_claimed \in [Objs -> BOOLEAN]
    /\ uart_claimed \in [Objs -> BOOLEAN]
    /\ owner \in [Timers -> OrNone(Objs)]
    /\ active_obj \in [Timers -> OrNone(Objs)]
    /\ native_claimed \in [Timers -> BOOLEAN]
    /\ python_timer \in [Timers -> BOOLEAN]
    /\ armed \in [Timers -> BOOLEAN]
    /\ signal \in [Timers -> BOOLEAN]
    /\ in_callback \in [Timers -> 0..Cardinality(Handlers)]
    /\ users \in [Uarts -> 0..Cardinality(Objs)]
    /\ tx_busy \in [Uarts -> BOOLEAN]

TypeOK == LocalTypes /\ FrameTypes /\ HandleTypes

\* update() never copies into a buffer that a sender has decided to write
\* out: "update() only writes a buffer that is neither active nor being read
\* by a sender" (lines 180-181 and 481-489).
FrameIntact ==
    pc[Script] = "copy" =>
        \A p \in Procs : pc[p] \in Reading /\ self[p] = self[Script] => index[p] # call.target

\* At most one process is between the tx_busy exchange and its release on
\* one UART, through every start and stop that resets the flag.
OneSender ==
    \A p, q \in Procs :
        p # q /\ pc[p] \in Sending /\ pc[q] \in Sending => Uart(p) # Uart(q)

\* While a handler holds an object, stop has not destroyed its timer, given
\* up its UART or freed its buffers: the owner/in_callback handshake.
HandlerHoldsLiveObject ==
    \A h \in Handlers :
        self[h] # None => timer[self[h]] /\ uart_claimed[self[h]] /\ buffers[self[h]]

\* A hard timer has one user: one started transmitter or a machine.Timer.
OneTimerUser ==
    \A t \in Timers :
        LET native == {o \in Objs : timer[o] /\ TimerOf[o] = t}
        IN Cardinality(native) + (IF python_timer[t] THEN 1 ELSE 0) <= 1

\* The user count of a UART is the number of objects that claimed it, all
\* of which were opened with the configuration in force.
UsersExact ==
    \A u \in Uarts :
        LET claims == {o \in Objs : uart_claimed[o] /\ UartOf[o] = u}
        IN /\ users[u] = Cardinality(claims)
           /\ \A o \in claims : config[u] = ConfigOf[o]

\* update(send_now=True) returns True only for a frame written in full.
SubmittedIsDelivered ==
    pc[Script] = "return" /\ sent[Script] => Required(Script) \in delivered[self[Script]]

\* is_sent() is True only when the latest packet was written in full.
IsSentIsDelivered ==
    \A o \in Objs :
        buffer_len[o][active_idx[o]] # 0 /\ buffer_generation[o][active_idx[o]] = last_sent_generation[o]
            => last_sent_generation[o] \in delivered[o]

\* Python is told that a frame was sent, by update(send_now=True) or by
\* is_sent(), only when it left the UART in full, whoever wrote it.
ReportsTrue == SubmittedIsDelivered /\ IsSentIsDelivered

\* Frames leave in the order of the updates, and without repeat_last, or
\* from send_now, none leaves twice.
OnceInOrder ==
    \A p \in Procs : pc[p] = "write" =>
        \A g \in delivered[self[p]] :
            g < generation[p] \/ (AllowRepeat(p) /\ g = generation[p])

\* What leaves a UART is the sequence of updates: whole frames, in order.
FramesInOrder == FrameIntact /\ OnceInOrder

\* When deinit_all returns, no timer is armed, no slot has an owner, no
\* handler holds an object and every UART is closed.
SweepSilences ==
    pc[Script] = "return" /\ call.all =>
        /\ \A t \in Timers : ~armed[t] /\ owner[t] = None /\ ~native_claimed[t]
        /\ \A h \in Handlers : self[h] = None
        /\ \A u \in Uarts : users[u] = 0

\* Timers and UARTs are owned as their records say through every start that
\* fails half way, stop, collection and sweep.
ResourcesOwned == OneSender /\ OneTimerUser /\ UsersExact /\ SweepSilences

\* stop() comes back: the busy wait on in_callback ends.
StopReturns == (pc[Script] = "wait") ~> (pc[Script] # "wait")

\* A non-empty frame that is not replaced leaves the UART while the
\* transmitter keeps running: "retain the frame for a later timer tick".
FrameLeaves ==
    \A o \in Objs, g \in 1..MaxGeneration :
        (running[o] /\ buffer_generation[o][active_idx[o]] = g /\ buffer_len[o][active_idx[o]] # 0)
            ~> (g \in delivered[o] \/ ~running[o] \/ next_generation[o] # g)

\* Neither side waits for the other for ever: a stop ends, and a frame that
\* lost tx_busy or its buffer once is sent at a later tick.
TransmitterProgresses == StopReturns /\ FrameLeaves
=============================================================================
