---------------------------- MODULE MachineTimer ----------------------------
(***************************************************************************)
(* port/machine/machine_timer.c: one machine.Timer object.  The script     *)
(* (re)configures it, a signal handler turns its ticks into callbacks,     *)
(* directly (hard=True) or through MicroPython's scheduler (hard=False).   *)
(* A handler runs on whatever thread takes the signal, so it interleaves   *)
(* with the script: that is why the code uses generation counters, an      *)
(* active flag and a compare-and-exchange on `scheduled`.                  *)
(*                                                                         *)
(* init() and deinit() count configurations with `generation`; the         *)
(* callback of a configuration is represented by its generation, 0 being   *)
(* mp_const_none.  The scheduler (mp_sched_schedule, run at a bytecode     *)
(* boundary) and mp_irq_handler belong to MicroPython and are external.    *)
(***************************************************************************)
EXTENDS Naturals, FiniteSets

CONSTANTS
    Handlers,       \* activations of the signal handler
    MaxGeneration,  \* bound on the number of configurations
    Settings,       \* the [mode, hard] arguments scripts pass to init
    QueueMayFill    \* can other users fill the scheduler's queue?

Modes == {"ONESHOT", "PERIOD"}
None == 0
Generations == 0..MaxGeneration

ASSUME ConstantsAssumption ==
    /\ MaxGeneration \in Nat
    /\ Settings \subseteq [mode : Modes, hard : BOOLEAN]
    /\ Settings # {}
    /\ QueueMayFill \in BOOLEAN

VARIABLES
    pc,                       \* where the script is, inside which call
    setting,                  \* arguments of the init in progress
    inst, armed, signal,      \* driver instance, its hardware, a raised signal
    mode, callback,           \* fields only the script reads
    active, generation, scheduled, scheduled_generation,
    irq_obj, irq_handler, ishard,    \* the registered IRQ object
    queue,                    \* the entry in the scheduler's queue
    event, loaded,            \* the event the VM runs, its scheduled_generation
    hpc, captured, called,  \* locals of each handler
    exiting,
    ran                       \* history: the callbacks that ran

script == <<pc, setting, event, loaded>>
driver == <<inst, armed, signal>>
irq == <<irq_obj, irq_handler, ishard>>
flags == <<active, generation, scheduled, scheduled_generation>>
handlers == <<hpc, captured, called>>
vars == <<script, driver, mode, callback, flags, irq, queue, handlers, exiting, ran>>

\* An event is the generation its handler captured.
NoEvent == 0

Init ==
    /\ pc = "idle"
    /\ setting = CHOOSE s \in Settings : TRUE
    /\ inst = TRUE /\ armed = FALSE /\ signal = FALSE
    /\ mode = "ONESHOT" /\ callback = None
    /\ active = FALSE /\ generation = 0
    /\ scheduled = FALSE /\ scheduled_generation = 0
    /\ irq_obj = FALSE /\ irq_handler = None /\ ishard = FALSE
    /\ queue = {} /\ event = NoEvent /\ loaded = 0
    /\ hpc = [h \in Handlers |-> "idle"]
    /\ captured = [h \in Handlers |-> 0]
    /\ called = [h \in Handlers |-> None]
    /\ exiting = FALSE
    /\ ran = {}

(***************************************************************************)
(* The script: init() and deinit().                                        *)
(***************************************************************************)
\* What no step of init and deinit changes.
beside == <<event, loaded, scheduled, scheduled_generation, queue, handlers, exiting, ran>>

CallInit ==
    /\ pc = "idle"
    /\ inst
    /\ generation + 2 < MaxGeneration    \* room for a failed start and a deinit
    /\ \E s \in Settings : setting' = s
    /\ active' = FALSE
    /\ pc' = "bump"
    /\ UNCHANGED <<beside, driver, mode, callback, generation, irq>>

Mut_BumpTwice ==
    /\ pc \in {"bump", "deinit", "undo"}
    /\ generation' = generation + (IF pc = "deinit" THEN 2 ELSE 1)
    /\ pc' = CASE pc = "bump" -> "stop"
               [] pc = "deinit" -> "forget"
               [] pc = "undo" -> "idle"
    /\ UNCHANGED <<beside, setting, driver, mode, callback, active, irq>>

\* The second half of machine_timer_invalidate_callback.
BumpGeneration ==
    /\ pc \in {"bump", "deinit", "undo"}
    /\ generation' = generation + 1
    /\ pc' = CASE pc = "bump" -> "stop"
               [] pc = "deinit" -> "forget"
               [] pc = "undo" -> "idle"
    /\ UNCHANGED <<beside, setting, driver, mode, callback, active, irq>>

StopTimer ==
    /\ pc = "stop"
    /\ armed' = FALSE
    /\ mode' = setting.mode
    /\ callback' = generation
    /\ pc' = "handler"
    /\ UNCHANGED <<beside, setting, inst, signal, active, generation, irq>>

SetIrqHandler ==
    /\ pc = "handler"
    /\ irq_obj' = TRUE
    /\ irq_handler' = generation
    /\ pc' = "ishard"
    /\ UNCHANGED <<beside, setting, driver, mode, callback, active, generation, ishard>>

\* Then the driver's set_mode, set_period and register_irq, each of which may
\* fail and raise.
SetIrqHard ==
    /\ pc = "ishard"
    /\ ishard' = setting.hard
    /\ pc' \in {"start", "idle"}
    /\ UNCHANGED <<beside, setting, driver, mode, callback, active, generation, irq_obj, irq_handler>>

\* A start that fails invalidates once more: active first, then the bump.
StartTimer ==
    /\ pc = "start"
    /\ \/ armed' = TRUE /\ pc' = "activate"
       \/ armed' = FALSE /\ pc' = "undo"
    /\ UNCHANGED <<beside, setting, inst, signal, mode, callback, active, generation, irq>>

SetActive ==
    /\ pc = "activate"
    /\ active' = TRUE
    /\ pc' = "idle"
    /\ UNCHANGED <<beside, setting, driver, mode, callback, generation, irq>>

\* deinit() and the finaliser; a second one finds no instance.
CallDeinit ==
    /\ pc = "idle"
    /\ generation < MaxGeneration
    /\ active' = FALSE
    /\ pc' = "deinit"
    /\ UNCHANGED <<beside, setting, driver, mode, callback, generation, irq>>

ForgetCallback ==
    /\ pc = "forget"
    /\ callback' = None
    /\ irq_handler' = IF inst THEN None ELSE irq_handler
    /\ pc' = IF inst THEN "unhook" ELSE "idle"
    /\ UNCHANGED <<beside, setting, driver, mode, active, generation, irq_obj, ishard>>

Unhook ==
    /\ pc = "unhook"
    /\ irq_obj' = FALSE
    /\ pc' = "destroy"
    /\ UNCHANGED <<beside, setting, driver, mode, callback, active, generation, irq_handler, ishard>>

DestroyTimer ==
    /\ pc = "destroy"
    /\ armed' = FALSE
    /\ inst' = FALSE
    /\ pc' = "idle"
    /\ UNCHANGED <<beside, setting, signal, mode, callback, active, generation, irq>>

(***************************************************************************)
(* machine_timer_scheduled_callback, run by the VM between two bytecodes.  *)
(***************************************************************************)
\* What no step of the scheduled callback changes.
apart == <<setting, driver, mode, callback, active, generation, irq, handlers, exiting>>

RunScheduled ==
    /\ pc = "idle"
    /\ queue # {}
    /\ \E e \in queue : event' = e /\ queue' = queue \ {e}
    /\ loaded' = scheduled_generation
    /\ pc' = "unschedule"
    /\ UNCHANGED <<apart, scheduled, scheduled_generation, ran>>

Mut_StayScheduled ==
    /\ pc = "unschedule"
    /\ pc' = "check"
    /\ UNCHANGED <<apart, event, loaded, scheduled, scheduled_generation, queue, ran>>

Unschedule ==
    /\ pc = "unschedule"
    /\ scheduled' = FALSE
    /\ pc' = "check"
    /\ UNCHANGED <<apart, event, loaded, scheduled_generation, queue, ran>>

Mut_CheckActiveOnly ==
    /\ pc = "check"
    /\ IF ~exiting /\ active /\ callback # None
         THEN pc' = "called" /\ ran' = ran \cup {callback}
         ELSE pc' = "idle" /\ UNCHANGED ran
    /\ UNCHANGED <<apart, event, loaded, scheduled, scheduled_generation, queue>>

\* The event is dropped unless it belongs to the configuration in force.
CheckScheduled ==
    /\ pc = "check"
    /\ IF ~exiting /\ active /\ loaded = generation /\ callback # None
         THEN pc' = "called" /\ ran' = ran \cup {callback}
         ELSE pc' = "idle" /\ UNCHANGED ran
    /\ UNCHANGED <<apart, event, loaded, scheduled, scheduled_generation, queue>>

\* The Python callback is ordinary script code from here on.
CallbackReturns ==
    /\ pc = "called"
    /\ pc' = "idle"
    /\ event' = NoEvent
    /\ UNCHANGED <<apart, loaded, scheduled, scheduled_generation, queue, ran>>

(***************************************************************************)
(* machine_timer_handler and machine_timer_schedule_callback.              *)
(***************************************************************************)
\* What no step of a handler changes.
around == <<script, inst, armed, mode, callback, active, generation, irq, exiting>>
HGoto(h, there) == hpc' = [hpc EXCEPT ![h] = there]

EnterHandler(h) ==
    /\ hpc[h] = "idle"
    /\ signal
    /\ signal' = FALSE
    /\ HGoto(h, "active")
    /\ UNCHANGED <<around, captured, called, scheduled, scheduled_generation, queue, ran>>

CheckActive(h) ==
    /\ hpc[h] = "active"
    /\ HGoto(h, IF ~exiting /\ active THEN "irq" ELSE "idle")
    /\ UNCHANGED <<around, signal, captured, called, scheduled, scheduled_generation, queue, ran>>

LoadIrq(h) ==
    /\ hpc[h] = "irq"
    /\ HGoto(h, IF irq_obj THEN "ishard" ELSE "idle")
    /\ UNCHANGED <<around, signal, captured, called, scheduled, scheduled_generation, queue, ran>>

LoadHard(h) ==
    /\ hpc[h] = "ishard"
    /\ HGoto(h, IF ishard THEN "hard" ELSE "generation")
    /\ UNCHANGED <<around, signal, captured, called, scheduled, scheduled_generation, queue, ran>>

\* mp_irq_handler calls the handler the IRQ object holds by now.
CallHard(h) ==
    /\ hpc[h] = "hard"
    /\ called' = [called EXCEPT ![h] = irq_handler]
    /\ ran' = ran \cup ({irq_handler} \ {None})
    /\ HGoto(h, IF irq_handler = None THEN "idle" ELSE "calling")
    /\ UNCHANGED <<around, signal, captured, scheduled, scheduled_generation, queue>>

HardReturns(h) ==
    /\ hpc[h] = "calling"
    /\ called' = [called EXCEPT ![h] = None]
    /\ HGoto(h, "idle")
    /\ UNCHANGED <<around, signal, captured, scheduled, scheduled_generation, queue, ran>>

LoadGeneration(h) ==
    /\ hpc[h] = "generation"
    /\ captured' = [captured EXCEPT ![h] = generation]
    /\ HGoto(h, "active2")
    /\ UNCHANGED <<around, signal, called, scheduled, scheduled_generation, queue, ran>>

CheckActiveAgain(h) ==
    /\ hpc[h] \in {"active2", "active3"}
    /\ HGoto(h, IF hpc[h] = "active2" THEN (IF active THEN "claim" ELSE "idle")
                                      ELSE (IF active THEN "same" ELSE "unclaim"))
    /\ UNCHANGED <<around, signal, captured, called, scheduled, scheduled_generation, queue, ran>>

\* The compare-and-exchange: one pending event per timer.
ClaimSchedule(h) ==
    /\ hpc[h] = "claim"
    /\ scheduled' = TRUE
    /\ HGoto(h, IF scheduled THEN "idle" ELSE "active3")
    /\ UNCHANGED <<around, signal, captured, called, scheduled_generation, queue, ran>>

CheckSameGeneration(h) ==
    /\ hpc[h] = "same"
    /\ HGoto(h, IF captured[h] = generation THEN "store" ELSE "unclaim")
    /\ UNCHANGED <<around, signal, captured, called, scheduled, scheduled_generation, queue, ran>>

StoreGeneration(h) ==
    /\ hpc[h] = "store"
    /\ scheduled_generation' = captured[h]
    /\ HGoto(h, "schedule")
    /\ UNCHANGED <<around, signal, captured, called, scheduled, queue, ran>>

\* mp_sched_schedule queues the event, or finds the queue full.
Schedule(h) ==
    /\ hpc[h] = "schedule"
    /\ queue' = queue \cup {captured[h]}
    /\ HGoto(h, "idle")
    /\ UNCHANGED <<around, signal, captured, called, scheduled, scheduled_generation, ran>>

ScheduleFails(h) ==
    /\ hpc[h] = "schedule"
    /\ QueueMayFill
    /\ HGoto(h, "unclaim")
    /\ UNCHANGED <<around, signal, captured, called, scheduled, scheduled_generation, queue, ran>>

Mut_KeepClaim(h) ==
    /\ hpc[h] = "unclaim"
    /\ HGoto(h, "idle")
    /\ UNCHANGED <<around, signal, captured, called, scheduled, scheduled_generation, queue, ran>>

Unclaim(h) ==
    /\ hpc[h] = "unclaim"
    /\ scheduled' = FALSE
    /\ HGoto(h, "idle")
    /\ UNCHANGED <<around, signal, captured, called, scheduled_generation, queue, ran>>

\* The hardware: an armed timer raises its signal; a one-shot timer once.
Tick ==
    /\ armed
    /\ ~signal
    /\ signal' = TRUE
    /\ armed' = (mode = "PERIOD")
    /\ UNCHANGED <<script, inst, mode, callback, flags, irq, queue, handlers, exiting, ran>>

\* system_set_exiting_flag: the IDE task quiets the callbacks of the program
\* it interrupts; the main thread lets them run when an IDE script starts.
SetExitingFlag ==
    /\ exiting' = ~exiting
    /\ UNCHANGED <<script, driver, mode, callback, flags, irq, queue, handlers, ran>>

-----------------------------------------------------------------------------
InitStep == BumpGeneration \/ StopTimer \/ SetIrqHandler \/ SetIrqHard \/ StartTimer \/ SetActive
DeinitStep == ForgetCallback \/ Unhook \/ DestroyTimer
ScheduledStep == RunScheduled \/ Unschedule \/ CheckScheduled \/ CallbackReturns
HandlerStep(h) ==
    \/ CheckActive(h) \/ LoadIrq(h) \/ LoadHard(h) \/ CallHard(h) \/ HardReturns(h)
    \/ LoadGeneration(h) \/ CheckActiveAgain(h) \/ ClaimSchedule(h) \/ CheckSameGeneration(h)
    \/ StoreGeneration(h) \/ Schedule(h) \/ ScheduleFails(h) \/ Unclaim(h)

Next ==
    \/ CallInit \/ CallDeinit \/ InitStep \/ DeinitStep \/ ScheduledStep
    \/ \E h \in Handlers : EnterHandler(h) \/ HandlerStep(h)
    \/ Tick \/ SetExitingFlag

Spec == Init /\ [][Next]_vars

\* A call goes on, the VM reaches its next bytecode boundary, an armed timer
\* ticks, its signal is taken, and the scheduler's queue is not always full.
FairSpec ==
    /\ Spec
    /\ WF_vars(InitStep \/ DeinitStep)
    /\ WF_vars(ScheduledStep)
    /\ \A h \in Handlers : WF_vars(HandlerStep(h)) /\ SF_vars(Schedule(h))
    /\ WF_vars(Tick) /\ WF_vars(\E h \in Handlers : EnterHandler(h))

-----------------------------------------------------------------------------
TypeOK ==
    /\ pc \in {"idle", "bump", "stop", "handler", "ishard", "start", "activate", "undo",
               "deinit", "forget", "unhook", "destroy", "unschedule", "check", "called"}
    /\ setting \in Settings
    /\ inst \in BOOLEAN /\ armed \in BOOLEAN /\ signal \in BOOLEAN
    /\ mode \in Modes /\ callback \in Generations
    /\ active \in BOOLEAN /\ generation \in Generations
    /\ scheduled \in BOOLEAN /\ scheduled_generation \in Generations
    /\ irq_obj \in BOOLEAN /\ irq_handler \in Generations /\ ishard \in BOOLEAN
    /\ queue \subseteq Generations /\ event \in Generations /\ loaded \in Generations
    /\ hpc \in [Handlers -> {"idle", "active", "irq", "ishard", "hard", "calling", "generation",
                             "active2", "claim", "active3", "same", "store", "schedule", "unclaim"}]
    /\ captured \in [Handlers -> Generations]
    /\ called \in [Handlers -> Generations]
    /\ exiting \in BOOLEAN
    /\ ran \subseteq Generations

\* Where a handler is past the exchange that claims `scheduled`.
Claiming == {"active3", "same", "store", "schedule", "unclaim"}

\* `scheduled` is the lock of the one pending event: it is set exactly while
\* one handler is past the exchange, or the event is queued, or its callback
\* has not cleared it yet.  So ticks never pile up in the scheduler's queue,
\* and no path leaves the timer mute.
OnePendingEvent ==
    Cardinality({h \in Handlers : hpc[h] \in Claiming})
        + Cardinality(queue) + (IF pc = "unschedule" THEN 1 ELSE 0)
      = (IF scheduled THEN 1 ELSE 0)

\* A scheduled callback belongs to the configuration in force, and the event
\* it runs for was associated with that configuration (lines 131-135).
CallbackIsCurrent ==
    pc = "called" => /\ active /\ inst
                     /\ callback = generation
                     /\ event = generation

\* The scheduler's queue pairs with scheduled_generation: the generation the
\* callback loads is the one captured by the handler that queued its event.
EventPaired ==
    /\ \A e \in queue : e = scheduled_generation
    /\ pc \in {"unschedule", "check"} => loaded = event

\* The event queued, the flag that guards it and the generation stored beside
\* it belong together, although three contexts write them without a lock.
ScheduleConsistent == OnePendingEvent /\ EventPaired

\* A periodic timer that stays configured reaches its callback, whatever
\* races its ticks lose.  (A one-shot tick taken before SetActive is lost.)
PeriodicFires ==
    \A g \in 1..MaxGeneration :
        (pc = "idle" /\ active /\ generation = g /\ mode = "PERIOD")
            ~> (g \in ran \/ generation # g \/ exiting)

=============================================================================
