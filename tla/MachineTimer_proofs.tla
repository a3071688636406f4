------------------------ MODULE MachineTimer_proofs ------------------------
(***************************************************************************)
(* Theorems about MachineTimer, for any set of handler activations, any    *)
(* arguments of init() and any number of configurations.                   *)
(***************************************************************************)
EXTENDS MachineTimer, FiniteSetTheorems, TLAPS

(* A configuration in force has its driver instance and its own callback;  *)
(* while it changes, the timer is inactive.  A call under way has room     *)
(* left for the generations it may still use up.                           *)
Configured ==
    /\ active => pc \in {"idle", "unschedule", "check", "called"} /\ inst /\ callback = generation
    /\ pc \in {"bump", "stop", "handler", "ishard", "start", "activate", "undo"} => inst
    /\ pc \in {"handler", "ishard", "start", "activate"} => callback = generation
    /\ pc = "called" => active /\ event = generation
    /\ pc = "bump" => generation + 2 < MaxGeneration
    /\ pc \in {"stop", "handler", "ishard", "start", "undo", "deinit"} => generation < MaxGeneration

(* The lock `scheduled` without counting: it is free and nobody is past    *)
(* the exchange, or one handler is, or one event is queued, or its         *)
(* callback is about to clear it.                                          *)
Claimants == {h \in Handlers : hpc[h] \in Claiming}

Pending ==
    \/ ~scheduled /\ Claimants = {} /\ queue = {} /\ pc # "unschedule"
    \/ scheduled /\ (\E h \in Handlers : Claimants = {h}) /\ queue = {} /\ pc # "unschedule"
    \/ scheduled /\ Claimants = {} /\ (\E e \in Generations : queue = {e}) /\ pc # "unschedule"
    \/ scheduled /\ Claimants = {} /\ queue = {} /\ pc = "unschedule"

(* The generation stored is the one the claiming handler captured.         *)
Stored == \A h \in Handlers : hpc[h] = "schedule" => scheduled_generation = captured[h]

(* The inductive invariant.                                                *)
IInv == TypeOK /\ Configured /\ Pending /\ Stored /\ EventPaired

-----------------------------------------------------------------------------
(* Every step keeps the types,                                             *)
LEMMA TypeStep ==
    ASSUME TypeOK, Configured, [Next]_vars
    PROVE  TypeOK'
<1> USE ConstantsAssumption DEF ConstantsAssumption, TypeOK, Generations, None, NoEvent
<1>1. CASE CallInit
    BY <1>1 DEF CallInit, beside, driver, irq, handlers
<1>2. CASE BumpGeneration
    BY <1>2 DEF BumpGeneration, beside, driver, irq, handlers, Configured
<1>3. CASE StopTimer
  <2>1. setting.mode \in Modes
    BY DEF Modes
  <2> QED
    BY <1>3, <2>1 DEF StopTimer, beside, irq, handlers
<1>4. CASE SetIrqHandler
    BY <1>4 DEF SetIrqHandler, beside, driver, handlers
<1>5. CASE SetIrqHard
  <2>1. setting.hard \in BOOLEAN
    OBVIOUS
  <2> QED
    BY <1>5, <2>1 DEF SetIrqHard, beside, driver, handlers
<1>6. CASE StartTimer \/ SetActive
    <2>1. CASE StartTimer
      BY <2>1 DEF StartTimer, beside, driver, irq, handlers
    <2>2. CASE SetActive
      BY <2>2 DEF SetActive, beside, driver, irq, handlers
    <2> QED
      BY <1>6, <2>1, <2>2
<1>7. CASE CallDeinit \/ Unhook \/ DestroyTimer
    <2>1. CASE CallDeinit
      BY <2>1 DEF CallDeinit, beside, driver, irq, handlers
    <2>2. CASE Unhook
      BY <2>2 DEF Unhook, beside, driver, irq, handlers
    <2>3. CASE DestroyTimer
      BY <2>3 DEF DestroyTimer, beside, driver, irq, handlers
    <2> QED
      BY <1>7, <2>1, <2>2, <2>3
<1>8. CASE ForgetCallback
    BY <1>8 DEF ForgetCallback, beside, driver, handlers
<1>9. CASE RunScheduled
    BY <1>9 DEF RunScheduled, apart, driver, irq, handlers
<1>10a. CASE Unschedule
    BY <1>10a DEF Unschedule, apart, driver, irq, handlers
<1>10b. CASE CheckScheduled
    BY <1>10b DEF CheckScheduled, apart, driver, irq, handlers
<1>10c. CASE CallbackReturns
    BY <1>10c DEF CallbackReturns, apart, driver, irq, handlers
<1>11. ASSUME NEW h \in Handlers, EnterHandler(h) \/ HandlerStep(h)
       PROVE  TypeOK'
  <2> USE DEF around, script, irq, HGoto
  <2>1a. CASE EnterHandler(h)
    BY <2>1a, ZenonT(60) DEF EnterHandler
  <2>1b. CASE CheckActive(h)
    BY <2>1b DEF CheckActive
  <2>1c. CASE LoadIrq(h)
    BY <2>1c DEF LoadIrq
  <2>1d. CASE LoadHard(h)
    BY <2>1d DEF LoadHard
  <2>2. CASE CallHard(h)
    BY <2>2 DEF CallHard
  <2>3a. CASE HardReturns(h)
    BY <2>3a DEF HardReturns
  <2>3b. CASE LoadGeneration(h)
    BY <2>3b DEF LoadGeneration
  <2>4. CASE CheckActiveAgain(h)
    BY <2>4 DEF CheckActiveAgain
  <2>5a. CASE ClaimSchedule(h)
    BY <2>5a DEF ClaimSchedule
  <2>5b. CASE CheckSameGeneration(h)
    BY <2>5b DEF CheckSameGeneration
  <2>6. CASE StoreGeneration(h)
    BY <2>6 DEF StoreGeneration
  <2>7. CASE Schedule(h)
    <3>1. queue' \subseteq 0..MaxGeneration
      BY <2>7 DEF Schedule
    <3> QED
      BY <2>7, <3>1 DEF Schedule
  <2>8a. CASE ScheduleFails(h)
    BY <2>8a DEF ScheduleFails
  <2>8b. CASE Unclaim(h)
    BY <2>8b, ZenonT(60) DEF Unclaim
  <2> QED
    BY <1>11, <2>1a, <2>1b, <2>1c, <2>1d, <2>2, <2>3a, <2>3b, <2>4, <2>5a, <2>5b, <2>6, <2>7, <2>8a, <2>8b DEF HandlerStep
<1>12. CASE Tick
  <2>1. armed' \in BOOLEAN
    BY <1>12 DEF Tick
  <2> QED
    BY <1>12, <2>1 DEF Tick, script, flags, irq, handlers
<1>13. CASE SetExitingFlag
  <2>1. exiting' \in BOOLEAN
    BY <1>13 DEF SetExitingFlag
  <2> QED
    BY <1>13, <2>1 DEF SetExitingFlag, script, driver, flags, irq, handlers
<1>14. CASE UNCHANGED vars
    BY <1>14 DEF vars, script, driver, flags, irq, handlers
<1> HIDE DEF TypeOK
<1> QED
    BY <1>1, <1>2, <1>3, <1>4, <1>5, <1>6, <1>7, <1>8, <1>9, <1>10a, <1>10b, <1>10c, <1>11, <1>12, <1>13, <1>14
       DEF Next, InitStep, DeinitStep, ScheduledStep

(* the configuration,                                                      *)
LEMMA ConfiguredStep ==
    ASSUME TypeOK, Configured, EventPaired, [Next]_vars
    PROVE  Configured'
<1> USE ConstantsAssumption DEF ConstantsAssumption, Configured, Generations, None
<1>a. generation \in Generations /\ generation \in Nat /\ MaxGeneration \in Nat
    BY DEF TypeOK
<1>1. CASE CallInit
    BY <1>1, <1>a DEF CallInit, beside, driver
<1>2. CASE BumpGeneration
    BY <1>2, <1>a DEF BumpGeneration, beside, driver
<1>3. CASE StopTimer \/ SetIrqHandler \/ SetIrqHard \/ StartTimer \/ SetActive
    BY <1>3, <1>a DEF StopTimer, SetIrqHandler, SetIrqHard, StartTimer, SetActive, beside, driver
<1>4. CASE CallDeinit \/ ForgetCallback \/ Unhook \/ DestroyTimer
    BY <1>4, <1>a DEF CallDeinit, ForgetCallback, Unhook, DestroyTimer, beside, driver
<1>5. CASE RunScheduled \/ Unschedule \/ CallbackReturns
    BY <1>5 DEF RunScheduled, Unschedule, CallbackReturns, apart, driver
<1>6. CASE CheckScheduled
    BY <1>6 DEF CheckScheduled, EventPaired, apart, driver
<1>7. ASSUME NEW h \in Handlers, EnterHandler(h) \/ HandlerStep(h)
      PROVE  UNCHANGED around
    BY <1>7, Zenon DEF EnterHandler, HandlerStep, CheckActive, LoadIrq, LoadHard, CallHard, HardReturns, LoadGeneration,
                       CheckActiveAgain, ClaimSchedule, CheckSameGeneration, StoreGeneration, Schedule, ScheduleFails, Unclaim
<1>8. CASE UNCHANGED around
    BY <1>8 DEF around, script
<1>9. CASE Tick \/ SetExitingFlag
    BY <1>9 DEF Tick, SetExitingFlag, script, driver, flags
<1>10. CASE UNCHANGED vars
    BY <1>10 DEF vars, script, driver, flags
<1> HIDE DEF Configured
<1> QED
    BY <1>1, <1>2, <1>3, <1>4, <1>5, <1>6, <1>7, <1>8, <1>9, <1>10 DEF Next, InitStep, DeinitStep, ScheduledStep

(* the lock,                                                               *)
LEMMA PendingStep ==
    ASSUME TypeOK, Pending, [Next]_vars
    PROVE  Pending'
<1> USE DEF Pending, Claimants, Claiming, HGoto
<1>a. /\ DOMAIN hpc = Handlers /\ captured \in [Handlers -> Generations] /\ scheduled \in BOOLEAN
    BY DEF TypeOK
<1>1. CASE CallInit \/ BumpGeneration \/ StopTimer \/ SetIrqHandler \/ SetIrqHard \/ StartTimer \/ SetActive
    BY <1>1 DEF CallInit, BumpGeneration, StopTimer, SetIrqHandler, SetIrqHard, StartTimer, SetActive, beside, handlers
<1>2. CASE CallDeinit \/ ForgetCallback \/ Unhook \/ DestroyTimer
    BY <1>2 DEF CallDeinit, ForgetCallback, Unhook, DestroyTimer, beside, handlers
<1>3. CASE RunScheduled
    BY <1>3 DEF RunScheduled, apart, handlers
<1>4. CASE Unschedule
    BY <1>4 DEF Unschedule, apart, handlers
<1>5. CASE CheckScheduled \/ CallbackReturns
    BY <1>5 DEF CheckScheduled, CallbackReturns, apart, handlers
<1>6. ASSUME NEW h \in Handlers, EnterHandler(h) \/ HandlerStep(h)
      PROVE  Pending'
  <2> USE DEF around, script
  <2>1. CASE /\ UNCHANGED <<pc, queue, scheduled>> /\ \A g \in Handlers : hpc'[g] \in Claiming <=> hpc[g] \in Claiming
    <3>1. Claimants' = Claimants
      BY <2>1
    <3> QED
      BY <2>1, <3>1
  <2>2. CASE EnterHandler(h) \/ CheckActive(h) \/ LoadIrq(h) \/ LoadHard(h)
    BY <1>a, <2>1, <2>2 DEF EnterHandler, CheckActive, LoadIrq, LoadHard
  <2>3. CASE CallHard(h) \/ HardReturns(h) \/ LoadGeneration(h)
    BY <1>a, <2>1, <2>3 DEF CallHard, HardReturns, LoadGeneration
  <2>4. CASE CheckActiveAgain(h) \/ CheckSameGeneration(h) \/ StoreGeneration(h) \/ ScheduleFails(h)
    BY <1>a, <2>1, <2>4 DEF CheckActiveAgain, CheckSameGeneration, StoreGeneration, ScheduleFails
  <2>5. CASE ClaimSchedule(h)
    <3>1. CASE scheduled
      BY <1>a, <2>1, <2>5, <3>1 DEF ClaimSchedule
    <3>2. CASE ~scheduled
      <4>1. Claimants' = {h}
        BY <1>a, <2>5, <3>2 DEF ClaimSchedule
      <4> QED
        BY <2>5, <3>2, <4>1 DEF ClaimSchedule
    <3> QED
      BY <3>1, <3>2
  <2>6. ASSUME hpc[h] \in Claiming, hpc' = [hpc EXCEPT ![h] = "idle"]
        PROVE  Claimants = {h} /\ Claimants' = {} /\ queue = {} /\ pc # "unschedule" /\ scheduled
    <3>1. h \in Claimants
      BY <2>6
    <3>2. Claimants = {h} /\ queue = {} /\ pc # "unschedule" /\ scheduled
      BY <3>1
    <3> QED
      BY <1>a, <2>6, <3>2
  <2>7. CASE Schedule(h)
    <3>1. hpc[h] \in Claiming /\ hpc' = [hpc EXCEPT ![h] = "idle"] /\ captured[h] \in Generations
      BY <1>a, <2>7 DEF Schedule
    <3>2. queue' = {captured[h]}
      BY <2>6, <2>7, <3>1 DEF Schedule
    <3> QED
      BY <2>6, <2>7, <3>1, <3>2 DEF Schedule
  <2>8. CASE Unclaim(h)
    <3>1. hpc[h] \in Claiming /\ hpc' = [hpc EXCEPT ![h] = "idle"]
      BY <2>8 DEF Unclaim
    <3> QED
      BY <2>6, <2>8, <3>1 DEF Unclaim
  <2> QED
    BY <1>6, <2>2, <2>3, <2>4, <2>5, <2>7, <2>8 DEF HandlerStep
<1>7. CASE Tick \/ SetExitingFlag
    BY <1>7 DEF Tick, SetExitingFlag, script, flags, handlers
<1>8. CASE UNCHANGED vars
    BY <1>8 DEF vars, script, flags, handlers
<1> HIDE DEF Pending
<1> QED
    BY <1>1, <1>2, <1>3, <1>4, <1>5, <1>6, <1>7, <1>8 DEF Next, InitStep, DeinitStep, ScheduledStep

(* and the generation stored beside the event.                             *)
LEMMA StoredStep ==
    ASSUME TypeOK, Pending, Stored, EventPaired, [Next]_vars
    PROVE  Stored' /\ EventPaired'
<1> USE DEF Stored, EventPaired, HGoto
<1>a. /\ DOMAIN hpc = Handlers /\ captured \in [Handlers -> Generations]
    BY DEF TypeOK
<1>b. \A h, g \in Handlers : hpc[h] \in Claiming /\ hpc[g] \in Claiming => h = g
  <2>1. \A h \in Handlers : hpc[h] \in Claiming => h \in Claimants
    BY DEF Claimants
  <2> QED
    BY <2>1 DEF Pending
<1>c. \A h \in Handlers : hpc[h] \in Claiming => queue = {} /\ pc # "unschedule"
  <2>1. \A h \in Handlers : hpc[h] \in Claiming => h \in Claimants
    BY DEF Claimants
  <2> QED
    BY <2>1 DEF Pending
<1>1. CASE CallInit \/ BumpGeneration \/ StopTimer \/ SetIrqHandler \/ SetIrqHard \/ StartTimer \/ SetActive
    BY <1>1 DEF CallInit, BumpGeneration, StopTimer, SetIrqHandler, SetIrqHard, StartTimer, SetActive, beside, handlers
<1>2. CASE CallDeinit \/ ForgetCallback \/ Unhook \/ DestroyTimer
    BY <1>2 DEF CallDeinit, ForgetCallback, Unhook, DestroyTimer, beside, handlers
<1>3. CASE RunScheduled
    BY <1>3 DEF RunScheduled, apart, handlers
<1>4. CASE Unschedule \/ CheckScheduled \/ CallbackReturns
    BY <1>4 DEF Unschedule, CheckScheduled, CallbackReturns, apart, handlers
<1>5. ASSUME NEW h \in Handlers, EnterHandler(h) \/ HandlerStep(h)
      PROVE  Stored' /\ EventPaired'
  <2> USE DEF around, script
  <2>1. CASE EnterHandler(h) \/ CheckActive(h) \/ LoadIrq(h) \/ LoadHard(h)
    BY <1>a, <2>1 DEF EnterHandler, CheckActive, LoadIrq, LoadHard
  <2>2. CASE CallHard(h) \/ HardReturns(h) \/ LoadGeneration(h)
    BY <1>a, <2>2 DEF CallHard, HardReturns, LoadGeneration
  <2>3. CASE CheckActiveAgain(h) \/ ClaimSchedule(h) \/ CheckSameGeneration(h)
    BY <1>a, <2>3 DEF CheckActiveAgain, ClaimSchedule, CheckSameGeneration
  <2>4. CASE StoreGeneration(h)
    <3>1. queue = {} /\ \A g \in Handlers : g # h => hpc[g] # "schedule"
      BY <1>b, <1>c, <2>4 DEF StoreGeneration, Claiming
    <3> QED
      BY <1>a, <2>4, <3>1 DEF StoreGeneration
  <2>5. CASE Schedule(h)
    <3>1. queue = {}
      BY <1>c, <2>5 DEF Schedule, Claiming
    <3> QED
      BY <1>a, <2>5, <3>1 DEF Schedule
  <2>6. CASE ScheduleFails(h) \/ Unclaim(h)
    BY <1>a, <2>6 DEF ScheduleFails, Unclaim
  <2> QED
    BY <1>5, <2>1, <2>2, <2>3, <2>4, <2>5, <2>6 DEF HandlerStep
<1>6. CASE Tick \/ SetExitingFlag
    BY <1>6 DEF Tick, SetExitingFlag, script, flags, handlers
<1>7. CASE UNCHANGED vars
    BY <1>7 DEF vars, script, flags, handlers
<1> HIDE DEF Stored, EventPaired
<1> QED
    BY <1>1, <1>2, <1>3, <1>4, <1>5, <1>6, <1>7 DEF Next, InitStep, DeinitStep, ScheduledStep

(* The invariant is inductive.                                             *)
LEMMA Inductive == Spec => []IInv
<1>1. Init => IInv
  <2> SUFFICES ASSUME Init PROVE IInv
    OBVIOUS
  <2>1. (CHOOSE s \in Settings : TRUE) \in Settings
    BY ConstantsAssumption DEF ConstantsAssumption
  <2>2. setting \in Settings
    BY <2>1 DEF Init
  <2>3. 0 \in Generations
    BY ConstantsAssumption DEF ConstantsAssumption, Generations
  <2>4. TypeOK
    BY <2>2, <2>3 DEF Init, TypeOK, Modes, None, NoEvent
  <2>5. Configured /\ Stored /\ EventPaired
    BY DEF Init, Configured, Stored, EventPaired, None
  <2>6. Claimants = {}
    BY DEF Init, Claimants, Claiming
  <2>7. Pending
    BY <2>6 DEF Init, Pending
  <2> QED
    BY <2>4, <2>5, <2>7 DEF IInv
<1>2. IInv /\ [Next]_vars => IInv'
    BY TypeStep, ConfiguredStep, PendingStep, StoredStep DEF IInv
<1> QED
    BY <1>1, <1>2, PTL DEF Spec

-----------------------------------------------------------------------------
(* The fields of machine_timer_obj_t and the locals of its handlers stay   *)
(* in their ranges, and no configuration runs out of generations.          *)
THEOREM TypeCorrect == Spec => []TypeOK
    BY Inductive, PTL DEF IInv

(* `scheduled` is held by exactly one handler, queued event or callback    *)
(* about to clear it, and the generation a callback loads is the one its   *)
(* event was queued for, however many ticks interleave.                    *)
THEOREM OneEventPaired == Spec => []ScheduleConsistent
<1>1. ASSUME IInv
      PROVE  OnePendingEvent
  <2>1. Cardinality(Claimants) + Cardinality(queue) + (IF pc = "unschedule" THEN 1 ELSE 0) = (IF scheduled THEN 1 ELSE 0)
    <3>1. Cardinality({}) = 0 /\ \A x : Cardinality({x}) = 1
      BY FS_EmptySet, FS_Singleton, Zenon
    <3>2. /\ Claimants = {} => Cardinality(Claimants) = 0
          /\ (\E h \in Handlers : Claimants = {h}) => Cardinality(Claimants) = 1
          /\ queue = {} => Cardinality(queue) = 0
          /\ (\E e \in Generations : queue = {e}) => Cardinality(queue) = 1
      BY <3>1, Zenon
    <3>3. Pending /\ scheduled \in BOOLEAN
      BY <1>1 DEF IInv, TypeOK
    <3> QED
      BY <3>2, <3>3 DEF Pending
  <2> QED
    BY <2>1 DEF Claimants, OnePendingEvent
<1>2. IInv => EventPaired
    BY DEF IInv
<1> QED
    BY <1>1, <1>2, Inductive, PTL DEF ScheduleConsistent

(* A scheduled callback runs for the configuration in force, and for an    *)
(* event of that configuration, although init() and deinit() race it.      *)
THEOREM CurrentCallback == Spec => []CallbackIsCurrent
<1>1. IInv => CallbackIsCurrent
    BY DEF IInv, Configured, CallbackIsCurrent
<1> QED
    BY <1>1, Inductive, PTL
=============================================================================
