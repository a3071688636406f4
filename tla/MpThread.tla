------------------------------ MODULE MpThread ------------------------------
(***************************************************************************)
(* The thread registry, the GIL and the soft reset of the port:            *)
(* port/core/mpthreadport.c and the reset path of port/core/main.c.        *)
(*                                                                         *)
(* Every read or write of the registry happens under thread_list_mutex in  *)
(* a section that neither blocks nor takes another lock, so a section is   *)
(* one step here.  What happens between two sections, and everything that  *)
(* depends on the GIL, is split into steps of its own.                     *)
(***************************************************************************)
EXTENDS Naturals, FiniteSets

CONSTANTS
  Main,        \* the thread that runs main_()
  Workers,     \* identities _thread.start_new_thread() may give a thread
  None,        \* nobody
  MaxCreates,  \* bound: threads created between two soft resets
  Habits       \* what the user's script does, a subset of HabitSet

(* "atexit": it registers sys.atexit(); "late": one of its threads may     *)
(* start another after the reset has told everyone to exit; "swallow": a   *)
(* thread may catch SystemExit and carry on.                               *)
HabitSet == {"atexit", "late", "swallow"}

ASSUME ThreadAssumption ==
  /\ Main \notin Workers
  /\ None \notin Workers \cup {Main}
  /\ IsFiniteSet(Workers)
  /\ MaxCreates \in Nat
  /\ Habits \subseteq HabitSet

Threads == Workers \cup {Main}

VARIABLES
  pc,                    \* where each thread is
  gil,                   \* owner of MP_STATE_VM(gil_mutex)
  thread_list,           \* threads with an entry linked in thread_list
  allocated,             \* worker entries calloc'ed and not freed
  ready,                 \* entry->ready
  startup_exception,     \* entry->startup_exception is set
  pending_exception,     \* state->mp_pending_exception is set
  gc_regs_valid,         \* entry->gc_regs_valid
  user_data,             \* state->user_data points to the thread's entry
  child,                 \* new_thread, a local of mp_thread_create
  notify_deinit,         \* a local of mp_thread_finish
  deinit_waiting,
  thread_finished_sem,
  active_thread_count,
  creates                \* threads created since mp_thread_init

vars == <<pc, gil, thread_list, allocated, ready, startup_exception,
          pending_exception, gc_regs_valid, user_data, child, notify_deinit,
          deinit_waiting, thread_finished_sem, active_thread_count, creates>>

registry == <<thread_list, allocated, ready, startup_exception,
              pending_exception, user_data, active_thread_count>>
locals   == <<child, notify_deinit, creates>>
shutdown == <<deinit_waiting, thread_finished_sem>>

(* Both kinds of thread run Python in "py" and wait for the GIL, or for    *)
(* the system call they released it for, in "blocked".                     *)
MainPc == {"down", "init", "boot", "py", "blocked", "creating", "created",
           "withdrawn", "told", "unlocked", "atexit", "shutdown", "scan",
           "semwait", "regain", "teardown", "deinit"}
WorkerPc == {"dead", "new", "starting", "py", "blocked", "creating", "created",
             "finishing", "unlinked", "finished"}

(* The reset has broadcast SystemExit and mp_deinit() has not run.         *)
Resetting == pc[Main] \in {"told", "unlocked", "atexit", "shutdown", "scan",
                           "semwait", "regain", "teardown"}

Init ==
  /\ pc = [t \in Threads |-> IF t = Main THEN "down" ELSE "dead"]
  /\ gil = None
  /\ thread_list = {}
  /\ allocated = {}
  /\ ready = [t \in Threads |-> FALSE]
  /\ startup_exception = [t \in Threads |-> FALSE]
  /\ pending_exception = [t \in Threads |-> FALSE]
  /\ gc_regs_valid = [t \in Threads |-> FALSE]
  /\ user_data = [t \in Threads |-> FALSE]
  /\ child = [t \in Threads |-> None]
  /\ notify_deinit = [t \in Threads |-> FALSE]
  /\ deinit_waiting = FALSE
  /\ thread_finished_sem = 0
  /\ active_thread_count = 0
  /\ creates = 0

Goto(t, from, to) == /\ pc[t] = from
                     /\ pc' = [pc EXCEPT ![t] = to]

(* A definition named Mut_... is the one that follows it with a plausible  *)
(* mistake; no behaviour of this module uses it.                           *)

-----------------------------------------------------------------------------
(* Boot                                                                    *)

mp_thread_init ==
  /\ Goto(Main, "down", "init")
  /\ ready' = [ready EXCEPT ![Main] = FALSE]
  /\ startup_exception' = [startup_exception EXCEPT ![Main] = FALSE]
  /\ gc_regs_valid' = [gc_regs_valid EXCEPT ![Main] = FALSE]
  /\ user_data' = [user_data EXCEPT ![Main] = TRUE]
  /\ thread_list' = {Main}
  /\ deinit_waiting' = FALSE
  /\ thread_finished_sem' = 0
  /\ active_thread_count' = 1
  /\ creates' = 0
  /\ UNCHANGED <<gil, allocated, pending_exception, child, notify_deinit>>

(* mp_init() creates the GIL, takes it and clears what is pending.         *)
mp_init ==
  /\ Goto(Main, "init", "boot")
  /\ gil' = Main
  /\ pending_exception' = [pending_exception EXCEPT ![Main] = FALSE]
  /\ UNCHANGED <<thread_list, allocated, ready, startup_exception, user_data,
                 active_thread_count, gc_regs_valid, locals, shutdown>>

SetMainReady ==
  /\ Goto(Main, "boot", "py")
  /\ ready' = [ready EXCEPT ![Main] = TRUE]
  /\ UNCHANGED <<gil, thread_list, allocated, startup_exception, user_data,
                 pending_exception, active_thread_count, gc_regs_valid,
                 locals, shutdown>>

-----------------------------------------------------------------------------
(* The GIL.  A release stores the registers of a thread that has an entry, *)
(* for the collector of another thread.                                    *)

Mut_SaveRegs(t) == UNCHANGED gc_regs_valid

SaveRegs(t) ==
  gc_regs_valid' = IF user_data[t] THEN [gc_regs_valid EXCEPT ![t] = TRUE]
                                   ELSE gc_regs_valid

GilRelease(t) ==
  /\ gil = t
  /\ Goto(t, "py", "blocked")
  /\ SaveRegs(t)
  /\ gil' = None
  /\ UNCHANGED <<registry, locals, shutdown>>

GilAcquire(t) ==
  /\ gil = None
  /\ Goto(t, "blocked", "py")
  /\ gil' = t
  /\ UNCHANGED <<registry, gc_regs_valid, locals, shutdown>>

-----------------------------------------------------------------------------
(* mp_thread_create, called with the GIL held                              *)

CreateAlloc(t, c) ==
  /\ gil = t
  /\ creates < MaxCreates
  /\ Resetting => "late" \in Habits
  /\ pc[c] = "dead"
  /\ c \notin allocated
  /\ Goto(t, "py", "creating")
  /\ allocated' = allocated \cup {c}
  /\ child' = [child EXCEPT ![t] = c]
  /\ ready' = [ready EXCEPT ![c] = FALSE]
  /\ startup_exception' = [startup_exception EXCEPT ![c] = FALSE]
  /\ gc_regs_valid' = [gc_regs_valid EXCEPT ![c] = FALSE]
  /\ UNCHANGED <<gil, thread_list, pending_exception, user_data,
                 active_thread_count, notify_deinit, creates, shutdown>>

(* pthread_create() and the link are one section.  The child's state is on *)
(* its own stack and starts with nothing pending and no user_data.         *)
CreateSpawn(t) ==
  LET c == child[t] IN
  /\ pc[t] = "creating"
  /\ pc' = [pc EXCEPT ![t] = "created", ![c] = "new"]
  /\ thread_list' = thread_list \cup {c}
  /\ active_thread_count' = active_thread_count + 1
  /\ pending_exception' = [pending_exception EXCEPT ![c] = FALSE]
  /\ user_data' = [user_data EXCEPT ![c] = FALSE]
  /\ creates' = creates + 1
  /\ UNCHANGED <<gil, allocated, ready, startup_exception, gc_regs_valid,
                 child, notify_deinit, shutdown>>

Mut_CreateFail(t) ==
  /\ Goto(t, "creating", "py")
  /\ child' = [child EXCEPT ![t] = None]
  /\ UNCHANGED <<gil, registry, gc_regs_valid, notify_deinit, creates,
                 shutdown>>

(* pthread_create() failed: the entry is freed and OSError is raised.      *)
CreateFail(t) ==
  /\ Goto(t, "creating", "py")
  /\ allocated' = allocated \ {child[t]}
  /\ child' = [child EXCEPT ![t] = None]
  /\ UNCHANGED <<gil, thread_list, ready, startup_exception, user_data,
                 pending_exception, active_thread_count, gc_regs_valid,
                 notify_deinit, creates, shutdown>>

(* return new_thread->id: the list lock is released, the entry is read.    *)
CreateReturn(t) ==
  /\ Goto(t, "created", "py")
  /\ child' = [child EXCEPT ![t] = None]
  /\ UNCHANGED <<gil, registry, gc_regs_valid, notify_deinit, creates,
                 shutdown>>

-----------------------------------------------------------------------------
(* A worker: thread_entry of modthread.c takes the GIL, calls              *)
(* mp_thread_start(), runs the function, calls mp_thread_finish() and      *)
(* releases the GIL.                                                       *)

EntryGil(w) ==
  /\ gil = None
  /\ Goto(w, "new", "starting")
  /\ gil' = w
  /\ UNCHANGED <<registry, gc_regs_valid, locals, shutdown>>

Mut_mp_thread_start(w) ==
  /\ Goto(w, "starting", "py")
  /\ ready' = [ready EXCEPT ![w] = TRUE]
  /\ user_data' = [user_data EXCEPT ![w] = TRUE]
  /\ startup_exception' = [startup_exception EXCEPT ![w] = FALSE]
  /\ UNCHANGED <<gil, thread_list, allocated, active_thread_count,
                 pending_exception, gc_regs_valid, locals, shutdown>>

mp_thread_start(w) ==
  /\ Goto(w, "starting", "py")
  /\ ready' = [ready EXCEPT ![w] = TRUE]
  /\ user_data' = [user_data EXCEPT ![w] = TRUE]
  /\ pending_exception' = [pending_exception EXCEPT
                             ![w] = @ \/ startup_exception[w]]
  /\ startup_exception' = [startup_exception EXCEPT ![w] = FALSE]
  /\ UNCHANGED <<gil, thread_list, allocated, active_thread_count,
                 gc_regs_valid, locals, shutdown>>

EntryReturn(w) ==
  /\ gil = w
  /\ Goto(w, "py", "finishing")
  /\ UNCHANGED <<gil, registry, gc_regs_valid, locals, shutdown>>

(* The VM raises what is pending.  It unwinds a worker that does not catch *)
(* SystemExit; the main thread catches everything in its script and REPL   *)
(* boundaries and goes on.                                                 *)
Raise(t) ==
  /\ gil = t
  /\ pc[t] = "py"
  /\ pending_exception[t]
  /\ pending_exception' = [pending_exception EXCEPT ![t] = FALSE]
  /\ \/ t # Main /\ pc' = [pc EXCEPT ![t] = "finishing"]
     \/ (t = Main \/ "swallow" \in Habits) /\ UNCHANGED pc
  /\ UNCHANGED <<gil, thread_list, allocated, ready, startup_exception,
                 user_data, active_thread_count, gc_regs_valid, locals,
                 shutdown>>

(* mp_thread_finish: the section that unlinks the entry, ...               *)
FinishUnlink(w) ==
  /\ Goto(w, "finishing", "unlinked")
  /\ thread_list' = thread_list \ {w}
  /\ ready' = [ready EXCEPT ![w] = FALSE]
  /\ notify_deinit' = [notify_deinit EXCEPT ![w] = deinit_waiting]
  /\ active_thread_count' = active_thread_count - 1
  /\ UNCHANGED <<gil, allocated, startup_exception, pending_exception,
                 user_data, gc_regs_valid, child, creates, shutdown>>

Mut_FinishNotify(w) ==
  /\ Goto(w, "unlinked", "finished")
  /\ allocated' = allocated \ {w}
  /\ thread_finished_sem' = thread_finished_sem
                              + (IF notify_deinit[w] THEN 1 ELSE 0)
  /\ notify_deinit' = [notify_deinit EXCEPT ![w] = FALSE]
  /\ UNCHANGED <<gil, thread_list, ready, startup_exception, gc_regs_valid,
                 pending_exception, user_data, active_thread_count, child,
                 creates, deinit_waiting>>

(* ... and what follows it: the entry is freed and the reset told.         *)
FinishNotify(w) ==
  /\ Goto(w, "unlinked", "finished")
  /\ user_data' = [user_data EXCEPT ![w] = FALSE]
  /\ allocated' = allocated \ {w}
  /\ thread_finished_sem' = thread_finished_sem
                              + (IF notify_deinit[w] THEN 1 ELSE 0)
  /\ notify_deinit' = [notify_deinit EXCEPT ![w] = FALSE]
  /\ UNCHANGED <<gil, thread_list, ready, startup_exception, gc_regs_valid,
                 pending_exception, active_thread_count, child, creates,
                 deinit_waiting>>

EntryExit(w) ==
  /\ Goto(w, "finished", "dead")
  /\ SaveRegs(w)
  /\ gil' = None
  /\ UNCHANGED <<registry, locals, shutdown>>

-----------------------------------------------------------------------------
(* The IDE task and the console reader, which hold no GIL, interrupt main. *)
mp_thread_set_exception_main ==
  /\ ready[Main]
  /\ pending_exception' = [pending_exception EXCEPT ![Main] = TRUE]
  /\ UNCHANGED <<pc, gil, thread_list, allocated, ready, startup_exception,
                 user_data, active_thread_count, gc_regs_valid, locals,
                 shutdown>>

-----------------------------------------------------------------------------
(* The soft reset: main_thread_exit of main.c                              *)

ClearMainReady ==
  /\ gil = Main
  /\ Goto(Main, "py", "withdrawn")
  /\ ready' = [ready EXCEPT ![Main] = FALSE]
  /\ UNCHANGED <<gil, thread_list, allocated, startup_exception, user_data,
                 pending_exception, active_thread_count, gc_regs_valid,
                 locals, shutdown>>

Mut_mp_thread_set_exception_other ==
  /\ Goto(Main, "withdrawn", "told")
  /\ pending_exception' = [t \in Threads |->
       pending_exception[t] \/ (t \in thread_list \ {Main} /\ ready[t])]
  /\ UNCHANGED <<gil, thread_list, allocated, ready, startup_exception,
                 user_data, gc_regs_valid, active_thread_count, locals,
                 shutdown>>

mp_thread_set_exception_other ==
  LET others == thread_list \ {Main} IN
  /\ Goto(Main, "withdrawn", "told")
  /\ pending_exception' =
       [t \in Threads |-> pending_exception[t] \/ (t \in others /\ ready[t])]
  /\ startup_exception' =
       [t \in Threads |-> IF t \in others THEN ~ready[t]
                                          ELSE startup_exception[t]]
  /\ UNCHANGED <<gil, thread_list, allocated, ready, user_data, gc_regs_valid,
                 active_thread_count, locals, shutdown>>

ResetGilExit ==
  /\ Goto(Main, "told", "unlocked")
  /\ SaveRegs(Main)
  /\ gil' = None
  /\ UNCHANGED <<registry, locals, shutdown>>

(* The exit handler runs between MP_THREAD_GIL_EXIT() and the shutdown.    *)
AtExitCall ==
  /\ "atexit" \in Habits
  /\ Goto(Main, "unlocked", "atexit")
  /\ UNCHANGED <<gil, registry, gc_regs_valid, locals, shutdown>>

AtExitDone ==
  /\ \/ Goto(Main, "atexit", "shutdown")
     \/ "atexit" \notin Habits /\ Goto(Main, "unlocked", "shutdown")
  /\ UNCHANGED <<gil, registry, gc_regs_valid, locals, shutdown>>

Mut_ShutdownBegin ==
  /\ Goto(Main, "shutdown", "scan")
  /\ UNCHANGED <<gil, registry, gc_regs_valid, locals, shutdown>>

ShutdownBegin ==
  /\ Goto(Main, "shutdown", "scan")
  /\ deinit_waiting' = TRUE
  /\ UNCHANGED <<gil, registry, gc_regs_valid, locals, thread_finished_sem>>

ShutdownScan ==
  /\ \/ thread_list # {Main} /\ Goto(Main, "scan", "semwait")
     \/ thread_list = {Main} /\ Goto(Main, "scan", "regain")
  /\ UNCHANGED <<gil, registry, gc_regs_valid, locals, shutdown>>

Mut_SemWait == thread_finished_sem' = thread_finished_sem - 1

SemWait == /\ thread_finished_sem > 0
           /\ thread_finished_sem' = thread_finished_sem - 1

Mut_ShutdownWait ==
  /\ Goto(Main, "semwait", "regain")
  /\ SemWait
  /\ UNCHANGED <<gil, registry, gc_regs_valid, locals, deinit_waiting>>

ShutdownWait ==
  /\ Goto(Main, "semwait", "scan")
  /\ SemWait
  /\ UNCHANGED <<gil, registry, gc_regs_valid, locals, deinit_waiting>>

Mut_ShutdownGil ==
  /\ Goto(Main, "regain", "teardown")
  /\ UNCHANGED <<gil, registry, gc_regs_valid, locals, shutdown>>

ShutdownGil ==
  /\ gil = None
  /\ Goto(Main, "regain", "teardown")
  /\ gil' = Main
  /\ UNCHANGED <<registry, gc_regs_valid, locals, shutdown>>

(* gc_sweep_all() and mp_deinit(), which releases the GIL at its end.      *)
VmTeardown ==
  /\ Goto(Main, "teardown", "deinit")
  /\ SaveRegs(Main)
  /\ gil' = None
  /\ UNCHANGED <<registry, locals, shutdown>>

mp_thread_deinit ==
  /\ Goto(Main, "deinit", "down")
  /\ ready' = [ready EXCEPT ![Main] = FALSE]
  /\ user_data' = [user_data EXCEPT ![Main] = FALSE]
  /\ thread_list' = {}
  /\ UNCHANGED <<gil, allocated, startup_exception, pending_exception,
                 active_thread_count, gc_regs_valid, locals, shutdown>>

-----------------------------------------------------------------------------
MainNext ==
  \/ mp_thread_init \/ mp_init \/ SetMainReady \/ ClearMainReady
  \/ mp_thread_set_exception_other \/ ResetGilExit \/ AtExitCall \/ AtExitDone
  \/ ShutdownBegin \/ ShutdownScan \/ ShutdownWait \/ ShutdownGil
  \/ VmTeardown \/ mp_thread_deinit

WorkerNext(w) ==
  \/ EntryGil(w) \/ mp_thread_start(w) \/ EntryReturn(w)
  \/ FinishUnlink(w) \/ FinishNotify(w) \/ EntryExit(w)

ThreadNext(t) ==
  \/ GilRelease(t) \/ GilAcquire(t) \/ Raise(t)
  \/ \E c \in Workers : CreateAlloc(t, c)
  \/ CreateSpawn(t) \/ CreateFail(t) \/ CreateReturn(t)

Next ==
  \/ MainNext
  \/ mp_thread_set_exception_main
  \/ \E w \in Workers : WorkerNext(w)
  \/ \E t \in Threads : ThreadNext(t)

Spec == Init /\ [][Next]_vars

(* The scheduler runs every thread that can run, and the GIL and the list  *)
(* lock are handed to every waiter in the end (THREAD_GIL_YIELD_INTERVAL   *)
(* is there for that).  A thread inside the VM meets the check for a       *)
(* pending exception, and the periodic release of the GIL, again and       *)
(* again.  Nobody is bound to create or end a thread, or to reset.         *)
Resume(t) == CreateSpawn(t) \/ CreateReturn(t)

Fairness ==
  /\ WF_vars(mp_thread_init \/ mp_init \/ SetMainReady)
  /\ WF_vars(mp_thread_set_exception_other \/ ResetGilExit \/ AtExitDone
               \/ ShutdownBegin \/ ShutdownScan \/ ShutdownWait
               \/ VmTeardown \/ mp_thread_deinit)
  /\ SF_vars(ShutdownGil)
  /\ \A w \in Workers :
       /\ WF_vars(mp_thread_start(w) \/ FinishUnlink(w) \/ FinishNotify(w)
                    \/ EntryExit(w))
       /\ SF_vars(EntryGil(w))
  /\ \A t \in Threads :
       /\ WF_vars(Resume(t))
       /\ WF_vars(GilRelease(t))
       /\ SF_vars(GilAcquire(t))
       /\ SF_vars(Raise(t))

FairSpec == Spec /\ Fairness

-----------------------------------------------------------------------------
(* Properties                                                              *)

(* Every variable has its type: main and the workers are at their own      *)
(* program points and the registry holds threads only.                     *)
PcOK ==
  /\ pc \in [Threads -> MainPc \cup WorkerPc]
  /\ pc[Main] \in MainPc
  /\ \A w \in Workers : pc[w] \in WorkerPc

DataOK ==
  /\ gil \in Threads \cup {None}
  /\ thread_list \in SUBSET Threads
  /\ allocated \in SUBSET Workers
  /\ ready \in [Threads -> BOOLEAN]
  /\ startup_exception \in [Threads -> BOOLEAN]
  /\ pending_exception \in [Threads -> BOOLEAN]
  /\ gc_regs_valid \in [Threads -> BOOLEAN]
  /\ user_data \in [Threads -> BOOLEAN]
  /\ child \in [Threads -> Workers \cup {None}]
  /\ notify_deinit \in [Threads -> BOOLEAN]
  /\ deinit_waiting \in BOOLEAN
  /\ thread_finished_sem \in Nat
  /\ active_thread_count \in Nat
  /\ creates \in 0..MaxCreates

TypeOK == PcOK /\ DataOK

(* Program points at which a thread touches the VM, and those at which a   *)
(* thread that does not run holds references to Python objects.            *)
UsesVm == {"boot", "py", "creating", "created", "starting", "finishing",
           "unlinked", "finished", "withdrawn", "told", "atexit", "teardown"}
HoldsObjects == {"py", "blocked", "creating", "created", "atexit"}

(* Whoever touches the VM owns the GIL, from boot to teardown.  The reset  *)
(* gives the GIL up in the middle and has to get it back before it tears   *)
(* the VM down (mpthreadport.c:207).                                       *)
VmNeedsGil == \A t \in Threads : pc[t] \in UsesVm => gil = t

(* From the teardown of the VM until the next boot no worker exists in any *)
(* form: one that has left the registry has also posted its semaphore and  *)
(* released the GIL, so none of the primitives that mp_thread_deinit       *)
(* destroys is still in use, and its assertions hold.                      *)
TeardownAlone ==
  pc[Main] \in {"teardown", "deinit", "down", "init", "boot"} =>
    /\ \A w \in Workers : pc[w] = "dead"
    /\ pc[Main] # "teardown" /\ pc[Main] # "boot" => gil = None
    /\ pc[Main] \in {"teardown", "deinit"} =>
         thread_list = {Main} /\ active_thread_count = 1

(* The reset sleeps on thread_finished_sem only while somebody will post   *)
(* it: a worker that is still registered, or one that left the registry    *)
(* after deinit_waiting was set.                                           *)
NoLostWakeup ==
  pc[Main] = "semwait" /\ thread_finished_sem = 0 =>
    \E w \in Workers :
      \/ w \in thread_list
      \/ pc[w] = "unlinked" /\ notify_deinit[w]

(* A registry entry is used only while it is allocated: by its own thread  *)
(* through user_data when it releases the GIL, by its creator when it      *)
(* returns new_thread->id after the list lock is gone.                     *)
NoFreedEntryUse ==
  \A t \in Threads :
    /\ t # Main /\ user_data[t] => t \in allocated
    /\ pc[t] = "created" => child[t] \in allocated

(* Every allocated entry is linked, or belongs to a thread that is being   *)
(* created or is finishing; and the thread counter counts the registry.    *)
RegistryConsistent ==
  /\ \A w \in allocated :
       \/ w \in thread_list
       \/ pc[w] = "unlinked"
       \/ \E t \in Threads : pc[t] = "creating" /\ child[t] = w
  /\ pc[Main] # "down" => active_thread_count = Cardinality(thread_list)

(* Whenever a thread may collect garbage, every other thread that holds    *)
(* Python objects is one whose stack and registers mp_thread_gc_others     *)
(* scans, and the argument of a thread that has not started is a root.     *)
GcSeesEveryThread ==
  \A t, u \in Threads :
    gil = t /\ pc[t] \in {"py", "creating", "created"} /\ u # t =>
      /\ pc[u] \in HoldsObjects =>
           u \in thread_list /\ ready[u] /\ gc_regs_valid[u]
      /\ pc[u] \in {"new", "starting"} => u \in thread_list

(* While the reset waits, every worker still in the registry that has not  *)
(* begun to unwind has SystemExit in store: pending, or to be transferred  *)
(* when it starts.                                                         *)
ExitReachesWorkers ==
  pc[Main] \in {"told", "unlocked", "shutdown", "scan", "semwait"} =>
    \A w \in thread_list \ {Main} :
      /\ pc[w] \in {"new", "starting"} => startup_exception[w]
      /\ pc[w] \in {"py", "blocked", "creating", "created"} =>
           pending_exception[w]

(* The registry implements the life of the VM that VmLifecycle promises:   *)
(* mp_deinit() runs when no thread is left, and no thread starts without a *)
(* VM.                                                                     *)
Lifecycle == INSTANCE VmLifecycle WITH
  phase <- IF pc[Main] \in {"deinit", "down", "init"} THEN "down"
           ELSE IF Resetting THEN "ending" ELSE "up",
  alive <- {w \in Workers : pc[w] # "dead"}

VmLifecycleSpec == Lifecycle!Spec

(* A soft reset that was begun ends: the shutdown of the workers completes *)
(* and the interpreter boots again.                                        *)
ResetCompletes == (pc[Main] = "withdrawn") ~> (pc[Main] = "py")

=============================================================================
