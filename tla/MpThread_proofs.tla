--------------------------- MODULE MpThread_proofs ---------------------------
(***************************************************************************)
(* Theorems about MpThread, for every set of workers and every bound on    *)
(* the creations.                                                          *)
(***************************************************************************)
EXTENDS MpThread, FiniteSetTheorems, TLAPS

(* A worker is linked from the end of CreateSpawn to FinishUnlink, and its *)
(* entry is allocated one step longer at either end.                       *)
LinkedPc == {"new", "starting", "py", "blocked", "creating", "created",
             "finishing"}
EntryPc  == LinkedPc \cup {"unlinked"}

(* Exactly the thread that touches the VM owns the GIL, the exit handler   *)
(* aside.                                                                  *)
GilOwner == \A t \in Threads : pc[t] \in UsesVm \ {"atexit"} <=> gil = t

Linked ==
  /\ \A w \in Workers : w \in thread_list <=> pc[w] \in LinkedPc
  /\ Main \in thread_list <=> pc[Main] # "down"

(* No worker is left once the reset has seen an empty registry and taken   *)
(* the GIL.                                                                *)
Quiet ==
  /\ pc[Main] \in {"regain", "teardown", "deinit", "init", "boot"} =>
       thread_list = {Main}
  /\ pc[Main] \in {"teardown", "deinit", "down", "init", "boot"} =>
       \A w \in Workers : pc[w] = "dead"

Waiting ==
  /\ pc[Main] \in {"scan", "semwait"} => deinit_waiting
  /\ NoLostWakeup

Entries ==
  /\ \A w \in Workers : pc[w] \in EntryPc => w \in allocated
  /\ \A w \in Workers : user_data[w] => pc[w] \in EntryPc
  /\ \A t \in Threads : pc[t] = "creating" =>
       child[t] \in allocated /\ pc[child[t]] = "dead" /\ creates < MaxCreates
  /\ \A t \in Threads : pc[t] = "created" =>
       child[t] \in Workers /\ pc[child[t]] = "new"

(* The counter of threads counts the registry.                             *)
Counted == pc[Main] # "down" => active_thread_count = Cardinality(thread_list)

(* The inductive invariant.                                                *)
IInv == TypeOK /\ GilOwner /\ Linked /\ Quiet /\ Waiting /\ Entries /\ Counted

(* The conjuncts of Next as one list, for the case splits below.           *)
LEMMA StepCases ==
  ASSUME [Next]_vars
  PROVE  \/ mp_thread_init \/ mp_init \/ SetMainReady \/ ClearMainReady
         \/ mp_thread_set_exception_other \/ ResetGilExit \/ AtExitCall
         \/ AtExitDone \/ ShutdownBegin \/ ShutdownScan \/ ShutdownWait
         \/ ShutdownGil \/ VmTeardown \/ mp_thread_deinit
         \/ mp_thread_set_exception_main
         \/ \E w \in Workers :
              \/ EntryGil(w) \/ mp_thread_start(w) \/ EntryReturn(w)
              \/ FinishUnlink(w) \/ FinishNotify(w) \/ EntryExit(w)
         \/ \E t \in Threads :
              \/ GilRelease(t) \/ GilAcquire(t) \/ Raise(t)
              \/ \E c \in Workers : CreateAlloc(t, c)
              \/ CreateSpawn(t) \/ CreateFail(t) \/ CreateReturn(t)
         \/ UNCHANGED vars
  BY Zenon DEF Next, MainNext, WorkerNext, ThreadNext

(* Main is a thread and no worker is main.                                 *)
LEMMA ThreadFacts ==
  /\ Main \in Threads
  /\ None \notin Threads
  /\ \A w \in Workers : w \in Threads /\ w # Main
  /\ \A t \in Threads : t = Main \/ t \in Workers
  BY ThreadAssumption DEF Threads

(* The registry is finite.                                                 *)
LEMMA FiniteList ==
  ASSUME thread_list \in SUBSET Threads
  PROVE  IsFiniteSet(thread_list) /\ Cardinality(thread_list) \in Nat
  <1>1. IsFiniteSet(Threads)
    BY ThreadAssumption, FS_AddElement DEF Threads
  <1> QED BY <1>1, FS_Subset, FS_CardinalityType

(* A finishing worker is linked, so the counter is positive.               *)
LEMMA FinishCount ==
  ASSUME IInv, NEW w \in Workers, pc[w] = "finishing"
  PROVE  w \in thread_list /\ pc[Main] # "down" /\ active_thread_count > 0
  <1>1. w \in thread_list /\ pc[Main] # "down"
    BY ThreadFacts DEF IInv, Linked, LinkedPc, Quiet
  <1>2. IsFiniteSet(thread_list) /\ Cardinality(thread_list) \in Nat
    BY FiniteList DEF IInv, TypeOK, DataOK
  <1>3. Cardinality(thread_list) # 0
    BY <1>1, <1>2, FS_EmptySet
  <1> QED BY <1>1, <1>2, <1>3 DEF IInv, Counted

(* Program points stay in their sets.                                      *)
LEMMA StepPcOK == ASSUME IInv, [Next]_vars PROVE PcOK'
  <1> PcOK /\ DataOK /\ Entries
    BY DEF IInv, TypeOK
  <1> USE ThreadFacts DEF PcOK, Goto, MainPc, WorkerPc
  <1>1. CASE mp_thread_init BY <1>1 DEF mp_thread_init
  <1>2. CASE mp_init BY <1>2 DEF mp_init
  <1>3. CASE SetMainReady BY <1>3 DEF SetMainReady
  <1>4. CASE ClearMainReady BY <1>4 DEF ClearMainReady
  <1>5. CASE mp_thread_set_exception_other
    BY <1>5 DEF mp_thread_set_exception_other
  <1>6. CASE ResetGilExit BY <1>6 DEF ResetGilExit
  <1>7. CASE AtExitCall BY <1>7 DEF AtExitCall
  <1>8. CASE AtExitDone BY <1>8 DEF AtExitDone
  <1>9. CASE ShutdownBegin BY <1>9 DEF ShutdownBegin
  <1>10. CASE ShutdownScan BY <1>10 DEF ShutdownScan
  <1>11. CASE ShutdownWait BY <1>11 DEF ShutdownWait
  <1>12. CASE ShutdownGil BY <1>12 DEF ShutdownGil
  <1>13. CASE VmTeardown BY <1>13 DEF VmTeardown
  <1>14. CASE mp_thread_deinit BY <1>14 DEF mp_thread_deinit
  <1>15. CASE mp_thread_set_exception_main
    BY <1>15 DEF mp_thread_set_exception_main
  <1>16. ASSUME NEW w \in Workers, EntryGil(w) PROVE PcOK'
    BY <1>16 DEF EntryGil
  <1>17. ASSUME NEW w \in Workers, mp_thread_start(w) PROVE PcOK'
    BY <1>17 DEF mp_thread_start
  <1>18. ASSUME NEW w \in Workers, EntryReturn(w) PROVE PcOK'
    BY <1>18 DEF EntryReturn
  <1>19. ASSUME NEW w \in Workers, FinishUnlink(w) PROVE PcOK'
    BY <1>19 DEF FinishUnlink
  <1>20. ASSUME NEW w \in Workers, FinishNotify(w) PROVE PcOK'
    BY <1>20 DEF FinishNotify
  <1>21. ASSUME NEW w \in Workers, EntryExit(w) PROVE PcOK'
    BY <1>21 DEF EntryExit
  <1>22. ASSUME NEW t \in Threads, GilRelease(t) PROVE PcOK'
    BY <1>22 DEF GilRelease
  <1>23. ASSUME NEW t \in Threads, GilAcquire(t) PROVE PcOK'
    BY <1>23 DEF GilAcquire
  <1>24. ASSUME NEW t \in Threads, Raise(t) PROVE PcOK'
    BY <1>24 DEF Raise
  <1>25. ASSUME NEW t \in Threads, CreateSpawn(t) PROVE PcOK'
    BY <1>25 DEF CreateSpawn, Entries, DataOK
  <1>26. ASSUME NEW t \in Threads, CreateFail(t) PROVE PcOK'
    BY <1>26 DEF CreateFail
  <1>27. ASSUME NEW t \in Threads, CreateReturn(t) PROVE PcOK'
    BY <1>27 DEF CreateReturn
  <1>28. ASSUME NEW t \in Threads, NEW c \in Workers, CreateAlloc(t, c)
         PROVE  PcOK'
    BY <1>28 DEF CreateAlloc
  <1>29. CASE UNCHANGED vars BY <1>29 DEF vars
  <1> QED
    BY StepCases, <1>1, <1>2, <1>3, <1>4, <1>5, <1>6, <1>7, <1>8, <1>9,
       <1>10, <1>11, <1>12, <1>13, <1>14, <1>15, <1>16, <1>17, <1>18,
       <1>19, <1>20, <1>21, <1>22, <1>23, <1>24, <1>25, <1>26, <1>27,
       <1>28, <1>29

(* So do all other variables.                                              *)
LEMMA StepDataOK == ASSUME IInv, [Next]_vars PROVE DataOK'
  <1> DataOK /\ Entries
    BY DEF IInv, TypeOK
  <1> USE ThreadFacts, ThreadAssumption DEF DataOK, Goto, registry, locals, shutdown, SaveRegs
  <1>1. CASE mp_thread_init
    <2>1. thread_list' \in SUBSET Threads
      BY <1>1 DEF mp_thread_init
    <2>2. 0 \in Nat /\ 1 \in Nat /\ 0 \in 0..MaxCreates
      OBVIOUS
    <2>3. /\ ready' \in [Threads -> BOOLEAN]
          /\ startup_exception' \in [Threads -> BOOLEAN]
          /\ gc_regs_valid' \in [Threads -> BOOLEAN]
          /\ user_data' \in [Threads -> BOOLEAN]
      BY <1>1 DEF mp_thread_init
    <2> QED BY <1>1, <2>1, <2>2, <2>3, Zenon DEF mp_thread_init
  <1>2. CASE mp_init BY <1>2 DEF mp_init
  <1>3. CASE SetMainReady BY <1>3 DEF SetMainReady
  <1>4. CASE ClearMainReady BY <1>4 DEF ClearMainReady
  <1>5. CASE mp_thread_set_exception_other
    BY <1>5 DEF mp_thread_set_exception_other
  <1>6. CASE ResetGilExit BY <1>6 DEF ResetGilExit
  <1>7. CASE AtExitCall BY <1>7 DEF AtExitCall
  <1>8. CASE AtExitDone BY <1>8 DEF AtExitDone
  <1>9. CASE ShutdownBegin BY <1>9 DEF ShutdownBegin
  <1>10. CASE ShutdownScan BY <1>10 DEF ShutdownScan
  <1>11. CASE ShutdownWait BY <1>11 DEF ShutdownWait, SemWait
  <1>12. CASE ShutdownGil BY <1>12 DEF ShutdownGil
  <1>13. CASE VmTeardown BY <1>13 DEF VmTeardown
  <1>14. CASE mp_thread_deinit BY <1>14 DEF mp_thread_deinit
  <1>15. CASE mp_thread_set_exception_main
    BY <1>15 DEF mp_thread_set_exception_main
  <1>16. ASSUME NEW w \in Workers, EntryGil(w) PROVE DataOK'
    BY <1>16 DEF EntryGil
  <1>17. ASSUME NEW w \in Workers, mp_thread_start(w) PROVE DataOK'
    BY <1>17 DEF mp_thread_start
  <1>18. ASSUME NEW w \in Workers, EntryReturn(w) PROVE DataOK'
    BY <1>18 DEF EntryReturn
  <1>19. ASSUME NEW w \in Workers, FinishUnlink(w) PROVE DataOK'
    BY <1>19, FinishCount DEF FinishUnlink
  <1>20. ASSUME NEW w \in Workers, FinishNotify(w) PROVE DataOK'
    BY <1>20 DEF FinishNotify
  <1>21. ASSUME NEW w \in Workers, EntryExit(w) PROVE DataOK'
    BY <1>21 DEF EntryExit
  <1>22. ASSUME NEW t \in Threads, GilRelease(t) PROVE DataOK'
    BY <1>22 DEF GilRelease
  <1>23. ASSUME NEW t \in Threads, GilAcquire(t) PROVE DataOK'
    BY <1>23 DEF GilAcquire
  <1>24. ASSUME NEW t \in Threads, Raise(t) PROVE DataOK'
    BY <1>24 DEF Raise
  <1>25. ASSUME NEW t \in Threads, CreateSpawn(t) PROVE DataOK'
    BY <1>25 DEF CreateSpawn, Entries
  <1>26. ASSUME NEW t \in Threads, CreateFail(t) PROVE DataOK'
    BY <1>26 DEF CreateFail
  <1>27. ASSUME NEW t \in Threads, CreateReturn(t) PROVE DataOK'
    BY <1>27 DEF CreateReturn
  <1>28. ASSUME NEW t \in Threads, NEW c \in Workers, CreateAlloc(t, c)
         PROVE  DataOK'
    BY <1>28 DEF CreateAlloc
  <1>29. CASE UNCHANGED vars BY <1>29 DEF vars
  <1> QED
    BY StepCases, <1>1, <1>2, <1>3, <1>4, <1>5, <1>6, <1>7, <1>8, <1>9,
       <1>10, <1>11, <1>12, <1>13, <1>14, <1>15, <1>16, <1>17, <1>18,
       <1>19, <1>20, <1>21, <1>22, <1>23, <1>24, <1>25, <1>26, <1>27,
       <1>28, <1>29

(* The owner of the GIL follows the threads.                               *)
LEMMA StepGilOwner == ASSUME IInv, [Next]_vars PROVE GilOwner'
  <1> PcOK /\ DataOK /\ GilOwner /\ Quiet /\ Entries
    BY DEF IInv, TypeOK
  <1> USE ThreadFacts DEF PcOK, DataOK, GilOwner, UsesVm, Goto
  <1>1. CASE mp_thread_init BY <1>1 DEF mp_thread_init
  <1>2. CASE mp_init BY <1>2 DEF mp_init, Quiet
  <1>3. CASE SetMainReady BY <1>3 DEF SetMainReady
  <1>4. CASE ClearMainReady BY <1>4 DEF ClearMainReady
  <1>5. CASE mp_thread_set_exception_other
    BY <1>5 DEF mp_thread_set_exception_other
  <1>6. CASE ResetGilExit BY <1>6 DEF ResetGilExit
  <1>7. CASE AtExitCall BY <1>7 DEF AtExitCall
  <1>8. CASE AtExitDone BY <1>8 DEF AtExitDone
  <1>9. CASE ShutdownBegin BY <1>9 DEF ShutdownBegin
  <1>10. CASE ShutdownScan BY <1>10 DEF ShutdownScan
  <1>11. CASE ShutdownWait BY <1>11 DEF ShutdownWait
  <1>12. CASE ShutdownGil BY <1>12 DEF ShutdownGil
  <1>13. CASE VmTeardown BY <1>13 DEF VmTeardown
  <1>14. CASE mp_thread_deinit BY <1>14 DEF mp_thread_deinit
  <1>15. CASE mp_thread_set_exception_main
    BY <1>15 DEF mp_thread_set_exception_main
  <1>16. ASSUME NEW w \in Workers, EntryGil(w) PROVE GilOwner'
    BY <1>16 DEF EntryGil
  <1>17. ASSUME NEW w \in Workers, mp_thread_start(w) PROVE GilOwner'
    BY <1>17 DEF mp_thread_start
  <1>18. ASSUME NEW w \in Workers, EntryReturn(w) PROVE GilOwner'
    BY <1>18 DEF EntryReturn
  <1>19. ASSUME NEW w \in Workers, FinishUnlink(w) PROVE GilOwner'
    BY <1>19 DEF FinishUnlink
  <1>20. ASSUME NEW w \in Workers, FinishNotify(w) PROVE GilOwner'
    BY <1>20 DEF FinishNotify
  <1>21. ASSUME NEW w \in Workers, EntryExit(w) PROVE GilOwner'
    BY <1>21 DEF EntryExit
  <1>22. ASSUME NEW t \in Threads, GilRelease(t) PROVE GilOwner'
    BY <1>22 DEF GilRelease
  <1>23. ASSUME NEW t \in Threads, GilAcquire(t) PROVE GilOwner'
    BY <1>23 DEF GilAcquire
  <1>24. ASSUME NEW t \in Threads, Raise(t) PROVE GilOwner'
    BY <1>24 DEF Raise
  <1>25. ASSUME NEW t \in Threads, CreateSpawn(t) PROVE GilOwner'
    BY <1>25 DEF CreateSpawn, Entries
  <1>26. ASSUME NEW t \in Threads, CreateFail(t) PROVE GilOwner'
    BY <1>26 DEF CreateFail
  <1>27. ASSUME NEW t \in Threads, CreateReturn(t) PROVE GilOwner'
    BY <1>27 DEF CreateReturn
  <1>28. ASSUME NEW t \in Threads, NEW c \in Workers, CreateAlloc(t, c)
         PROVE  GilOwner'
    BY <1>28 DEF CreateAlloc
  <1>29. CASE UNCHANGED vars BY <1>29 DEF vars
  <1> QED
    BY StepCases, <1>1, <1>2, <1>3, <1>4, <1>5, <1>6, <1>7, <1>8, <1>9,
       <1>10, <1>11, <1>12, <1>13, <1>14, <1>15, <1>16, <1>17, <1>18,
       <1>19, <1>20, <1>21, <1>22, <1>23, <1>24, <1>25, <1>26, <1>27,
       <1>28, <1>29

(* A worker is in the registry exactly while it should be.                 *)
LEMMA StepLinked == ASSUME IInv, [Next]_vars PROVE Linked'
  <1> PcOK /\ DataOK /\ Linked /\ Quiet /\ Entries
    BY DEF IInv, TypeOK
  <1> USE ThreadFacts DEF PcOK, DataOK, Linked, LinkedPc, Goto, registry
  <1>1. CASE mp_thread_init BY <1>1 DEF mp_thread_init, Quiet
  <1>2. CASE mp_init BY <1>2 DEF mp_init
  <1>3. CASE SetMainReady BY <1>3 DEF SetMainReady
  <1>4. CASE ClearMainReady BY <1>4 DEF ClearMainReady
  <1>5. CASE mp_thread_set_exception_other
    BY <1>5 DEF mp_thread_set_exception_other
  <1>6. CASE ResetGilExit BY <1>6 DEF ResetGilExit
  <1>7. CASE AtExitCall BY <1>7 DEF AtExitCall
  <1>8. CASE AtExitDone BY <1>8 DEF AtExitDone
  <1>9. CASE ShutdownBegin BY <1>9 DEF ShutdownBegin
  <1>10. CASE ShutdownScan BY <1>10 DEF ShutdownScan
  <1>11. CASE ShutdownWait BY <1>11 DEF ShutdownWait
  <1>12. CASE ShutdownGil BY <1>12 DEF ShutdownGil
  <1>13. CASE VmTeardown BY <1>13 DEF VmTeardown
  <1>14. CASE mp_thread_deinit BY <1>14 DEF mp_thread_deinit, Quiet
  <1>15. CASE mp_thread_set_exception_main
    BY <1>15 DEF mp_thread_set_exception_main
  <1>16. ASSUME NEW w \in Workers, EntryGil(w) PROVE Linked'
    BY <1>16 DEF EntryGil
  <1>17. ASSUME NEW w \in Workers, mp_thread_start(w) PROVE Linked'
    BY <1>17 DEF mp_thread_start
  <1>18. ASSUME NEW w \in Workers, EntryReturn(w) PROVE Linked'
    BY <1>18 DEF EntryReturn
  <1>19. ASSUME NEW w \in Workers, FinishUnlink(w) PROVE Linked'
    BY <1>19 DEF FinishUnlink
  <1>20. ASSUME NEW w \in Workers, FinishNotify(w) PROVE Linked'
    BY <1>20 DEF FinishNotify
  <1>21. ASSUME NEW w \in Workers, EntryExit(w) PROVE Linked'
    BY <1>21 DEF EntryExit
  <1>22. ASSUME NEW t \in Threads, GilRelease(t) PROVE Linked'
    BY <1>22 DEF GilRelease
  <1>23. ASSUME NEW t \in Threads, GilAcquire(t) PROVE Linked'
    BY <1>23 DEF GilAcquire
  <1>24. ASSUME NEW t \in Threads, Raise(t) PROVE Linked'
    BY <1>24 DEF Raise
  <1>25. ASSUME NEW t \in Threads, CreateSpawn(t) PROVE Linked'
    BY <1>25 DEF CreateSpawn, Entries
  <1>26. ASSUME NEW t \in Threads, CreateFail(t) PROVE Linked'
    BY <1>26 DEF CreateFail
  <1>27. ASSUME NEW t \in Threads, CreateReturn(t) PROVE Linked'
    BY <1>27 DEF CreateReturn
  <1>28. ASSUME NEW t \in Threads, NEW c \in Workers, CreateAlloc(t, c)
         PROVE  Linked'
    BY <1>28 DEF CreateAlloc
  <1>29. CASE UNCHANGED vars BY <1>29 DEF vars
  <1> QED
    BY StepCases, <1>1, <1>2, <1>3, <1>4, <1>5, <1>6, <1>7, <1>8, <1>9,
       <1>10, <1>11, <1>12, <1>13, <1>14, <1>15, <1>16, <1>17, <1>18,
       <1>19, <1>20, <1>21, <1>22, <1>23, <1>24, <1>25, <1>26, <1>27,
       <1>28, <1>29

(* Nothing starts once the reset is alone.                                 *)
LEMMA StepQuiet == ASSUME IInv, [Next]_vars PROVE Quiet'
  <1> PcOK /\ DataOK /\ GilOwner /\ Linked /\ Quiet /\ Entries
    BY DEF IInv, TypeOK
  <1> USE ThreadFacts DEF PcOK, DataOK, Linked, LinkedPc, Quiet, Goto, registry
  <1>1. CASE mp_thread_init BY <1>1 DEF mp_thread_init
  <1>2. CASE mp_init BY <1>2 DEF mp_init
  <1>3. CASE SetMainReady BY <1>3 DEF SetMainReady
  <1>4. CASE ClearMainReady BY <1>4 DEF ClearMainReady
  <1>5. CASE mp_thread_set_exception_other
    BY <1>5 DEF mp_thread_set_exception_other
  <1>6. CASE ResetGilExit BY <1>6 DEF ResetGilExit
  <1>7. CASE AtExitCall BY <1>7 DEF AtExitCall
  <1>8. CASE AtExitDone BY <1>8 DEF AtExitDone
  <1>9. CASE ShutdownBegin BY <1>9 DEF ShutdownBegin
  <1>10. CASE ShutdownScan BY <1>10 DEF ShutdownScan
  <1>11. CASE ShutdownWait BY <1>11 DEF ShutdownWait
  <1>12. CASE ShutdownGil
    BY <1>12 DEF ShutdownGil, GilOwner, UsesVm, WorkerPc
  <1>13. CASE VmTeardown BY <1>13 DEF VmTeardown
  <1>14. CASE mp_thread_deinit BY <1>14 DEF mp_thread_deinit
  <1>15. CASE mp_thread_set_exception_main
    BY <1>15 DEF mp_thread_set_exception_main
  <1>16. ASSUME NEW w \in Workers, EntryGil(w) PROVE Quiet'
    BY <1>16 DEF EntryGil
  <1>17. ASSUME NEW w \in Workers, mp_thread_start(w) PROVE Quiet'
    BY <1>17 DEF mp_thread_start
  <1>18. ASSUME NEW w \in Workers, EntryReturn(w) PROVE Quiet'
    BY <1>18 DEF EntryReturn
  <1>19. ASSUME NEW w \in Workers, FinishUnlink(w) PROVE Quiet'
    BY <1>19 DEF FinishUnlink
  <1>20. ASSUME NEW w \in Workers, FinishNotify(w) PROVE Quiet'
    BY <1>20 DEF FinishNotify
  <1>21. ASSUME NEW w \in Workers, EntryExit(w) PROVE Quiet'
    BY <1>21 DEF EntryExit
  <1>22. ASSUME NEW t \in Threads, GilRelease(t) PROVE Quiet'
    BY <1>22 DEF GilRelease
  <1>23. ASSUME NEW t \in Threads, GilAcquire(t) PROVE Quiet'
    BY <1>23 DEF GilAcquire
  <1>24. ASSUME NEW t \in Threads, Raise(t) PROVE Quiet'
    BY <1>24 DEF Raise
  <1>25. ASSUME NEW t \in Threads, CreateSpawn(t) PROVE Quiet'
    BY <1>25 DEF CreateSpawn, Entries
  <1>26. ASSUME NEW t \in Threads, CreateFail(t) PROVE Quiet'
    BY <1>26 DEF CreateFail
  <1>27. ASSUME NEW t \in Threads, CreateReturn(t) PROVE Quiet'
    BY <1>27 DEF CreateReturn
  <1>28. ASSUME NEW t \in Threads, NEW c \in Workers, CreateAlloc(t, c)
         PROVE  Quiet'
    BY <1>28 DEF CreateAlloc
  <1>29. CASE UNCHANGED vars BY <1>29 DEF vars
  <1> QED
    BY StepCases, <1>1, <1>2, <1>3, <1>4, <1>5, <1>6, <1>7, <1>8, <1>9,
       <1>10, <1>11, <1>12, <1>13, <1>14, <1>15, <1>16, <1>17, <1>18,
       <1>19, <1>20, <1>21, <1>22, <1>23, <1>24, <1>25, <1>26, <1>27,
       <1>28, <1>29

(* Nobody's last post is missed.                                           *)
LEMMA StepWaiting == ASSUME IInv, [Next]_vars PROVE Waiting'
  <1> PcOK /\ DataOK /\ Linked /\ Waiting /\ Entries
    BY DEF IInv, TypeOK
  <1> USE ThreadFacts DEF PcOK, DataOK, Waiting, NoLostWakeup, Goto, registry, shutdown, locals
  <1>1. CASE mp_thread_init BY <1>1 DEF mp_thread_init
  <1>2. CASE mp_init BY <1>2 DEF mp_init
  <1>3. CASE SetMainReady BY <1>3 DEF SetMainReady
  <1>4. CASE ClearMainReady BY <1>4 DEF ClearMainReady
  <1>5. CASE mp_thread_set_exception_other
    BY <1>5 DEF mp_thread_set_exception_other
  <1>6. CASE ResetGilExit BY <1>6 DEF ResetGilExit
  <1>7. CASE AtExitCall BY <1>7 DEF AtExitCall
  <1>8. CASE AtExitDone BY <1>8 DEF AtExitDone
  <1>9. CASE ShutdownBegin BY <1>9 DEF ShutdownBegin
  <1>10. CASE ShutdownScan BY <1>10 DEF ShutdownScan, Linked
  <1>11. CASE ShutdownWait BY <1>11 DEF ShutdownWait, SemWait
  <1>12. CASE ShutdownGil BY <1>12 DEF ShutdownGil
  <1>13. CASE VmTeardown BY <1>13 DEF VmTeardown
  <1>14. CASE mp_thread_deinit BY <1>14 DEF mp_thread_deinit
  <1>15. CASE mp_thread_set_exception_main
    BY <1>15 DEF mp_thread_set_exception_main
  <1>16. ASSUME NEW w \in Workers, EntryGil(w) PROVE Waiting'
    BY <1>16 DEF EntryGil
  <1>17. ASSUME NEW w \in Workers, mp_thread_start(w) PROVE Waiting'
    BY <1>17 DEF mp_thread_start
  <1>18. ASSUME NEW w \in Workers, EntryReturn(w) PROVE Waiting'
    BY <1>18 DEF EntryReturn
  <1>19. ASSUME NEW w \in Workers, FinishUnlink(w) PROVE Waiting'
    BY <1>19 DEF FinishUnlink
  <1>20. ASSUME NEW w \in Workers, FinishNotify(w) PROVE Waiting'
    BY <1>20 DEF FinishNotify
  <1>21. ASSUME NEW w \in Workers, EntryExit(w) PROVE Waiting'
    BY <1>21 DEF EntryExit
  <1>22. ASSUME NEW t \in Threads, GilRelease(t) PROVE Waiting'
    BY <1>22 DEF GilRelease
  <1>23. ASSUME NEW t \in Threads, GilAcquire(t) PROVE Waiting'
    BY <1>23 DEF GilAcquire
  <1>24. ASSUME NEW t \in Threads, Raise(t) PROVE Waiting'
    BY <1>24 DEF Raise
  <1>25. ASSUME NEW t \in Threads, CreateSpawn(t) PROVE Waiting'
    BY <1>25 DEF CreateSpawn, Entries
  <1>26. ASSUME NEW t \in Threads, CreateFail(t) PROVE Waiting'
    BY <1>26 DEF CreateFail
  <1>27. ASSUME NEW t \in Threads, CreateReturn(t) PROVE Waiting'
    BY <1>27 DEF CreateReturn
  <1>28. ASSUME NEW t \in Threads, NEW c \in Workers, CreateAlloc(t, c)
         PROVE  Waiting'
    BY <1>28 DEF CreateAlloc
  <1>29. CASE UNCHANGED vars BY <1>29 DEF vars
  <1> QED
    BY StepCases, <1>1, <1>2, <1>3, <1>4, <1>5, <1>6, <1>7, <1>8, <1>9,
       <1>10, <1>11, <1>12, <1>13, <1>14, <1>15, <1>16, <1>17, <1>18,
       <1>19, <1>20, <1>21, <1>22, <1>23, <1>24, <1>25, <1>26, <1>27,
       <1>28, <1>29

(* Entries in use are allocated.                                           *)
LEMMA StepEntries == ASSUME IInv, [Next]_vars PROVE Entries'
  <1> PcOK /\ DataOK /\ GilOwner /\ Quiet /\ Entries
    BY DEF IInv, TypeOK
  <1> USE ThreadFacts DEF PcOK, DataOK, Entries, EntryPc, LinkedPc, GilOwner, UsesVm, Goto, registry, locals
  <1>1. CASE mp_thread_init
    <2>1. /\ allocated' = allocated /\ child' = child
          /\ \A w \in Workers : pc'[w] = "dead"
      BY <1>1 DEF mp_thread_init, Quiet
    <2>2. pc'[Main] = "init"
      BY <1>1 DEF mp_thread_init
    <2>3. \A w \in Workers : user_data'[w] = user_data[w] /\ pc[w] = "dead"
      BY <1>1 DEF mp_thread_init, Quiet
    <2> QED BY <2>1, <2>2, <2>3
  <1>2. CASE mp_init BY <1>2 DEF mp_init
  <1>3. CASE SetMainReady BY <1>3 DEF SetMainReady
  <1>4. CASE ClearMainReady BY <1>4 DEF ClearMainReady
  <1>5. CASE mp_thread_set_exception_other
    BY <1>5 DEF mp_thread_set_exception_other
  <1>6. CASE ResetGilExit BY <1>6 DEF ResetGilExit
  <1>7. CASE AtExitCall BY <1>7 DEF AtExitCall
  <1>8. CASE AtExitDone BY <1>8 DEF AtExitDone
  <1>9. CASE ShutdownBegin BY <1>9 DEF ShutdownBegin
  <1>10. CASE ShutdownScan BY <1>10 DEF ShutdownScan
  <1>11. CASE ShutdownWait BY <1>11 DEF ShutdownWait
  <1>12. CASE ShutdownGil BY <1>12 DEF ShutdownGil
  <1>13. CASE VmTeardown BY <1>13 DEF VmTeardown
  <1>14. CASE mp_thread_deinit BY <1>14 DEF mp_thread_deinit
  <1>15. CASE mp_thread_set_exception_main
    BY <1>15 DEF mp_thread_set_exception_main
  <1>16. ASSUME NEW w \in Workers, EntryGil(w) PROVE Entries'
    BY <1>16 DEF EntryGil
  <1>17. ASSUME NEW w \in Workers, mp_thread_start(w) PROVE Entries'
    BY <1>17 DEF mp_thread_start
  <1>18. ASSUME NEW w \in Workers, EntryReturn(w) PROVE Entries'
    BY <1>18 DEF EntryReturn
  <1>19. ASSUME NEW w \in Workers, FinishUnlink(w) PROVE Entries'
    BY <1>19 DEF FinishUnlink
  <1>20. ASSUME NEW w \in Workers, FinishNotify(w) PROVE Entries'
    BY <1>20 DEF FinishNotify
  <1>21. ASSUME NEW w \in Workers, EntryExit(w) PROVE Entries'
    BY <1>21 DEF EntryExit
  <1>22. ASSUME NEW t \in Threads, GilRelease(t) PROVE Entries'
    BY <1>22 DEF GilRelease
  <1>23. ASSUME NEW t \in Threads, GilAcquire(t) PROVE Entries'
    BY <1>23 DEF GilAcquire
  <1>24. ASSUME NEW t \in Threads, Raise(t) PROVE Entries'
    BY <1>24 DEF Raise
  <1>25. ASSUME NEW t \in Threads, CreateSpawn(t) PROVE Entries'
    BY <1>25 DEF CreateSpawn
  <1>26. ASSUME NEW t \in Threads, CreateFail(t) PROVE Entries'
    BY <1>26 DEF CreateFail
  <1>27. ASSUME NEW t \in Threads, CreateReturn(t) PROVE Entries'
    BY <1>27 DEF CreateReturn
  <1>28. ASSUME NEW t \in Threads, NEW c \in Workers, CreateAlloc(t, c)
         PROVE  Entries'
    BY <1>28 DEF CreateAlloc
  <1>29. CASE UNCHANGED vars BY <1>29 DEF vars
  <1> QED
    BY StepCases, <1>1, <1>2, <1>3, <1>4, <1>5, <1>6, <1>7, <1>8, <1>9,
       <1>10, <1>11, <1>12, <1>13, <1>14, <1>15, <1>16, <1>17, <1>18,
       <1>19, <1>20, <1>21, <1>22, <1>23, <1>24, <1>25, <1>26, <1>27,
       <1>28, <1>29

(* The counter follows the registry.                                       *)
LEMMA StepCounted == ASSUME IInv, [Next]_vars PROVE Counted'
  <1> PcOK /\ DataOK /\ Linked /\ Quiet /\ Counted /\ Entries
    BY DEF IInv, TypeOK
  <1> IsFiniteSet(thread_list) /\ Cardinality(thread_list) \in Nat
    BY FiniteList DEF DataOK
  <1> USE ThreadFacts DEF PcOK, DataOK, Counted, Goto, registry
  <1>1. CASE mp_thread_init BY <1>1, FS_Singleton DEF mp_thread_init
  <1>2. CASE mp_init BY <1>2 DEF mp_init
  <1>3. CASE SetMainReady BY <1>3 DEF SetMainReady
  <1>4. CASE ClearMainReady BY <1>4 DEF ClearMainReady
  <1>5. CASE mp_thread_set_exception_other
    BY <1>5 DEF mp_thread_set_exception_other
  <1>6. CASE ResetGilExit BY <1>6 DEF ResetGilExit
  <1>7. CASE AtExitCall BY <1>7 DEF AtExitCall
  <1>8. CASE AtExitDone BY <1>8 DEF AtExitDone
  <1>9. CASE ShutdownBegin BY <1>9 DEF ShutdownBegin
  <1>10. CASE ShutdownScan BY <1>10 DEF ShutdownScan
  <1>11. CASE ShutdownWait BY <1>11 DEF ShutdownWait
  <1>12. CASE ShutdownGil BY <1>12 DEF ShutdownGil
  <1>13. CASE VmTeardown BY <1>13 DEF VmTeardown
  <1>14. CASE mp_thread_deinit BY <1>14 DEF mp_thread_deinit
  <1>15. CASE mp_thread_set_exception_main
    BY <1>15 DEF mp_thread_set_exception_main
  <1>16. ASSUME NEW w \in Workers, EntryGil(w) PROVE Counted'
    BY <1>16 DEF EntryGil
  <1>17. ASSUME NEW w \in Workers, mp_thread_start(w) PROVE Counted'
    BY <1>17 DEF mp_thread_start
  <1>18. ASSUME NEW w \in Workers, EntryReturn(w) PROVE Counted'
    BY <1>18 DEF EntryReturn
  <1>19. ASSUME NEW w \in Workers, FinishUnlink(w) PROVE Counted'
    BY <1>19, FinishCount, FS_RemoveElement DEF FinishUnlink
  <1>20. ASSUME NEW w \in Workers, FinishNotify(w) PROVE Counted'
    BY <1>20 DEF FinishNotify
  <1>21. ASSUME NEW w \in Workers, EntryExit(w) PROVE Counted'
    BY <1>21 DEF EntryExit
  <1>22. ASSUME NEW t \in Threads, GilRelease(t) PROVE Counted'
    BY <1>22 DEF GilRelease
  <1>23. ASSUME NEW t \in Threads, GilAcquire(t) PROVE Counted'
    BY <1>23 DEF GilAcquire
  <1>24. ASSUME NEW t \in Threads, Raise(t) PROVE Counted'
    BY <1>24 DEF Raise
  <1>25. ASSUME NEW t \in Threads, CreateSpawn(t) PROVE Counted'
    <2>1. /\ child[t] \in Workers /\ pc[child[t]] = "dead"
          /\ pc[t] = "creating"
      BY <1>25 DEF CreateSpawn, Entries
    <2>2. child[t] \notin thread_list
      BY <2>1 DEF Linked, LinkedPc
    <2>3. pc[Main] # "down"
      BY <2>1 DEF Quiet
    <2>4. Cardinality(thread_list \cup {child[t]}) = Cardinality(thread_list) + 1
      BY <2>2, FS_AddElement
    <2> QED BY <1>25, <2>3, <2>4 DEF CreateSpawn
  <1>26. ASSUME NEW t \in Threads, CreateFail(t) PROVE Counted'
    BY <1>26 DEF CreateFail
  <1>27. ASSUME NEW t \in Threads, CreateReturn(t) PROVE Counted'
    BY <1>27 DEF CreateReturn
  <1>28. ASSUME NEW t \in Threads, NEW c \in Workers, CreateAlloc(t, c)
         PROVE  Counted'
    BY <1>28 DEF CreateAlloc
  <1>29. CASE UNCHANGED vars BY <1>29 DEF vars
  <1> QED
    BY StepCases, <1>1, <1>2, <1>3, <1>4, <1>5, <1>6, <1>7, <1>8, <1>9,
       <1>10, <1>11, <1>12, <1>13, <1>14, <1>15, <1>16, <1>17, <1>18,
       <1>19, <1>20, <1>21, <1>22, <1>23, <1>24, <1>25, <1>26, <1>27,
       <1>28, <1>29

-----------------------------------------------------------------------------
(* Theorems                                                                *)

LEMMA InitIInv == Init => IInv
  <1> SUFFICES ASSUME Init PROVE IInv
    OBVIOUS
  <1> USE ThreadFacts, ThreadAssumption DEF Init
  <1>1. PcOK BY DEF PcOK, MainPc, WorkerPc
  <1>2. DataOK
    <2>1. 0 \in Nat /\ 0 \in 0..MaxCreates
      OBVIOUS
    <2> QED BY <2>1, Zenon DEF DataOK
  <1>3. GilOwner BY DEF GilOwner, UsesVm
  <1>4. Linked /\ Quiet BY DEF Linked, LinkedPc, Quiet
  <1>5. Waiting /\ Counted BY DEF Waiting, NoLostWakeup, Counted
  <1>6. Entries BY DEF Entries, EntryPc, LinkedPc
  <1> QED
    BY <1>1, <1>2, <1>3, <1>4, <1>5, <1>6 DEF IInv, TypeOK

(* The inductive invariant holds in every reachable state.                 *)
THEOREM Inductive == Spec => []IInv
  <1>1. IInv /\ [Next]_vars => IInv'
    BY StepPcOK, StepDataOK, StepGilOwner, StepLinked, StepQuiet, StepWaiting,
       StepEntries, StepCounted DEF IInv, TypeOK
  <1> QED BY <1>1, InitIInv, PTL DEF Spec

(* Every reachable state is well typed.                                    *)
THEOREM TypeCorrect == Spec => []TypeOK
  <1>1. IInv => TypeOK BY DEF IInv
  <1> QED BY <1>1, Inductive, PTL

(* From the teardown of the VM to the next boot no worker is left, nobody  *)
(* owns the GIL that is destroyed, and mp_thread_deinit's asserts hold.    *)
THEOREM ResetIsAlone == Spec => []TeardownAlone
  <1>1. IInv => TeardownAlone
    <2> SUFFICES ASSUME IInv, pc[Main] \in {"teardown", "deinit", "down",
                                            "init", "boot"}
                 PROVE  /\ \A w \in Workers : pc[w] = "dead"
                        /\ pc[Main] # "teardown" /\ pc[Main] # "boot" =>
                             gil = None
                        /\ pc[Main] \in {"teardown", "deinit"} =>
                             thread_list = {Main} /\ active_thread_count = 1
      BY DEF TeardownAlone
    <2>1. \A w \in Workers : pc[w] = "dead"
      BY DEF IInv, Quiet
    <2>2. pc[Main] # "teardown" /\ pc[Main] # "boot" => gil = None
      BY <2>1, ThreadFacts DEF IInv, TypeOK, DataOK, GilOwner, UsesVm
    <2>3. pc[Main] \in {"teardown", "deinit"} =>
            thread_list = {Main} /\ active_thread_count = 1
      BY FS_Singleton DEF IInv, Quiet, Counted
    <2> QED BY <2>1, <2>2, <2>3
  <1> QED BY <1>1, Inductive, PTL

(* The reset never sleeps with nobody left to wake it.                     *)
THEOREM WakeupNotLost == Spec => []NoLostWakeup
  <1>1. IInv => NoLostWakeup BY DEF IInv, Waiting
  <1> QED BY <1>1, Inductive, PTL

(* No thread touches a registry entry that has been freed.                 *)
THEOREM EntriesAlive == Spec => []NoFreedEntryUse
  <1>1. IInv => NoFreedEntryUse
    BY ThreadFacts DEF IInv, Entries, EntryPc, LinkedPc, NoFreedEntryUse
  <1> QED BY <1>1, Inductive, PTL

-----------------------------------------------------------------------------
(* Main runs an exit handler only if the script registered one.            *)
Handler == pc[Main] = "atexit" => "atexit" \in Habits

LEMMA StepHandler == ASSUME IInv, Handler, [Next]_vars PROVE Handler'
  <1> PcOK /\ DataOK /\ Entries
    BY DEF IInv, TypeOK
  <1> USE ThreadFacts DEF PcOK, DataOK, Handler, Goto
  <1>1. CASE mp_thread_init BY <1>1 DEF mp_thread_init
  <1>2. CASE mp_init BY <1>2 DEF mp_init
  <1>3. CASE SetMainReady BY <1>3 DEF SetMainReady
  <1>4. CASE ClearMainReady BY <1>4 DEF ClearMainReady
  <1>5. CASE mp_thread_set_exception_other
    BY <1>5 DEF mp_thread_set_exception_other
  <1>6. CASE ResetGilExit BY <1>6 DEF ResetGilExit
  <1>7. CASE AtExitCall BY <1>7 DEF AtExitCall
  <1>8. CASE AtExitDone BY <1>8 DEF AtExitDone
  <1>9. CASE ShutdownBegin BY <1>9 DEF ShutdownBegin
  <1>10. CASE ShutdownScan BY <1>10 DEF ShutdownScan
  <1>11. CASE ShutdownWait BY <1>11 DEF ShutdownWait
  <1>12. CASE ShutdownGil BY <1>12 DEF ShutdownGil
  <1>13. CASE VmTeardown BY <1>13 DEF VmTeardown
  <1>14. CASE mp_thread_deinit BY <1>14 DEF mp_thread_deinit
  <1>15. CASE mp_thread_set_exception_main
    BY <1>15 DEF mp_thread_set_exception_main
  <1>16. ASSUME NEW w \in Workers, EntryGil(w) PROVE Handler'
    BY <1>16 DEF EntryGil
  <1>17. ASSUME NEW w \in Workers, mp_thread_start(w) PROVE Handler'
    BY <1>17 DEF mp_thread_start
  <1>18. ASSUME NEW w \in Workers, EntryReturn(w) PROVE Handler'
    BY <1>18 DEF EntryReturn
  <1>19. ASSUME NEW w \in Workers, FinishUnlink(w) PROVE Handler'
    BY <1>19 DEF FinishUnlink
  <1>20. ASSUME NEW w \in Workers, FinishNotify(w) PROVE Handler'
    BY <1>20 DEF FinishNotify
  <1>21. ASSUME NEW w \in Workers, EntryExit(w) PROVE Handler'
    BY <1>21 DEF EntryExit
  <1>22. ASSUME NEW t \in Threads, GilRelease(t) PROVE Handler'
    BY <1>22 DEF GilRelease
  <1>23. ASSUME NEW t \in Threads, GilAcquire(t) PROVE Handler'
    BY <1>23 DEF GilAcquire
  <1>24. ASSUME NEW t \in Threads, Raise(t) PROVE Handler'
    BY <1>24 DEF Raise
  <1>25. ASSUME NEW t \in Threads, CreateSpawn(t) PROVE Handler'
    BY <1>25 DEF CreateSpawn, Entries
  <1>26. ASSUME NEW t \in Threads, CreateFail(t) PROVE Handler'
    BY <1>26 DEF CreateFail
  <1>27. ASSUME NEW t \in Threads, CreateReturn(t) PROVE Handler'
    BY <1>27 DEF CreateReturn
  <1>28. ASSUME NEW t \in Threads, NEW c \in Workers, CreateAlloc(t, c)
         PROVE  Handler'
    BY <1>28 DEF CreateAlloc
  <1>29. CASE UNCHANGED vars BY <1>29 DEF vars
  <1> QED
    BY StepCases, <1>1, <1>2, <1>3, <1>4, <1>5, <1>6, <1>7, <1>8, <1>9,
       <1>10, <1>11, <1>12, <1>13, <1>14, <1>15, <1>16, <1>17, <1>18,
       <1>19, <1>20, <1>21, <1>22, <1>23, <1>24, <1>25, <1>26, <1>27,
       <1>28, <1>29

(* If the script registers no exit handler, whoever touches the VM owns    *)
(* the GIL.                                                                *)
THEOREM VmExclusion == ASSUME "atexit" \notin Habits PROVE Spec => []VmNeedsGil
  <1>1. Init => Handler
    BY ThreadFacts DEF Init, Handler
  <1>2. IInv /\ Handler /\ [Next]_vars => Handler'
    BY StepHandler
  <1>3. IInv /\ Handler => VmNeedsGil
    BY ThreadFacts
    DEF IInv, TypeOK, PcOK, GilOwner, Handler, VmNeedsGil, UsesVm, WorkerPc
  <1> QED BY <1>1, <1>2, <1>3, Inductive, PTL DEF Spec

-----------------------------------------------------------------------------
(* An allocated entry is linked, or its thread is being created or has     *)
(* just been unlinked.                                                     *)
NotLeaked ==
  \A w \in allocated :
    pc[w] \in EntryPc \/ \E t \in Threads : pc[t] = "creating" /\ child[t] = w

LEMMA StepNotLeaked == ASSUME IInv, NotLeaked, [Next]_vars PROVE NotLeaked'
  <1> PcOK /\ DataOK /\ GilOwner /\ Entries
    BY DEF IInv, TypeOK
  <1> USE ThreadFacts DEF PcOK, DataOK, NotLeaked, EntryPc, LinkedPc, Goto, registry, locals
  <1>1. CASE mp_thread_init BY <1>1 DEF mp_thread_init
  <1>2. CASE mp_init BY <1>2 DEF mp_init
  <1>3. CASE SetMainReady BY <1>3 DEF SetMainReady
  <1>4. CASE ClearMainReady BY <1>4 DEF ClearMainReady
  <1>5. CASE mp_thread_set_exception_other
    BY <1>5 DEF mp_thread_set_exception_other
  <1>6. CASE ResetGilExit BY <1>6 DEF ResetGilExit
  <1>7. CASE AtExitCall BY <1>7 DEF AtExitCall
  <1>8. CASE AtExitDone BY <1>8 DEF AtExitDone
  <1>9. CASE ShutdownBegin BY <1>9 DEF ShutdownBegin
  <1>10. CASE ShutdownScan BY <1>10 DEF ShutdownScan
  <1>11. CASE ShutdownWait BY <1>11 DEF ShutdownWait
  <1>12. CASE ShutdownGil BY <1>12 DEF ShutdownGil
  <1>13. CASE VmTeardown BY <1>13 DEF VmTeardown
  <1>14. CASE mp_thread_deinit BY <1>14 DEF mp_thread_deinit
  <1>15. CASE mp_thread_set_exception_main
    BY <1>15 DEF mp_thread_set_exception_main
  <1>16. ASSUME NEW w \in Workers, EntryGil(w) PROVE NotLeaked'
    BY <1>16 DEF EntryGil
  <1>17. ASSUME NEW w \in Workers, mp_thread_start(w) PROVE NotLeaked'
    BY <1>17 DEF mp_thread_start
  <1>18. ASSUME NEW w \in Workers, EntryReturn(w) PROVE NotLeaked'
    BY <1>18 DEF EntryReturn
  <1>19. ASSUME NEW w \in Workers, FinishUnlink(w) PROVE NotLeaked'
    BY <1>19 DEF FinishUnlink
  <1>20. ASSUME NEW w \in Workers, FinishNotify(w) PROVE NotLeaked'
    BY <1>20 DEF FinishNotify
  <1>21. ASSUME NEW w \in Workers, EntryExit(w) PROVE NotLeaked'
    BY <1>21 DEF EntryExit
  <1>22. ASSUME NEW t \in Threads, GilRelease(t) PROVE NotLeaked'
    BY <1>22 DEF GilRelease
  <1>23. ASSUME NEW t \in Threads, GilAcquire(t) PROVE NotLeaked'
    BY <1>23 DEF GilAcquire
  <1>24. ASSUME NEW t \in Threads, Raise(t) PROVE NotLeaked'
    BY <1>24 DEF Raise
  <1>25. ASSUME NEW t \in Threads, CreateSpawn(t) PROVE NotLeaked'
    BY <1>25 DEF CreateSpawn, Entries
  <1>26. ASSUME NEW t \in Threads, CreateFail(t) PROVE NotLeaked'
    BY <1>26 DEF CreateFail, Entries, GilOwner, UsesVm
  <1>27. ASSUME NEW t \in Threads, CreateReturn(t) PROVE NotLeaked'
    BY <1>27 DEF CreateReturn
  <1>28. ASSUME NEW t \in Threads, NEW c \in Workers, CreateAlloc(t, c)
         PROVE  NotLeaked'
    BY <1>28 DEF CreateAlloc
  <1>29. CASE UNCHANGED vars BY <1>29 DEF vars
  <1> QED
    BY StepCases, <1>1, <1>2, <1>3, <1>4, <1>5, <1>6, <1>7, <1>8, <1>9,
       <1>10, <1>11, <1>12, <1>13, <1>14, <1>15, <1>16, <1>17, <1>18,
       <1>19, <1>20, <1>21, <1>22, <1>23, <1>24, <1>25, <1>26, <1>27,
       <1>28, <1>29

(* No entry is ever lost, and the thread counter that guards the asserts   *)
(* and the GIL yield is the size of the registry.                          *)
THEOREM RegistryExact == Spec => []RegistryConsistent
  <1>1. Init => NotLeaked
    BY DEF Init, NotLeaked
  <1>2. IInv /\ NotLeaked /\ [Next]_vars => NotLeaked'
    BY StepNotLeaked
  <1>3. IInv /\ NotLeaked => RegistryConsistent
    BY DEF IInv, TypeOK, DataOK, NotLeaked, EntryPc, Linked, Counted,
           RegistryConsistent
  <1> QED BY <1>1, <1>2, <1>3, Inductive, PTL DEF Spec

-----------------------------------------------------------------------------
(* A thread that runs Python is ready and has its entry in user_data; one  *)
(* that is blocked has left its registers for the collector.               *)
Scannable ==
  \A t \in Threads :
    /\ pc[t] \in {"py", "blocked", "creating", "created"} =>
         ready[t] /\ user_data[t]
    /\ pc[t] = "blocked" => gc_regs_valid[t]
    /\ t = Main /\ pc[t] # "down" => user_data[t]

LEMMA StepScannable == ASSUME IInv, Scannable, [Next]_vars PROVE Scannable'
  <1> PcOK /\ DataOK /\ Entries
    BY DEF IInv, TypeOK
  <1> USE ThreadFacts DEF PcOK, DataOK, Scannable, SaveRegs, Goto, registry
  <1>1. CASE mp_thread_init BY <1>1 DEF mp_thread_init
  <1>2. CASE mp_init BY <1>2 DEF mp_init
  <1>3. CASE SetMainReady BY <1>3 DEF SetMainReady
  <1>4. CASE ClearMainReady BY <1>4 DEF ClearMainReady
  <1>5. CASE mp_thread_set_exception_other
    BY <1>5 DEF mp_thread_set_exception_other
  <1>6. CASE ResetGilExit BY <1>6 DEF ResetGilExit
  <1>7. CASE AtExitCall BY <1>7 DEF AtExitCall
  <1>8. CASE AtExitDone BY <1>8 DEF AtExitDone
  <1>9. CASE ShutdownBegin BY <1>9 DEF ShutdownBegin
  <1>10. CASE ShutdownScan BY <1>10 DEF ShutdownScan
  <1>11. CASE ShutdownWait BY <1>11 DEF ShutdownWait
  <1>12. CASE ShutdownGil BY <1>12 DEF ShutdownGil
  <1>13. CASE VmTeardown BY <1>13 DEF VmTeardown
  <1>14. CASE mp_thread_deinit BY <1>14 DEF mp_thread_deinit
  <1>15. CASE mp_thread_set_exception_main
    BY <1>15 DEF mp_thread_set_exception_main
  <1>16. ASSUME NEW w \in Workers, EntryGil(w) PROVE Scannable'
    BY <1>16 DEF EntryGil
  <1>17. ASSUME NEW w \in Workers, mp_thread_start(w) PROVE Scannable'
    BY <1>17 DEF mp_thread_start
  <1>18. ASSUME NEW w \in Workers, EntryReturn(w) PROVE Scannable'
    BY <1>18 DEF EntryReturn
  <1>19. ASSUME NEW w \in Workers, FinishUnlink(w) PROVE Scannable'
    BY <1>19 DEF FinishUnlink
  <1>20. ASSUME NEW w \in Workers, FinishNotify(w) PROVE Scannable'
    BY <1>20 DEF FinishNotify
  <1>21. ASSUME NEW w \in Workers, EntryExit(w) PROVE Scannable'
    BY <1>21 DEF EntryExit
  <1>22. ASSUME NEW t \in Threads, GilRelease(t) PROVE Scannable'
    BY <1>22 DEF GilRelease
  <1>23. ASSUME NEW t \in Threads, GilAcquire(t) PROVE Scannable'
    BY <1>23 DEF GilAcquire
  <1>24. ASSUME NEW t \in Threads, Raise(t) PROVE Scannable'
    BY <1>24 DEF Raise
  <1>25. ASSUME NEW t \in Threads, CreateSpawn(t) PROVE Scannable'
    BY <1>25 DEF CreateSpawn, Entries
  <1>26. ASSUME NEW t \in Threads, CreateFail(t) PROVE Scannable'
    BY <1>26 DEF CreateFail
  <1>27. ASSUME NEW t \in Threads, CreateReturn(t) PROVE Scannable'
    BY <1>27 DEF CreateReturn
  <1>28. ASSUME NEW t \in Threads, NEW c \in Workers, CreateAlloc(t, c)
         PROVE  Scannable'
    BY <1>28 DEF CreateAlloc
  <1>29. CASE UNCHANGED vars BY <1>29 DEF vars
  <1> QED
    BY StepCases, <1>1, <1>2, <1>3, <1>4, <1>5, <1>6, <1>7, <1>8, <1>9,
       <1>10, <1>11, <1>12, <1>13, <1>14, <1>15, <1>16, <1>17, <1>18,
       <1>19, <1>20, <1>21, <1>22, <1>23, <1>24, <1>25, <1>26, <1>27,
       <1>28, <1>29

(* If the script registers no exit handler, a collection sees every thread *)
(* that holds Python objects.                                              *)
THEOREM CollectorSeesAll ==
  ASSUME "atexit" \notin Habits PROVE Spec => []GcSeesEveryThread
  <1>1. Init => Handler /\ Scannable
    BY ThreadFacts DEF Init, Handler, Scannable
  <1>2. IInv /\ Handler /\ Scannable /\ [Next]_vars => Handler' /\ Scannable'
    BY StepHandler, StepScannable
  <1>3. IInv /\ Handler /\ Scannable => GcSeesEveryThread
    <2> SUFFICES ASSUME IInv, Handler, Scannable,
                        NEW t \in Threads, NEW u \in Threads,
                        gil = t, u # t
                 PROVE  /\ pc[u] \in HoldsObjects =>
                             u \in thread_list /\ ready[u] /\ gc_regs_valid[u]
                        /\ pc[u] \in {"new", "starting"} => u \in thread_list
      BY DEF GcSeesEveryThread
    <2>1. pc[u] \in HoldsObjects => pc[u] = "blocked"
      BY DEF IInv, GilOwner, UsesVm, Handler, HoldsObjects, PcOK, TypeOK, WorkerPc, Threads
    <2>2. pc[u] \in {"blocked", "new", "starting"} => u \in thread_list
      BY ThreadFacts DEF IInv, Linked, LinkedPc, TypeOK, PcOK, MainPc
    <2> QED BY <2>1, <2>2 DEF Scannable
  <1> QED BY <1>1, <1>2, <1>3, Inductive, PTL DEF Spec

-----------------------------------------------------------------------------
(* A worker that is being created or starts is not ready, so that the      *)
(* broadcast of the reset leaves it the exception in its entry.            *)
Unready ==
  /\ \A w \in Workers : pc[w] \in {"new", "starting"} => ~ready[w]
  /\ \A t \in Threads : pc[t] = "creating" => ~ready[child[t]]

(* From the broadcast to the end of the wait, exit handler included, each  *)
(* worker has its SystemExit and nobody is creating another.               *)
Summoned ==
  pc[Main] \in {"told", "unlocked", "atexit", "shutdown", "scan", "semwait"} =>
    \A w \in Workers :
      /\ pc[w] \in {"new", "starting"} => startup_exception[w]
      /\ pc[w] \in {"py", "blocked", "created"} => pending_exception[w]
      /\ pc[w] # "creating"

LEMMA StepUnready ==
  ASSUME IInv, Unready, [Next]_vars PROVE Unready'
  <1> PcOK /\ DataOK /\ GilOwner /\ Entries
    BY DEF IInv, TypeOK
  <1> USE ThreadFacts DEF PcOK, DataOK, Unready, Goto, registry, locals
  <1>1. CASE mp_thread_init BY <1>1 DEF mp_thread_init
  <1>2. CASE mp_init BY <1>2 DEF mp_init
  <1>3. CASE SetMainReady BY <1>3 DEF SetMainReady
  <1>4. CASE ClearMainReady BY <1>4 DEF ClearMainReady
  <1>5. CASE mp_thread_set_exception_other
    BY <1>5 DEF mp_thread_set_exception_other
  <1>6. CASE ResetGilExit BY <1>6 DEF ResetGilExit
  <1>7. CASE AtExitCall BY <1>7 DEF AtExitCall
  <1>8. CASE AtExitDone BY <1>8 DEF AtExitDone
  <1>9. CASE ShutdownBegin BY <1>9 DEF ShutdownBegin
  <1>10. CASE ShutdownScan BY <1>10 DEF ShutdownScan
  <1>11. CASE ShutdownWait BY <1>11 DEF ShutdownWait
  <1>12. CASE ShutdownGil BY <1>12 DEF ShutdownGil
  <1>13. CASE VmTeardown BY <1>13 DEF VmTeardown
  <1>14. CASE mp_thread_deinit BY <1>14 DEF mp_thread_deinit
  <1>15. CASE mp_thread_set_exception_main
    BY <1>15 DEF mp_thread_set_exception_main
  <1>16. ASSUME NEW w \in Workers, EntryGil(w) PROVE Unready'
    BY <1>16 DEF EntryGil
  <1>17. ASSUME NEW w \in Workers, mp_thread_start(w) PROVE Unready'
    BY <1>17 DEF mp_thread_start, Entries
  <1>18. ASSUME NEW w \in Workers, EntryReturn(w) PROVE Unready'
    BY <1>18 DEF EntryReturn
  <1>19. ASSUME NEW w \in Workers, FinishUnlink(w) PROVE Unready'
    BY <1>19 DEF FinishUnlink
  <1>20. ASSUME NEW w \in Workers, FinishNotify(w) PROVE Unready'
    BY <1>20 DEF FinishNotify
  <1>21. ASSUME NEW w \in Workers, EntryExit(w) PROVE Unready'
    BY <1>21 DEF EntryExit
  <1>22. ASSUME NEW t \in Threads, GilRelease(t) PROVE Unready'
    BY <1>22 DEF GilRelease
  <1>23. ASSUME NEW t \in Threads, GilAcquire(t) PROVE Unready'
    BY <1>23 DEF GilAcquire
  <1>24. ASSUME NEW t \in Threads, Raise(t) PROVE Unready'
    BY <1>24 DEF Raise
  <1>25. ASSUME NEW t \in Threads, CreateSpawn(t) PROVE Unready'
    BY <1>25 DEF CreateSpawn, Entries
  <1>26. ASSUME NEW t \in Threads, CreateFail(t) PROVE Unready'
    BY <1>26 DEF CreateFail
  <1>27. ASSUME NEW t \in Threads, CreateReturn(t) PROVE Unready'
    BY <1>27 DEF CreateReturn
  <1>28. ASSUME NEW t \in Threads, NEW c \in Workers, CreateAlloc(t, c)
         PROVE  Unready'
    BY <1>28 DEF CreateAlloc, GilOwner, UsesVm
  <1>29. CASE UNCHANGED vars BY <1>29 DEF vars
  <1> QED
    BY StepCases, <1>1, <1>2, <1>3, <1>4, <1>5, <1>6, <1>7, <1>8, <1>9,
       <1>10, <1>11, <1>12, <1>13, <1>14, <1>15, <1>16, <1>17, <1>18,
       <1>19, <1>20, <1>21, <1>22, <1>23, <1>24, <1>25, <1>26, <1>27,
       <1>28, <1>29

LEMMA StepSummoned ==
  ASSUME "late" \notin Habits, "swallow" \notin Habits,
         IInv, Scannable, Unready, Summoned, [Next]_vars
  PROVE  Summoned'
  <1> PcOK /\ DataOK /\ Linked /\ Entries
    BY DEF IInv, TypeOK
  <1> USE ThreadFacts DEF PcOK, DataOK, Summoned, Linked, LinkedPc, Goto, registry, locals
  <1>1. CASE mp_thread_init BY <1>1 DEF mp_thread_init
  <1>2. CASE mp_init BY <1>2 DEF mp_init
  <1>3. CASE SetMainReady BY <1>3 DEF SetMainReady
  <1>4. CASE ClearMainReady BY <1>4 DEF ClearMainReady
  <1>5. CASE mp_thread_set_exception_other
    BY <1>5 DEF mp_thread_set_exception_other, Scannable, Unready, IInv, GilOwner, UsesVm
  <1>6. CASE ResetGilExit BY <1>6 DEF ResetGilExit
  <1>7. CASE AtExitCall BY <1>7 DEF AtExitCall
  <1>8. CASE AtExitDone BY <1>8 DEF AtExitDone
  <1>9. CASE ShutdownBegin BY <1>9 DEF ShutdownBegin
  <1>10. CASE ShutdownScan BY <1>10 DEF ShutdownScan
  <1>11. CASE ShutdownWait BY <1>11 DEF ShutdownWait
  <1>12. CASE ShutdownGil BY <1>12 DEF ShutdownGil
  <1>13. CASE VmTeardown BY <1>13 DEF VmTeardown
  <1>14. CASE mp_thread_deinit BY <1>14 DEF mp_thread_deinit
  <1>15. CASE mp_thread_set_exception_main
    BY <1>15 DEF mp_thread_set_exception_main
  <1>16. ASSUME NEW w \in Workers, EntryGil(w) PROVE Summoned'
    BY <1>16 DEF EntryGil
  <1>17. ASSUME NEW w \in Workers, mp_thread_start(w) PROVE Summoned'
    BY <1>17 DEF mp_thread_start
  <1>18. ASSUME NEW w \in Workers, EntryReturn(w) PROVE Summoned'
    BY <1>18 DEF EntryReturn
  <1>19. ASSUME NEW w \in Workers, FinishUnlink(w) PROVE Summoned'
    BY <1>19 DEF FinishUnlink
  <1>20. ASSUME NEW w \in Workers, FinishNotify(w) PROVE Summoned'
    BY <1>20 DEF FinishNotify
  <1>21. ASSUME NEW w \in Workers, EntryExit(w) PROVE Summoned'
    BY <1>21 DEF EntryExit
  <1>22. ASSUME NEW t \in Threads, GilRelease(t) PROVE Summoned'
    BY <1>22 DEF GilRelease
  <1>23. ASSUME NEW t \in Threads, GilAcquire(t) PROVE Summoned'
    BY <1>23 DEF GilAcquire
  <1>24. ASSUME NEW t \in Threads, Raise(t) PROVE Summoned'
    BY <1>24 DEF Raise
  <1>25. ASSUME NEW t \in Threads, CreateSpawn(t) PROVE Summoned'
    BY <1>25 DEF CreateSpawn, Entries
  <1>26. ASSUME NEW t \in Threads, CreateFail(t) PROVE Summoned'
    BY <1>26 DEF CreateFail
  <1>27. ASSUME NEW t \in Threads, CreateReturn(t) PROVE Summoned'
    BY <1>27 DEF CreateReturn
  <1>28. ASSUME NEW t \in Threads, NEW c \in Workers, CreateAlloc(t, c)
         PROVE  Summoned'
    BY <1>28 DEF CreateAlloc, Resetting
  <1>29. CASE UNCHANGED vars BY <1>29 DEF vars
  <1> QED
    BY StepCases, <1>1, <1>2, <1>3, <1>4, <1>5, <1>6, <1>7, <1>8, <1>9,
       <1>10, <1>11, <1>12, <1>13, <1>14, <1>15, <1>16, <1>17, <1>18,
       <1>19, <1>20, <1>21, <1>22, <1>23, <1>24, <1>25, <1>26, <1>27,
       <1>28, <1>29

(* If no thread of the script catches SystemExit or starts another after   *)
(* the broadcast, every worker the reset waits for has SystemExit in       *)
(* store: one that starts late takes it from its entry.                    *)
THEOREM ExitArrives ==
  ASSUME "late" \notin Habits, "swallow" \notin Habits
  PROVE  Spec => []ExitReachesWorkers
  <1>1. Init => Scannable /\ Unready /\ Summoned
    BY ThreadFacts DEF Init, Scannable, Unready, Summoned
  <1>2. IInv /\ Scannable /\ Unready /\ Summoned /\ [Next]_vars =>
          Scannable' /\ Unready' /\ Summoned'
    BY StepScannable, StepUnready, StepSummoned
  <1>3. IInv /\ Summoned => ExitReachesWorkers
    BY ThreadFacts DEF IInv, TypeOK, DataOK, Summoned, ExitReachesWorkers
  <1> QED BY <1>1, <1>2, <1>3, Inductive, PTL DEF Spec

-----------------------------------------------------------------------------
(* Refinement of VmLifecycle.  The two operators below are the mapping of  *)
(* the module MpThread.                                                    *)
Phase == IF pc[Main] \in {"deinit", "down", "init"} THEN "down"
         ELSE IF Resetting THEN "ending" ELSE "up"
Alive == {w \in Workers : pc[w] # "dead"}

Step == Lifecycle!Next \/ UNCHANGED <<Phase, Alive>>

(* A step that moves one worker between two live program points, or main   *)
(* within a phase, is a stutter of VmLifecycle.                            *)
LEMMA WorkerStutter ==
  ASSUME PcOK, NEW w \in Workers, NEW b, pc[w] # "dead", b # "dead",
         pc' = [pc EXCEPT ![w] = b]
  PROVE  UNCHANGED <<Phase, Alive>>
  <1>1. pc'[Main] = pc[Main]
    BY ThreadFacts DEF PcOK
  <1>2. \A v \in Workers : pc'[v] # "dead" <=> pc[v] # "dead"
    BY ThreadFacts DEF PcOK
  <1> QED BY <1>1, <1>2 DEF Phase, Alive, Resetting

LEMMA MainKeepsAlive ==
  ASSUME PcOK, NEW b, pc' = [pc EXCEPT ![Main] = b]
  PROVE  Alive' = Alive /\ pc'[Main] = b
  <1>1. pc'[Main] = b /\ \A w \in Workers : pc'[w] = pc[w]
    BY ThreadFacts DEF PcOK
  <1> QED BY <1>1 DEF Alive

LEMMA ThreadStutter ==
  ASSUME PcOK, NEW t \in Threads, NEW a, NEW b,
         a \in {"py", "blocked", "creating", "created"},
         b \in {"py", "blocked", "creating", "created"},
         Goto(t, a, b)
  PROVE  UNCHANGED <<Phase, Alive>>
  <1>1. CASE t \in Workers
    BY <1>1, WorkerStutter DEF Goto
  <1>2. CASE t = Main
    BY <1>2, MainKeepsAlive DEF Goto, Phase, Resetting
  <1> QED BY <1>1, <1>2, ThreadFacts

LEMMA StepRefines == ASSUME IInv, [Next]_vars PROVE Step
  <1> PcOK /\ DataOK /\ Quiet /\ Entries
    BY DEF IInv, TypeOK
  <1> USE ThreadFacts DEF Goto
  <1>1. CASE mp_thread_init
    BY <1>1, MainKeepsAlive DEF mp_thread_init, Step, Phase, Resetting
  <1>2. CASE mp_init
    <2>1. Phase = "down" /\ Phase' = "up" /\ Alive' = Alive
      BY <1>2, MainKeepsAlive DEF mp_init, Phase, Resetting
    <2> QED BY <2>1 DEF Step, Lifecycle!Next, Lifecycle!Boot, Phase, Alive
  <1>3. CASE SetMainReady
    BY <1>3, MainKeepsAlive DEF SetMainReady, Step, Phase, Resetting
  <1>4. CASE ClearMainReady
    BY <1>4, MainKeepsAlive DEF ClearMainReady, Step, Phase, Resetting
  <1>5. CASE mp_thread_set_exception_other
    <2>1. Phase = "up" /\ Phase' = "ending" /\ Alive' = Alive
      BY <1>5, MainKeepsAlive DEF mp_thread_set_exception_other, Phase, Resetting
    <2> QED BY <2>1 DEF Step, Lifecycle!Next, Lifecycle!Reset, Phase, Alive
  <1>6. CASE ResetGilExit
    BY <1>6, MainKeepsAlive DEF ResetGilExit, Step, Phase, Resetting
  <1>7. CASE AtExitCall
    BY <1>7, MainKeepsAlive DEF AtExitCall, Step, Phase, Resetting
  <1>8. CASE AtExitDone
    BY <1>8, MainKeepsAlive DEF AtExitDone, Step, Phase, Resetting
  <1>9. CASE ShutdownBegin
    BY <1>9, MainKeepsAlive DEF ShutdownBegin, Step, Phase, Resetting
  <1>10. CASE ShutdownScan
    BY <1>10, MainKeepsAlive DEF ShutdownScan, Step, Phase, Resetting
  <1>11. CASE ShutdownWait
    BY <1>11, MainKeepsAlive DEF ShutdownWait, Step, Phase, Resetting
  <1>12. CASE ShutdownGil
    BY <1>12, MainKeepsAlive DEF ShutdownGil, Step, Phase, Resetting
  <1>13. CASE VmTeardown
    <2>1. Alive = {}
      BY <1>13 DEF VmTeardown, Quiet, Alive
    <2>2. Phase = "ending" /\ Phase' = "down" /\ Alive' = Alive
      BY <1>13, MainKeepsAlive DEF VmTeardown, Phase, Resetting
    <2> QED BY <2>1, <2>2
      DEF Step, Lifecycle!Next, Lifecycle!Teardown, Phase, Alive
  <1>14. CASE mp_thread_deinit
    BY <1>14, MainKeepsAlive DEF mp_thread_deinit, Step, Phase, Resetting
  <1>15. CASE mp_thread_set_exception_main
    BY <1>15 DEF mp_thread_set_exception_main, Step, Phase, Alive, Resetting
  <1>16. ASSUME NEW w \in Workers, EntryGil(w) PROVE Step
    BY <1>16, WorkerStutter DEF EntryGil, Step
  <1>17. ASSUME NEW w \in Workers, mp_thread_start(w) PROVE Step
    BY <1>17, WorkerStutter DEF mp_thread_start, Step
  <1>18. ASSUME NEW w \in Workers, EntryReturn(w) PROVE Step
    BY <1>18, WorkerStutter DEF EntryReturn, Step
  <1>19. ASSUME NEW w \in Workers, FinishUnlink(w) PROVE Step
    BY <1>19, WorkerStutter DEF FinishUnlink, Step
  <1>20. ASSUME NEW w \in Workers, FinishNotify(w) PROVE Step
    BY <1>20, WorkerStutter DEF FinishNotify, Step
  <1>21. ASSUME NEW w \in Workers, EntryExit(w) PROVE Step
    <2>1. pc'[Main] = pc[Main]
      BY <1>21 DEF EntryExit, PcOK
    <2>2. w \in Alive /\ Alive' = Alive \ {w}
      BY <1>21 DEF EntryExit, PcOK, Alive
    <2> QED
      BY <2>1, <2>2
      DEF Step, Lifecycle!Next, Lifecycle!Exit, Phase, Alive, Resetting
  <1>22. ASSUME NEW t \in Threads, GilRelease(t) PROVE Step
    BY <1>22, ThreadStutter DEF GilRelease, Step
  <1>23. ASSUME NEW t \in Threads, GilAcquire(t) PROVE Step
    BY <1>23, ThreadStutter DEF GilAcquire, Step
  <1>24. ASSUME NEW t \in Threads, CreateFail(t) PROVE Step
    BY <1>24, ThreadStutter DEF CreateFail, Step
  <1>25. ASSUME NEW t \in Threads, CreateReturn(t) PROVE Step
    BY <1>25, ThreadStutter DEF CreateReturn, Step
  <1>26. ASSUME NEW t \in Threads, Raise(t) PROVE Step
    <2>1. CASE UNCHANGED pc
      BY <2>1 DEF Step, Phase, Alive, Resetting
    <2>2. CASE t # Main /\ pc' = [pc EXCEPT ![t] = "finishing"]
      BY <1>26, <2>2, WorkerStutter DEF Raise, Step
    <2> QED BY <1>26, <2>1, <2>2 DEF Raise
  <1>27. ASSUME NEW t \in Threads, CreateSpawn(t) PROVE Step
    <2> DEFINE c == child[t]
    <2>1. c \in Workers /\ pc[c] = "dead" /\ pc[t] = "creating"
      BY <1>27 DEF CreateSpawn, Entries, DataOK
    <2>2. pc'[c] = "new" /\ pc'[t] = "created"
          /\ \A u \in Threads \ {c, t} : pc'[u] = pc[u]
      BY <1>27, <2>1 DEF CreateSpawn, PcOK
    <2>3. Alive' = Alive \cup {c} /\ c \notin Alive
      BY <2>1, <2>2 DEF Alive
    <2>4. Phase' = Phase /\ Phase # "down"
      BY <2>1, <2>2 DEF Phase, Resetting, Quiet
    <2> QED
      BY <2>1, <2>3, <2>4
      DEF Step, Lifecycle!Next, Lifecycle!Spawn, Phase, Alive
  <1>28. ASSUME NEW t \in Threads, NEW c \in Workers, CreateAlloc(t, c)
         PROVE  Step
    BY <1>28, ThreadStutter DEF CreateAlloc, Step
  <1>29. CASE UNCHANGED vars
    BY <1>29 DEF vars, Step, Phase, Alive, Resetting
  <1> QED
    BY StepCases, <1>1, <1>2, <1>3, <1>4, <1>5, <1>6, <1>7, <1>8, <1>9,
       <1>10, <1>11, <1>12, <1>13, <1>14, <1>15, <1>16, <1>17, <1>18,
       <1>19, <1>20, <1>21, <1>22, <1>23, <1>24, <1>25, <1>26, <1>27,
       <1>28, <1>29

(* The port implements VmLifecycle: no thread outlives the interpreter it  *)
(* runs on, whatever the script does.                                      *)
THEOREM Refinement == Spec => VmLifecycleSpec
  <1>1. Init => Lifecycle!Init
    BY ThreadFacts DEF Init, Lifecycle!Init
  <1>2. IInv /\ [Next]_vars => Lifecycle!Next \/ UNCHANGED <<Phase, Alive>>
    BY StepRefines DEF Step
  <1> QED
    BY <1>1, <1>2, Inductive, PTL
    DEF Spec, VmLifecycleSpec, Lifecycle!Spec, Phase, Alive
====
