------------------------- MODULE IdeSession_proofs -------------------------
(***************************************************************************)
(* Theorems about IdeSession, for any scripts and any bounds.              *)
(***************************************************************************)
EXTENDS IdeSession, SequenceTheorems, TLAPS

(* A program that is started for an automatic script is boot.py or main.py. *)
Booting == pc \in {"boot_ready", "boot_run", "boot_end"} => boot < 3

Taken == pc \in {"ide_run", "ide_end", "ide_release"}

(* The slot belongs to the main thread from the loop to its release, and a  *)
(* payload is there only while it is taken.                                 *)
Slot ==
  /\ pc = "get_script" \/ Taken => running
  /\ payload # None => running /\ pc # "ide_release"
  /\ PayloadOwned
  /\ task = "exec" => sent # None

(* A queued script that the main thread has not got has a token, or will    *)
(* have one; there is one token more than those of SysReset at most.        *)
Posting == IF task = "post" THEN 1 ELSE 0
Waiting == IF running /\ ~Taken THEN 1 ELSE 0
Tokens == sem + Posting \in Waiting .. MaxPosts + Waiting

Heard == Contains(stdin, "D") \/ missed

(* Past the places where the main thread looks for a script or a request,   *)
(* the Ctrl-D that ends the REPL is in the input, or will be pushed, unless  *)
(* it was missed.                                                           *)
Noticed ==
  \/ task \notin {"idle", "exec"}
  \/ ~running /\ ~request
  \/ ~running /\ pc = "ask_reset"
  \/ ~PastLook
  \/ Heard

(* The inductive invariant. *)
IInv == TypeOK /\ Booting /\ Slot /\ Tokens /\ Noticed

-----------------------------------------------------------------------------
(* What the input ring may hold.                                            *)
LEMMA InputType ==
  ASSUME NEW s, NEW n \in Nat
  PROVE  s \in BoundedSeq(Keys, n) <=> s \in Seq(Keys) /\ Len(s) <= n
<1>1. ASSUME s \in Seq(Keys), Len(s) <= n
      PROVE  s \in BoundedSeq(Keys, n)
  <2>1. Len(s) \in 0 .. n /\ s \in [1 .. Len(s) -> Keys]
    BY <1>1
  <2> QED
    BY <2>1 DEF BoundedSeq, SeqOf
<1>2. ASSUME s \in BoundedSeq(Keys, n)
      PROVE  s \in Seq(Keys) /\ Len(s) <= n
  <2>1. PICK m \in 0 .. n : s \in [1 .. m -> Keys]
    BY <1>2 DEF BoundedSeq, SeqOf
  <2> QED
    BY <2>1
<1> QED
  BY <1>1, <1>2

(* What pushing a character and reading one do to it.                       *)
LEMMA InputFacts ==
  ASSUME NEW s \in Seq(Keys)
  PROVE  /\ <<>> \in Seq(Keys) /\ Len(<<>>) = 0
         /\ <<"C">> \in Seq(Keys) /\ Len(<<"C">>) = 1
         /\ \A key \in Keys :
              /\ Append(s, key) \in Seq(Keys) /\ Len(Append(s, key)) = Len(s) + 1
              /\ Contains(Append(s, key), key)
              /\ \A k : Contains(s, k) => Contains(Append(s, key), k)
         /\ s # <<>> => /\ Head(s) \in Keys /\ Tail(s) \in Seq(Keys) /\ Len(Tail(s)) = Len(s) - 1
                        /\ \A k : Contains(s, k) /\ Head(s) # k => Contains(Tail(s), k)
<1>1. <<>> \in Seq(Keys) /\ Len(<<>>) = 0
  OBVIOUS
<1>2. <<"C">> \in Seq(Keys) /\ Len(<<"C">>) = 1
  BY DEF Keys
<1>3. ASSUME NEW key \in Keys
      PROVE  /\ Append(s, key) \in Seq(Keys) /\ Len(Append(s, key)) = Len(s) + 1
             /\ Contains(Append(s, key), key)
             /\ \A k : Contains(s, k) => Contains(Append(s, key), k)
  <2>1. Append(s, key) \in Seq(Keys) /\ Len(Append(s, key)) = Len(s) + 1
    OBVIOUS
  <2>2. Contains(Append(s, key), key)
    BY <2>1 DEF Contains
  <2>3. \A k : Contains(s, k) => Contains(Append(s, key), k)
    BY <2>1 DEF Contains
  <2> QED
    BY <2>1, <2>2, <2>3
<1>4. ASSUME s # <<>>
      PROVE  /\ Head(s) \in Keys /\ Tail(s) \in Seq(Keys) /\ Len(Tail(s)) = Len(s) - 1
             /\ \A k : Contains(s, k) /\ Head(s) # k => Contains(Tail(s), k)
  <2>1. Head(s) \in Keys /\ Tail(s) \in Seq(Keys) /\ Len(Tail(s)) = Len(s) - 1 /\ \A i \in 1 .. Len(s) - 1 : Tail(s)[i] = s[i + 1]
    BY <1>4
  <2>2. ASSUME NEW k, Contains(s, k), Head(s) # k
        PROVE  Contains(Tail(s), k)
    <3>1. PICK i \in 1 .. Len(s) : s[i] = k
      BY <2>2 DEF Contains
    <3>2. i # 1
      BY <1>4, <2>2, <3>1
    <3>3. i - 1 \in 1 .. Len(Tail(s)) /\ Tail(s)[i - 1] = k
      BY <2>1, <3>1, <3>2
    <3> QED
      BY <3>3 DEF Contains
  <2> QED
    BY <2>1, <2>2
<1> QED
  BY <1>1, <1>2, <1>3, <1>4

(* What the ring holds when a key was stored in it: the key itself, and the  *)
(* Ctrl-D it held unless the ring was full and the Ctrl-D its oldest entry.  *)
LEMMA StoredFacts ==
  ASSUME stdin \in Seq(Keys), Len(stdin) <= RingSize, NEW key \in Keys
  PROVE  /\ Stored(key) \in Seq(Keys) /\ Len(Stored(key)) <= RingSize
         /\ Contains(Stored(key), key)
         /\ Contains(stdin, "D") =>
              \/ Contains(Stored(key), "D")
              \/ ~(Len(stdin) < RingSize) /\ Head(stdin) = "D"
<1>c. RingSize \in Nat \ {0}
  BY SessionAssumption
<1>1. CASE Len(stdin) < RingSize
  <2>1. Stored(key) = Append(stdin, key)
    BY <1>1 DEF Stored
  <2>2. /\ Append(stdin, key) \in Seq(Keys) /\ Len(Append(stdin, key)) = Len(stdin) + 1
        /\ Contains(Append(stdin, key), key)
        /\ \A k : Contains(stdin, k) => Contains(Append(stdin, key), k)
    BY InputFacts
  <2>3. Len(stdin) \in Nat
    OBVIOUS
  <2> QED
    BY <1>1, <1>c, <2>1, <2>2, <2>3
<1>2. CASE ~(Len(stdin) < RingSize)
  <2>1. Stored(key) = Append(Tail(stdin), key)
    BY <1>2 DEF Stored
  <2>2. Len(stdin) = RingSize /\ stdin # <<>>
    BY <1>2, <1>c
  <2>3. /\ Tail(stdin) \in Seq(Keys) /\ Len(Tail(stdin)) = Len(stdin) - 1
        /\ \A k : Contains(stdin, k) /\ Head(stdin) # k => Contains(Tail(stdin), k)
    BY <2>2, InputFacts
  <2>4. /\ Append(Tail(stdin), key) \in Seq(Keys)
        /\ Len(Append(Tail(stdin), key)) = Len(Tail(stdin)) + 1
        /\ Contains(Append(Tail(stdin), key), key)
        /\ \A k : Contains(Tail(stdin), k) => Contains(Append(Tail(stdin), key), k)
    BY <2>3, InputFacts
  <2>5. Len(Append(Tail(stdin), key)) <= RingSize
    BY <1>c, <2>2, <2>3, <2>4
  <2> QED
    BY <1>2, <2>1, <2>3, <2>4, <2>5
<1> QED
  BY <1>1, <1>2

-----------------------------------------------------------------------------
(* Every step keeps the types,                                              *)
LEMMA TypeStep ==
  ASSUME TypeOK, Booting, Slot, Tokens, [Next]_vars
  PROVE  TypeOK'
<1>c. RingSize \in Nat \ {0} /\ MaxPosts \in Nat /\ None \notin Scripts
  BY SessionAssumption
<1>t. /\ pc \in MainPlaces /\ boot \in 1 .. 3 /\ script \in Scripts \cup {None}
      /\ task \in TaskPlaces /\ kill \in BOOLEAN /\ sent \in Scripts \cup {None}
      /\ dtr \in BOOLEAN /\ attached \in BOOLEAN /\ disconnect \in BOOLEAN /\ suppressed \in BOOLEAN
      /\ running \in BOOLEAN /\ repl \in BOOLEAN /\ request \in BOOLEAN
      /\ intr \in BOOLEAN /\ pending \in BOOLEAN
      /\ typed \in BOOLEAN /\ reader \in BOOLEAN /\ missed \in BOOLEAN
      /\ payload \in Scripts \cup {None} /\ sem \in 0 .. MaxPosts + 1
  BY DEF TypeOK
<1>s. stdin \in Seq(Keys) /\ Len(stdin) \in Nat /\ Len(stdin) <= RingSize
  <2>1. stdin \in Seq(Keys) /\ Len(stdin) <= RingSize
    BY <1>c, InputType DEF TypeOK
  <2> QED
    BY <2>1
<1> DEFINE Main == pc' \in MainPlaces /\ boot' \in 1 .. 3 /\ script' \in Scripts \cup {None}
           Task == task' \in TaskPlaces /\ kill' \in BOOLEAN /\ sent' \in Scripts \cup {None}
           Link == dtr' \in BOOLEAN /\ attached' \in BOOLEAN /\ disconnect' \in BOOLEAN /\ suppressed' \in BOOLEAN
           Flags == /\ running' \in BOOLEAN /\ repl' \in BOOLEAN /\ request' \in BOOLEAN
                    /\ intr' \in BOOLEAN /\ pending' \in BOOLEAN
           Input == typed' \in BOOLEAN /\ reader' \in BOOLEAN /\ missed' \in BOOLEAN
           Script == payload' \in Scripts \cup {None} /\ sem' \in 0 .. MaxPosts + 1
           Ring == stdin' \in Seq(Keys) /\ Len(stdin') <= RingSize
<1>n. Main /\ Task /\ Link /\ Flags /\ Input /\ Script /\ Ring => TypeOK'
  <2>1. Ring => (stdin \in BoundedSeq(Keys, RingSize))'
    BY <1>c, InputType
  <2> QED
    BY <2>1 DEF TypeOK
<1>k. UNCHANGED stdin => Ring
  BY <1>s
<1>g. ASSUME NEW s \in Seq(Keys), Len(s) \in 0 .. RingSize, stdin' = s
      PROVE  Ring
  BY <1>g
<1>e. stdin' = <<>> \/ stdin' = <<"C">> => Ring
  <2>1. /\ <<>> \in Seq(Keys) /\ Len(<<>>) = 0
        /\ <<"C">> \in Seq(Keys) /\ Len(<<"C">>) = 1
    BY <1>s, InputFacts
  <2>2. 0 \in 0 .. RingSize /\ 1 \in 0 .. RingSize
    BY <1>c
  <2> HIDE DEF Ring
  <2> QED
    BY <1>g, <2>1, <2>2, Zenon
<1>a. ASSUME NEW key \in Keys, stdin' = Stored(key)
      PROVE  Ring
  BY <1>a, <1>s, StoredFacts
<1>p. ASSUME NEW key \in Keys, PushKey(key)
      PROVE  Ring /\ pending' \in BOOLEAN /\ missed' \in BOOLEAN
  <2>1. stdin' = Stored(key) \/ UNCHANGED stdin
    BY <1>p DEF PushKey
  <2>2. Ring
    BY <1>a, <1>k, <2>1
  <2>3. pending' \in BOOLEAN /\ missed' \in BOOLEAN
    BY <1>p, <1>t DEF PushKey, SetExceptionMain, Misses, Executing, PastLook, MainReady
  <2> QED
    BY <2>2, <2>3
<1> HIDE DEF Ring
<1> USE DEF MainPlaces, TaskPlaces
<1>1. CASE MainThread
  <2>1. ASSUME ReadKey
        PROVE  Main /\ Ring
    <3>2. Ring
      <4>1. Tail(stdin) \in Seq(Keys) /\ Len(Tail(stdin)) = Len(stdin) - 1
        BY <1>s, <2>1, InputFacts DEF ReadKey
      <4> QED
        BY <1>c, <1>s, <2>1, <4>1 DEF ReadKey, Ring
    <3>3. pc' \in {"prompt", "repl_left", "line_read"} /\ UNCHANGED <<boot, script>>
      BY <2>1 DEF ReadKey
    <3> QED
      BY <1>t, <3>2, <3>3
  <2>2. ASSUME SoftReset \/ ClearStdin \/ ClearRequest \/ AutoExec \/ BootStart \/ BootDone
        PROVE  Main
    BY <1>t, <2>2 DEF SoftReset, ClearStdin, ClearRequest, AutoExec, BootStart, BootDone
  <2>x. ASSUME NextBoot
        PROVE  Main
    BY <1>t, <2>x DEF NextBoot
  <2>y. ASSUME BootEnd
        PROVE  Main
    BY <1>t, <2>y DEF BootEnd, Booting
  <2>3. ASSUME ProgramEnd
        PROVE  Main
    BY <1>t, <2>3 DEF ProgramEnd, Executing
  <2>4. ASSUME Loop \/ GetScript \/ FreePayload \/ ReleaseSlot \/ DetachAtEnd
        PROVE  Main
    BY <1>t, <2>4 DEF Loop, GetScript, FreePayload, ReleaseSlot, DetachAtEnd
  <2>5. ASSUME AskReset \/ PendingAtPrompt \/ LineStart \/ ReplLeft \/ Exit
        PROVE  Main
    BY <1>t, <2>5 DEF AskReset, PendingAtPrompt, LineStart, ReplLeft, Exit, mainVars
  <2>6. Ring
    <3>1. ASSUME ClearStdin PROVE Ring
      BY <1>e, <3>1 DEF ClearStdin
    <3> QED
      BY <1>1, <1>k, <2>1, <3>1
         DEF MainThread, SoftReset, ClearRequest, AutoExec, NextBoot, BootStart, ProgramEnd, BootEnd, BootDone, Loop,
             GetScript, FreePayload, ReleaseSlot, DetachAtEnd, AskReset, PendingAtPrompt, LineStart, ReplLeft, Exit, inputVars
  <2>7. Flags
    BY <1>1, <1>t, ZenonT(60)
       DEF MainThread, SoftReset, ClearStdin, ClearRequest, AutoExec, NextBoot, BootStart, ProgramEnd, BootEnd, BootDone,
           Loop, GetScript, FreePayload, ReleaseSlot, DetachAtEnd, AskReset, ReadKey, PendingAtPrompt, LineStart,
           ReplLeft, Exit
  <2>z. Link
    <3>1. ASSUME DetachAtEnd PROVE Link
      BY <1>t, <3>1 DEF DetachAtEnd
    <3> QED
      BY <1>1, <1>t, <3>1
         DEF MainThread, SoftReset, ClearStdin, ClearRequest, AutoExec, NextBoot, BootStart, ProgramEnd, BootEnd, BootDone,
             Loop, GetScript, FreePayload, ReleaseSlot, AskReset, ReadKey, PendingAtPrompt, LineStart,
             ReplLeft, Exit, linkVars
  <2>i. Input
    <3>1. CASE ReadKey
      <4>1. typed' \in BOOLEAN /\ UNCHANGED reader
        BY <1>t, <3>1 DEF ReadKey
      <4>2. missed' \in BOOLEAN
        BY <1>t, <3>1 DEF ReadKey, Misses, PastLook
      <4> QED
        BY <1>t, <4>1, <4>2
    <3>2. CASE ProgramEnd \/ ClearStdin \/ PendingAtPrompt \/ Exit
      BY <1>t, <3>2 DEF ProgramEnd, ClearStdin, PendingAtPrompt, Exit, inputVars
    <3> QED
      BY <1>1, <1>t, <3>1, <3>2
         DEF MainThread, SoftReset, ClearRequest, AutoExec, NextBoot, BootStart, BootEnd, BootDone, Loop, GetScript,
             FreePayload, ReleaseSlot, DetachAtEnd, AskReset, LineStart, ReplLeft, inputVars
  <2>8. Task
    BY <1>1, <1>t
       DEF MainThread, SoftReset, ClearStdin, ClearRequest, AutoExec, NextBoot, BootStart, ProgramEnd, BootEnd, BootDone,
           Loop, GetScript, FreePayload, ReleaseSlot, DetachAtEnd, AskReset, ReadKey, PendingAtPrompt, LineStart,
           ReplLeft, Exit, taskVars
  <2>9. Script
    <3>1. CASE GetScript
      BY <1>c, <1>t, <3>1 DEF GetScript
    <3>2. CASE FreePayload
      BY <1>t, <3>2 DEF FreePayload
    <3>3. CASE UNCHANGED slotVars
      BY <1>t, <3>3 DEF slotVars
    <3> QED
      BY <1>1, <3>1, <3>2, <3>3, ZenonT(60)
         DEF MainThread, SoftReset, ClearStdin, ClearRequest, AutoExec, NextBoot, BootStart, ProgramEnd, BootEnd, BootDone,
             Loop, ReleaseSlot, DetachAtEnd, AskReset, ReadKey, PendingAtPrompt, LineStart, ReplLeft, Exit
  <2>10. Main
    BY <1>1, <2>1, <2>2, <2>3, <2>4, <2>5, <2>x, <2>y DEF MainThread
  <2> HIDE DEF Main, Task, Link, Flags, Input, Script, Ring
  <2> QED
    BY <1>n, <2>6, <2>7, <2>8, <2>9, <2>10, <2>i, <2>z
<1>2. CASE TaskStep
  <2>1. Ring
    <3>1. ASSUME PushCtrlC PROVE Ring
      BY <1>e, <3>1 DEF PushCtrlC
    <3>2. ASSUME FlushInput PROVE Ring
      BY <1>e, <3>2 DEF FlushInput
    <3>3. ASSUME PushCtrlD PROVE Ring
      BY <1>a, <3>3 DEF PushCtrlD, Keys
    <3> QED
      BY <1>2, <1>k, <3>1, <3>2, <3>3 DEF TaskStep, QueueScript, PostScript, InjectException, inputVars
  <2>2. Main /\ Link
    BY <1>2, <1>t
       DEF TaskStep, QueueScript, PostScript, PushCtrlC, FlushInput, InjectException, PushCtrlD, mainVars,
           linkVars
  <2>3. Task
    BY <1>2, <1>t
       DEF TaskStep, QueueScript, PostScript, PushCtrlC, FlushInput, InjectException, PushCtrlD
  <2>4. Flags
    BY <1>2, <1>t
       DEF TaskStep, QueueScript, PostScript, PushCtrlC, FlushInput, InjectException, PushCtrlD,
           SetExceptionMain, MainReady, Executing
  <2>i. Input
    BY <1>2, <1>t
       DEF TaskStep, QueueScript, PostScript, PushCtrlC, FlushInput, InjectException, PushCtrlD, inputVars
  <2>5. Script
    BY <1>2, <1>c, <1>t
       DEF TaskStep, QueueScript, PostScript, PushCtrlC, FlushInput, InjectException, PushCtrlD, slotVars,
           Tokens, Posting, Waiting
  <2> HIDE DEF Main, Task, Link, Flags, Input, Script, Ring
  <2> QED
    BY <1>n, <2>1, <2>2, <2>3, <2>4, <2>5, <2>i
<1>3. ASSUME Attach \/ ScriptStop \/ SysReset \/ Disconnect \/ HostPort \/ UNCHANGED vars
      PROVE  TypeOK'
  <2>1. Main /\ Link /\ Ring
    <3>1. CASE Attach
      BY <1>k, <1>t, <3>1 DEF Attach, mainVars, linkVars, inputVars
    <3>2. CASE ScriptStop
      BY <1>k, <1>t, <3>2 DEF ScriptStop, mainVars, linkVars, inputVars
    <3>3. CASE SysReset
      BY <1>k, <1>t, <3>3 DEF SysReset, mainVars, linkVars, inputVars
    <3>4. CASE Disconnect
      BY <1>k, <1>t, <3>4 DEF Disconnect, mainVars, linkVars, inputVars
    <3>5. CASE HostPort
      BY <1>k, <1>t, <3>5 DEF HostPort, mainVars, linkVars, inputVars
    <3>6. CASE UNCHANGED vars
      BY <1>k, <1>t, <3>6 DEF vars, mainVars, linkVars, inputVars
    <3> QED
      BY <1>3, <3>1, <3>2, <3>3, <3>4, <3>5, <3>6
  <2>2. Task
    BY <1>3, <1>t
       DEF Attach, ScriptStop, SysReset, Disconnect, HostPort, RequestSoftReset, PythonRunning, vars, taskVars
  <2>3. Flags
    BY <1>3, <1>t DEF Attach, ScriptStop, SysReset, Disconnect, HostPort, RequestSoftReset, vars
  <2>i. Input
    BY <1>3, <1>t DEF Attach, ScriptStop, SysReset, Disconnect, HostPort, vars, inputVars
  <2>4. Script
    BY <1>3, <1>c, <1>t DEF Attach, ScriptStop, SysReset, Disconnect, HostPort, vars, slotVars
  <2> HIDE DEF Main, Task, Link, Flags, Input, Script, Ring
  <2> QED
    BY <1>n, <2>1, <2>2, <2>3, <2>4, <2>i
<1>4. ASSUME NEW s \in Scripts, NEW interrupt \in BOOLEAN, ScriptExec(s, interrupt)
      PROVE  TypeOK'
  <2>1. Flags
    BY <1>4, <1>t DEF ScriptExec, SetExceptionMain, MainReady
  <2>2. Main /\ Task /\ Link /\ Script /\ Ring /\ Input
    BY <1>4, <1>k, <1>t DEF ScriptExec, mainVars, linkVars, slotVars, inputVars
  <2> QED
    BY <1>n, <2>1, <2>2
<1>5. ASSUME NEW key \in Keys, TxInput(key) \/ RouteRepl(key)
      PROVE  TypeOK'
  <2>1. Ring /\ Input /\ pending' \in BOOLEAN
    <3>1. CASE PushKey(key)
      BY <1>5, <1>p, <1>t, <3>1 DEF TxInput, RouteRepl
    <3>2. CASE SetExceptionMain(TRUE) /\ UNCHANGED <<stdin, missed>>
      BY <1>5, <1>k, <1>t, <3>2 DEF TxInput, RouteRepl, SetExceptionMain, MainReady
    <3> QED
      BY <1>5, <3>1, <3>2 DEF TxInput, RouteRepl
  <2>2. Flags
    BY <1>5, <1>t, <2>1 DEF TxInput, RouteRepl
  <2>3. UNCHANGED <<mainVars, taskVars, dtr, linkVars, slotVars>>
    BY <1>5 DEF TxInput, RouteRepl
  <2>4. Main /\ Task /\ Link /\ Script
    BY <1>t, <2>3 DEF mainVars, taskVars, linkVars, slotVars
  <2> HIDE DEF Main, Task, Link, Flags, Input, Script, Ring
  <2> QED
    BY <1>n, <2>1, <2>2, <2>4
<1>6. CASE Program
  <2>1. Ring /\ Input /\ Flags
    <3>1. CASE ProgramReads
      <4>1. Tail(stdin) \in Seq(Keys) /\ Len(Tail(stdin)) = Len(stdin) - 1
        BY <1>s, <3>1, InputFacts DEF ProgramReads
      <4>2. Ring
        BY <1>c, <1>s, <3>1, <4>1 DEF ProgramReads, Ring
      <4>3. missed' \in BOOLEAN
        BY <1>t, <3>1 DEF ProgramReads, Misses, PastLook
      <4> QED
        BY <1>t, <3>1, <4>2, <4>3 DEF ProgramReads
    <3>2. CASE ProgramCatches \/ ThreadEnds
      BY <1>k, <1>t, <3>2 DEF ProgramCatches, ThreadEnds, inputVars
    <3> QED
      BY <1>6, <3>1, <3>2 DEF Program
  <2>2. Main /\ Task /\ Link /\ Script
    BY <1>6, <1>t
       DEF Program, ProgramReads, ProgramCatches, ThreadEnds, mainVars, taskVars, linkVars, slotVars
  <2> HIDE DEF Main, Task, Link, Flags, Input, Script, Ring
  <2> QED
    BY <1>n, <2>1, <2>2
<1> QED
  BY <1>1, <1>2, <1>3, <1>4, <1>5, <1>6 DEF Next, Command

(* the automatic scripts,                                                   *)
LEMMA BootingStep ==
  ASSUME TypeOK, Booting, [Next]_vars
  PROVE  Booting'
<1>t. pc \in MainPlaces /\ boot \in 1 .. 3
  BY DEF TypeOK
<1>1. CASE MainThread
  <2>1. ASSUME NextBoot PROVE Booting'
    BY <1>t, <2>1 DEF NextBoot, Booting
  <2>3. ReadKey => pc' \in {"prompt", "repl_left", "line_read"}
    BY DEF ReadKey
  <2>2. ASSUME BootStart \/ ProgramEnd \/ BootEnd PROVE Booting'
    BY <1>t, <2>2 DEF BootStart, ProgramEnd, BootEnd, Executing, Booting
  <2> QED
    BY <1>1, <1>t, <2>1, <2>2, <2>3
       DEF MainThread, SoftReset, ClearStdin, ClearRequest, AutoExec, BootDone, Loop, GetScript, FreePayload, ReleaseSlot,
           DetachAtEnd, AskReset, ReadKey, PendingAtPrompt, LineStart, ReplLeft, Exit, mainVars, Booting
<1>2. CASE UNCHANGED mainVars
  BY <1>2 DEF mainVars, Booting
<1>3. Program \/ TaskStep \/ Command \/ Disconnect \/ HostPort \/ UNCHANGED vars => UNCHANGED mainVars
  BY DEF Program, ProgramReads, ProgramCatches, ThreadEnds, TaskStep, QueueScript, PostScript, PushCtrlC, FlushInput, InjectException, PushCtrlD, Command, Attach,
         ScriptStop, SysReset, ScriptExec, TxInput, RouteRepl, Disconnect, HostPort, vars
<1> QED
  BY <1>1, <1>2, <1>3 DEF Next

(* the slot of the script,                                                  *)
LEMMA SlotStep ==
  ASSUME TypeOK, Slot, [Next]_vars
  PROVE  Slot'
<1>t. /\ pc \in MainPlaces /\ running \in BOOLEAN /\ sent \in Scripts \cup {None}
      /\ None \notin Scripts
  BY SessionAssumption DEF TypeOK
<1>k. ASSUME pc' = pc, UNCHANGED <<script, payload, running>>, task' = "exec" => sent' # None
      PROVE  Slot'
  BY <1>k DEF Slot, Taken, PayloadOwned
<1>1. CASE MainThread
  <2>1. ASSUME UNCHANGED <<payload, running, task, sent>>,
               pc' \notin {"get_script", "ide_run", "ide_end", "ide_release"}
        PROVE  Slot'
    BY <2>1 DEF Slot, Taken, PayloadOwned
  <2>2. ASSUME Loop \/ GetScript \/ FreePayload \/ ReleaseSlot \/ DetachAtEnd
        PROVE  Slot'
    <3>1. CASE Loop
      BY <1>t, <3>1 DEF Loop, Slot, Taken, PayloadOwned, taskVars, slotVars
    <3>2. CASE GetScript
      BY <1>t, <3>2 DEF GetScript, Slot, Taken, PayloadOwned, taskVars
    <3>3. CASE FreePayload
      BY <1>t, <3>3 DEF FreePayload, Slot, Taken, PayloadOwned, taskVars
    <3>4. CASE ReleaseSlot
      BY <1>t, <3>4 DEF ReleaseSlot, Slot, Taken, PayloadOwned, taskVars, slotVars
    <3>5. CASE DetachAtEnd
      BY <1>t, <3>5 DEF DetachAtEnd, Slot, Taken, PayloadOwned, taskVars, slotVars
    <3> QED
      BY <2>2, <3>1, <3>2, <3>3, <3>4, <3>5
  <2>3. ASSUME ProgramEnd
        PROVE  Slot'
    BY <1>t, <2>3 DEF ProgramEnd, Executing, Slot, Taken, PayloadOwned, taskVars, slotVars
  <2>4. ReadKey => pc' \in {"prompt", "repl_left", "line_read"}
    BY DEF ReadKey
  <2>5. ASSUME \/ SoftReset \/ ClearStdin \/ ClearRequest \/ AutoExec \/ NextBoot \/ BootStart \/ BootEnd \/ BootDone
               \/ AskReset \/ ReadKey \/ PendingAtPrompt \/ LineStart \/ ReplLeft \/ Exit
        PROVE  UNCHANGED <<payload, running, task, sent>> /\ pc' \notin {"get_script", "ide_run", "ide_end", "ide_release"}
    BY <2>4, <2>5
       DEF SoftReset, ClearStdin, ClearRequest, AutoExec, NextBoot, BootStart, BootEnd, BootDone, AskReset, ReadKey,
           PendingAtPrompt, LineStart, ReplLeft, Exit, mainVars, taskVars, slotVars
  <2> QED
    BY <1>1, <2>1, <2>2, <2>3, <2>5 DEF MainThread
<1>2. CASE TaskStep
  <2>1. ASSUME QueueScript PROVE Slot'
    BY <1>t, <2>1 DEF QueueScript, IsScriptRunning, PythonRunning, mainVars, Slot, Taken, PayloadOwned
  <2> QED
    BY <1>2, <1>k, <2>1
       DEF TaskStep, PostScript, PushCtrlC, FlushInput, InjectException, PushCtrlD, mainVars, slotVars
<1>3. CASE Command
  <2>1. ASSUME NEW s \in Scripts, NEW interrupt \in BOOLEAN, ScriptExec(s, interrupt) PROVE Slot'
    BY <1>k, <1>t, <2>1 DEF ScriptExec, mainVars, slotVars
  <2>2. ASSUME NEW key \in Keys, TxInput(key) \/ RouteRepl(key) PROVE Slot'
    BY <1>k, <2>2 DEF TxInput, RouteRepl, mainVars, taskVars, slotVars
  <2>3. ASSUME Attach \/ ScriptStop \/ SysReset PROVE Slot'
    BY <1>k, <2>3 DEF Attach, ScriptStop, SysReset, RequestSoftReset, mainVars, slotVars
  <2> QED
    BY <1>3, <2>1, <2>2, <2>3 DEF Command
<1>4. CASE Disconnect \/ HostPort
  BY <1>4, <1>k DEF Disconnect, HostPort, RequestSoftReset, mainVars, taskVars, slotVars, Slot
<1>5. CASE UNCHANGED vars
  BY <1>5, <1>k DEF vars, mainVars, taskVars, slotVars, Slot
<1>6. CASE Program
  BY <1>6, <1>k DEF Program, ProgramReads, ProgramCatches, ThreadEnds, mainVars, taskVars, slotVars, Slot
<1> QED
  BY <1>1, <1>2, <1>3, <1>4, <1>5, <1>6 DEF Next

(* the tokens of the queued scripts,                                        *)
LEMMA TokensStep ==
  ASSUME TypeOK, Slot, Tokens, [Next]_vars
  PROVE  Tokens'
<1>t. running \in BOOLEAN /\ sem \in Nat /\ MaxPosts \in Nat
  BY SessionAssumption DEF TypeOK
<1>k. ASSUME UNCHANGED <<sem, running>>, Taken' <=> Taken, task' = "post" <=> task = "post"
      PROVE  Tokens'
  BY <1>k DEF Tokens, Posting, Waiting
<1>1. CASE MainThread
  <2>1. ASSUME GetScript \/ ReleaseSlot PROVE Tokens'
    BY <1>t, <2>1 DEF GetScript, ReleaseSlot, Slot, Tokens, Posting, Waiting, Taken, taskVars, slotVars
  <2>2. ASSUME ProgramEnd PROVE Tokens'
    BY <1>k, <2>2 DEF ProgramEnd, Executing, Taken, taskVars, slotVars
  <2>3. ReadKey => pc' \in {"prompt", "repl_left", "line_read"}
    BY DEF ReadKey
  <2>4. ASSUME \/ SoftReset \/ ClearStdin \/ ClearRequest \/ AutoExec \/ NextBoot \/ BootStart \/ BootEnd \/ BootDone \/ Loop
               \/ FreePayload \/ DetachAtEnd \/ AskReset \/ ReadKey \/ PendingAtPrompt \/ LineStart \/ ReplLeft \/ Exit
        PROVE  UNCHANGED <<sem, running, task>> /\ (Taken' <=> Taken)
    BY <2>3, <2>4
       DEF SoftReset, ClearStdin, ClearRequest, AutoExec, NextBoot, BootStart, BootEnd, BootDone, Loop, FreePayload,
           DetachAtEnd, AskReset, ReadKey, PendingAtPrompt, LineStart, ReplLeft, Exit, mainVars, taskVars, slotVars, Taken
  <2> QED
    BY <1>1, <1>k, <2>1, <2>2, <2>4 DEF MainThread
<1>2. CASE TaskStep
  <2>1. ASSUME QueueScript PROVE Tokens'
    BY <1>t, <2>1 DEF QueueScript, IsScriptRunning, PythonRunning, mainVars, Slot, Tokens, Posting, Waiting, Taken
  <2>2. ASSUME PostScript PROVE Tokens'
    BY <1>t, <2>2 DEF PostScript, mainVars, Tokens, Posting, Waiting, Taken
  <2> QED
    BY <1>2, <1>k, <2>1, <2>2
       DEF TaskStep, PushCtrlC, FlushInput, InjectException, PushCtrlD, mainVars, slotVars, Taken
<1>3. CASE Command
  <2>1. ASSUME NEW s \in Scripts, NEW interrupt \in BOOLEAN, ScriptExec(s, interrupt) PROVE Tokens'
    BY <1>k, <2>1 DEF ScriptExec, mainVars, slotVars, Taken
  <2>2. ASSUME NEW key \in Keys, TxInput(key) \/ RouteRepl(key) PROVE Tokens'
    BY <1>k, <2>2 DEF TxInput, RouteRepl, mainVars, taskVars, slotVars, Taken
  <2>3. ASSUME Attach \/ ScriptStop PROVE Tokens'
    BY <1>k, <2>3 DEF Attach, ScriptStop, RequestSoftReset, mainVars, slotVars, Taken
  <2>4. ASSUME SysReset PROVE Tokens'
    <3>1. CASE RequestSoftReset /\ UNCHANGED sem
      BY <1>k, <2>4, <3>1 DEF SysReset, RequestSoftReset, mainVars, Taken
    <3>2. CASE ~IsScriptRunning /\ sem < MaxPosts /\ sem' = sem + 1 /\ UNCHANGED task
      BY <1>t, <2>4, <3>2
         DEF SysReset, IsScriptRunning, PythonRunning, mainVars, Tokens, Posting, Waiting, Taken
    <3> QED
      BY <2>4, <3>1, <3>2 DEF SysReset
  <2> QED
    BY <1>3, <2>1, <2>2, <2>3, <2>4 DEF Command
<1>4. CASE Disconnect \/ HostPort
  BY <1>4, <1>k DEF Disconnect, HostPort, RequestSoftReset, mainVars, taskVars, slotVars, Taken
<1>5. CASE UNCHANGED vars
  BY <1>5, <1>k DEF vars, mainVars, taskVars, slotVars, Taken
<1>6. CASE Program
  BY <1>6, <1>k DEF Program, ProgramReads, ProgramCatches, ThreadEnds, mainVars, taskVars, slotVars, Taken
<1> QED
  BY <1>1, <1>2, <1>3, <1>4, <1>5, <1>6 DEF Next

(* and that what the main thread has passed by will end the REPL.           *)
LEMMA NoticedStep ==
  ASSUME TypeOK, Noticed, [Next]_vars
  PROVE  Noticed'
<1>s. stdin \in Seq(Keys) /\ Len(stdin) <= RingSize
  BY SessionAssumption, InputType DEF TypeOK
<1>t. running \in BOOLEAN /\ request \in BOOLEAN /\ missed \in BOOLEAN
  BY DEF TypeOK
<1> DEFINE Kept == Heard => Heard' \/ ~PastLook \/ (~running /\ ~request)
<1>k. ASSUME UNCHANGED <<pc, running, request>>, Kept, task' \in {"idle", "exec"} => task \in {"idle", "exec"}
      PROVE  Noticed'
  BY <1>k DEF Noticed, PastLook
<1>u. UNCHANGED <<stdin, missed>> => (Heard' <=> Heard) /\ Kept
  BY DEF Heard, Contains
<1>f. task' \notin {"idle", "exec"} => Noticed'
  BY DEF Noticed
<1>m. ASSUME stdin # <<>>, stdin' = Tail(stdin), Misses(Head(stdin))
      PROVE  Kept
  <2>1. Contains(stdin, "D") /\ Head(stdin) # "D" => Contains(Tail(stdin), "D")
    BY <1>m, <1>s, InputFacts
  <2>2. Contains(stdin, "D")' <=> Contains(Tail(stdin), "D")
    BY <1>m DEF Contains
  <2> QED
    BY <1>m, <2>1, <2>2 DEF Misses, Heard
<1>p. ASSUME NEW key \in Keys, PushKey(key)
      PROVE  Kept
  <2>1. CASE UNCHANGED <<stdin, missed>>
    BY <1>u, <2>1
  <2>2. CASE /\ stdin' = Stored(key)
             /\ IF Len(stdin) < RingSize THEN UNCHANGED missed ELSE Misses(Head(stdin))
    <3>1. Contains(stdin, "D") =>
             Contains(Stored(key), "D") \/ (~(Len(stdin) < RingSize) /\ Head(stdin) = "D")
      BY <1>s, StoredFacts
    <3>2. Contains(stdin, "D")' <=> Contains(Stored(key), "D")
      BY <2>2 DEF Contains
    <3> QED
      BY <2>2, <3>1, <3>2 DEF Misses, Heard
  <2> QED
    BY <1>p, <2>1, <2>2 DEF PushKey
<1> HIDE DEF Kept
<1>1. CASE MainThread
  <2>1. ASSUME ReadKey PROVE Noticed'
    <3>1. CASE pc' = "repl_left"
      BY <3>1 DEF Noticed, PastLook
    <3>2. CASE pc' # "repl_left"
      <4>1. stdin # <<>> /\ stdin' = Tail(stdin) /\ (Head(stdin) # "D" \/ typed)
        BY <2>1, <3>2 DEF ReadKey
      <4>2. Kept
        <5>1. CASE typed
          BY <1>m, <2>1, <4>1, <5>1 DEF ReadKey
        <5>2. CASE ~typed
          <6>1. UNCHANGED missed /\ Head(stdin) # "D"
            BY <2>1, <4>1, <5>2 DEF ReadKey
          <6>2. Misses(Head(stdin))
            BY <1>t, <6>1 DEF Misses
          <6> QED
            BY <1>m, <4>1, <6>2
        <5> QED
          BY <5>1, <5>2
      <4>3. pc = "prompt" /\ UNCHANGED <<running, request, task>>
        BY <2>1 DEF ReadKey, taskVars
      <4> QED
        BY <4>2, <4>3 DEF Noticed, PastLook, Kept
    <3> QED
      BY <3>1, <3>2
  <2>2. ASSUME Loop \/ AskReset \/ PendingAtPrompt \/ LineStart PROVE Noticed'
    <3>1. (Heard' <=> Heard) /\ UNCHANGED <<running, request, task>>
      BY <1>u, <2>2 DEF Loop, AskReset, PendingAtPrompt, LineStart, taskVars, inputVars
    <3>2. \/ pc = "loop" /\ (pc' \notin {"prompt", "line_read", "line_run"}) /\ (pc' = "ask_reset" => ~running)
          \/ pc = "ask_reset" /\ (pc' = "prompt" => ~request)
          \/ pc = "prompt"
          \/ pc = "line_read"
      BY <2>2 DEF Loop, AskReset, PendingAtPrompt, LineStart
    <3>3. pc = "ask_reset" => pc' \in {"exit", "prompt"}
      BY <2>2 DEF Loop, AskReset, PendingAtPrompt, LineStart
    <3> QED
      BY <3>1, <3>2, <3>3 DEF Noticed, PastLook
  <2>3. ASSUME ProgramEnd PROVE Noticed'
    <3>1. (Heard' <=> Heard) /\ UNCHANGED <<running, request, task>>
      BY <1>u, <2>3 DEF ProgramEnd, taskVars, inputVars
    <3>2. pc' \in {"boot_end", "ide_end", "repl_left"} \/ (pc = "line_run" /\ pc' = "prompt")
      BY <2>3 DEF ProgramEnd
    <3> QED
      BY <3>1, <3>2 DEF Noticed, PastLook
  <2>4. ASSUME \/ SoftReset \/ ClearStdin \/ ClearRequest \/ AutoExec \/ NextBoot \/ BootStart \/ BootEnd \/ BootDone
               \/ GetScript \/ FreePayload \/ ReleaseSlot \/ DetachAtEnd \/ ReplLeft \/ Exit
        PROVE  pc' \notin {"ask_reset", "prompt", "line_read", "line_run"}
    BY <2>4
       DEF SoftReset, ClearStdin, ClearRequest, AutoExec, NextBoot, BootStart, BootEnd, BootDone, GetScript, FreePayload,
           ReleaseSlot, DetachAtEnd, ReplLeft, Exit
  <2>5. pc' \notin {"ask_reset", "prompt", "line_read", "line_run"} => Noticed'
    BY DEF Noticed, PastLook
  <2> QED
    BY <1>1, <2>1, <2>2, <2>3, <2>4, <2>5 DEF MainThread
<1>2. CASE TaskStep
  <2>1. ASSUME QueueScript PROVE Noticed'
    <3>1. CASE task' = "idle" /\ UNCHANGED running
      BY <1>k, <1>u, <2>1, <3>1 DEF QueueScript, mainVars, inputVars
    <3>2. CASE task' = "post"
      BY <1>f, <3>2
    <3> QED
      BY <2>1, <3>1, <3>2 DEF QueueScript
  <2>2. ASSUME PushCtrlD PROVE Noticed'
    <3>1. Contains(Stored("D"), "D")
      BY <1>s, StoredFacts DEF Keys
    <3>2. Contains(stdin, "D")'
      BY <2>2, <3>1 DEF PushCtrlD, Contains
    <3> QED
      BY <3>2 DEF Noticed, Heard
  <2> QED
    BY <1>2, <1>f, <2>1, <2>2 DEF TaskStep, PostScript, PushCtrlC, FlushInput, InjectException
<1>3. CASE Command
  <2>1. ASSUME NEW s \in Scripts, NEW interrupt \in BOOLEAN, ScriptExec(s, interrupt) PROVE Noticed'
    BY <1>k, <1>u, <2>1 DEF ScriptExec, mainVars, inputVars
  <2>2. ASSUME NEW key \in Keys, TxInput(key) \/ RouteRepl(key) PROVE Noticed'
    <3>1. PushKey(key) \/ UNCHANGED <<stdin, missed>>
      BY <2>2 DEF TxInput, RouteRepl
    <3>2. Kept
      BY <1>p, <1>u, <3>1
    <3> QED
      BY <1>k, <2>2, <3>2 DEF TxInput, RouteRepl, mainVars, taskVars
  <2>3. ASSUME Attach \/ ScriptStop \/ SysReset PROVE Noticed'
    <3>1. CASE task' = "flush"
      BY <1>f, <3>1
    <3>2. CASE UNCHANGED <<task, request>>
      BY <1>k, <1>u, <2>3, <3>2 DEF Attach, ScriptStop, SysReset, mainVars, inputVars
    <3> QED
      BY <2>3, <3>1, <3>2 DEF Attach, ScriptStop, SysReset, RequestSoftReset
  <2> QED
    BY <1>3, <2>1, <2>2, <2>3 DEF Command
<1>4. CASE Disconnect
  BY <1>4, <1>f DEF Disconnect, RequestSoftReset
<1>5. CASE HostPort \/ ProgramCatches \/ ThreadEnds \/ UNCHANGED vars
  BY <1>5, <1>k, <1>u DEF HostPort, ProgramCatches, ThreadEnds, vars, mainVars, taskVars, inputVars
<1>6. CASE ProgramReads
  <2>1. Kept
    BY <1>6, <1>m DEF ProgramReads
  <2> QED
    BY <1>6, <1>k, <2>1 DEF ProgramReads, mainVars, taskVars
<1> QED
  BY <1>1, <1>2, <1>3, <1>4, <1>5, <1>6 DEF Next, Program

-----------------------------------------------------------------------------
LEMMA Initially == Init => IInv
<1> SUFFICES ASSUME Init PROVE IInv
  OBVIOUS
<1>1. stdin \in BoundedSeq(Keys, RingSize)
  <2>1. stdin \in Seq(Keys) /\ Len(stdin) = 0
    BY DEF Init
  <2>2. RingSize \in Nat /\ Len(stdin) <= RingSize
    BY <2>1, SessionAssumption
  <2> QED
    BY <2>1, <2>2, InputType
<1>2. TypeOK
  <2>1. pc \in MainPlaces /\ task \in TaskPlaces
    BY DEF Init, MainPlaces, TaskPlaces
  <2>2. sem \in 0 .. (MaxPosts + 1) /\ boot \in 1 .. 3
    BY SessionAssumption DEF Init
  <2>3. /\ script \in Scripts \cup {None} /\ sent \in Scripts \cup {None} /\ payload \in Scripts \cup {None}
        /\ kill \in BOOLEAN
        /\ {dtr, attached, disconnect, suppressed, running, repl, request, intr, pending, typed, reader,
          missed} \subseteq BOOLEAN
    BY DEF Init
  <2> QED
    BY <1>1, <2>1, <2>2, <2>3 DEF TypeOK
<1>3. Booting /\ Slot /\ Noticed
  BY DEF Init, Booting, Slot, Taken, PayloadOwned, Noticed
<1>4. Tokens
  BY SessionAssumption DEF Init, Tokens, Posting, Waiting
<1> QED
  BY <1>2, <1>3, <1>4 DEF IInv

LEMMA Inductive == IInv /\ [Next]_vars => IInv'
<1> SUFFICES ASSUME IInv, [Next]_vars PROVE IInv'
  OBVIOUS
<1>i. TypeOK /\ Booting /\ Slot /\ Tokens /\ Noticed
  BY DEF IInv
<1> QED
  BY <1>i, TypeStep, BootingStep, SlotStep, TokensStep, NoticedStep DEF IInv

THEOREM Invariant == Spec => []IInv
BY Initially, Inductive, PTL DEF Spec

(* Every variable keeps to its type; the tokens and the characters in the   *)
(* input do not pile up, however often scripts are queued, refused, stopped *)
(* and reset.                                                               *)
THEOREM TypeCorrect == Spec => []TypeOK
<1>1. IInv => TypeOK
  BY DEF IInv
<1> QED
  BY <1>1, Invariant, PTL

(* The main thread never sleeps on script_sem with nobody about to post it, *)
(* nor at the prompt with a script or a reset that nothing will make it     *)
(* notice: what the task pushes last outlives every flush and reset, and    *)
(* what automatic and IDE scripts read.  Only a line of the REPL, a thread, *)
(* an unfinished line or a full ring can make it miss that Ctrl-D.          *)
THEOREM WaitsAreAnswered == Spec => []NobodyWaitsInVain
<1>1. IInv => NobodyWaitsInVain
  <2> SUFFICES ASSUME IInv PROVE NobodyWaitsInVain
    OBVIOUS
  <2>1. ScriptTokenWaits
    BY DEF IInv, TypeOK, Slot, Taken, Tokens, Posting, Waiting, ScriptTokenWaits
  <2>2. NoStrandedRequest
    BY DEF IInv, Noticed, PastLook, Heard, NoStrandedRequest
  <2> QED
    BY <2>1, <2>2 DEF NobodyWaitsInVain
<1> QED
  BY <1>1, Invariant, PTL

(* The script that runs is the one in the slot, and one is dropped before   *)
(* the next takes its place: QueueScript finds the slot empty whenever it   *)
(* finds nothing running.                                                   *)
THEOREM PayloadIsKept == Spec => PayloadKept
<1>1. IInv => PayloadOwned
  BY DEF IInv, Slot
<1>2. IInv /\ [Next]_vars => [payload # None => payload' \in {payload, None}]_payload
  <2> SUFFICES ASSUME Slot, Next, payload # None, payload' # payload PROVE payload' = None
    BY DEF IInv, vars, slotVars
  <2>1. running
    BY DEF Slot
  <2>2. ~QueueScript
    BY <2>1 DEF QueueScript, IsScriptRunning, PythonRunning
  <2> QED
    BY <2>2
       DEF Next, MainThread, SoftReset, ClearStdin, ClearRequest, AutoExec, NextBoot, BootStart, ProgramEnd, BootEnd, BootDone,
           Loop, GetScript, FreePayload, ReleaseSlot, DetachAtEnd, AskReset, ReadKey, PendingAtPrompt, LineStart, ReplLeft,
           Exit, Program, ProgramReads, ProgramCatches, ThreadEnds, TaskStep, PostScript, PushCtrlC, FlushInput, InjectException, PushCtrlD, Command, Attach,
           ScriptStop, SysReset, ScriptExec, TxInput, RouteRepl, Disconnect, HostPort, slotVars
<1> QED
  BY <1>1, <1>2, Invariant, PTL DEF Spec, PayloadKept, PayloadHandedOver
=============================================================================
