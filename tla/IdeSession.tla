----------------------------- MODULE IdeSession -----------------------------
(***************************************************************************)
(* The script session between the IDE and the interpreter: the main loop   *)
(* of port/core/main.c (automatic scripts, IDE scripts, REPL, soft reset)  *)
(* and the IDE task of port/omv/ide_dbg.c, a thread of higher priority     *)
(* that takes commands from the host, hands scripts to the main thread     *)
(* through exec_payload, ide_script_running and script_sem, and stops what *)
(* runs with a soft-reset request, an injected exception and control       *)
(* characters pushed into the REPL's input.                                *)
(*                                                                         *)
(* A program (automatic script, IDE script or REPL line) ends by itself or *)
(* by an exception: both leave the same state.  It may read the input, and *)
(* leave a thread behind that does.  The input ring holds text and control *)
(* characters; text may complete a line or not.  The frame buffer, the     *)
(* virtual touch queue and captured output are other components; the flag  *)
(* that suppresses interrupt callbacks is modelled in MachineTimer.        *)
(***************************************************************************)
EXTENDS Naturals, Sequences, SequencesExt

CONSTANTS
    Scripts,     \* scripts the host may send
    None,        \* no script
    RingSize,    \* entries of the input ring (4096 bytes in the code)
    MaxPosts     \* bound on the value of script_sem

ASSUME SessionAssumption ==
    /\ None \notin Scripts
    /\ RingSize \in Nat \ {0} /\ MaxPosts \in Nat

VARIABLES
    pc,          \* where the main thread is in main()
    boot,        \* which automatic script: 1 boot.py, 2 main.py, 3 done
    script,      \* the payload run_ide_script_once() executes
    task,        \* what the IDE task does next
    kill,        \* interrupt_running_script of ide_dbg_request_soft_reset()
    sent,        \* the script of the command in progress
    dtr,         \* the host holds the port open
    attached, disconnect, suppressed,  \* ide_attached, ide_disconnect, ...
    running,     \* ide_script_running
    repl,        \* repl_script_running
    request,     \* ide_soft_reset_requested
    payload,     \* exec_payload
    sem,         \* script_sem
    intr,        \* is_repl_intr
    pending,     \* the main thread's pending exception
    stdin,       \* the REPL's input ring
    typed,       \* the prompt has an unfinished line
    reader,      \* a thread of an earlier program is left, and may read stdin
    missed       \* auxiliary: the Ctrl-D pushed last met no empty prompt

mainVars == <<pc, boot, script>>
taskVars == <<task, kill, sent>>
linkVars == <<attached, disconnect, suppressed>>
slotVars == <<payload, sem>>
inputVars == <<stdin, typed, missed>>
vars == <<mainVars, taskVars, dtr, linkVars, running, repl, request,
          slotVars, intr, pending, inputVars, reader>>

MainPlaces ==
    {"soft_reset", "clear_stdin", "clear_request", "auto_exec", "next_boot",
     "boot_ready", "boot_run", "boot_end", "boot_done", "loop", "get_script",
     "ide_run", "ide_end", "ide_release", "ide_detach", "ask_reset", "prompt",
     "line_read", "line_run", "repl_left", "exit"}
TaskPlaces ==
    {"idle", "exec", "post", "ctrl_c", "flush", "inject", "ctrl_d"}
Keys == {"C", "D", "text"}

TypeOK ==
    /\ pc \in MainPlaces /\ boot \in 1..3 /\ script \in Scripts \cup {None}
    /\ task \in TaskPlaces /\ kill \in BOOLEAN
    /\ sent \in Scripts \cup {None}
    /\ {dtr, attached, disconnect, suppressed, running, repl, request,
        intr, pending, typed, reader, missed} \subseteq BOOLEAN
    /\ payload \in Scripts \cup {None} /\ sem \in 0..(MaxPosts + 1)
    /\ stdin \in BoundedSeq(Keys, RingSize)

Init ==
    /\ pc = "soft_reset" /\ boot = 1 /\ script = None
    /\ task = "idle" /\ kill = FALSE /\ sent = None /\ dtr = FALSE
    /\ attached = FALSE /\ disconnect = FALSE /\ suppressed = FALSE
    /\ running = FALSE /\ repl = FALSE /\ request = FALSE
    /\ payload = None /\ sem = 0
    /\ intr = FALSE /\ pending = FALSE
    /\ stdin = <<>> /\ typed = FALSE /\ reader = FALSE /\ missed = FALSE

(* Variants with one mistake each, for sensitivity runs, stand before the    *)
(* definition they vary.                                                     *)

(* variant: a script is not seen as running *)
Mut_OnlyRequestRuns == request

(* ide_dbg_python_running(), ide_dbg_is_script_running()                    *)
PythonRunning == running \/ repl
IsScriptRunning == PythonRunning \/ request

(* ide_dbg_is_connected() *)
IsConnected == dtr /\ attached

(* main_thread.ready of mpthreadport.c, between main.c:481 and main.c:588   *)
MainReady == pc \notin {"soft_reset", "clear_stdin", "clear_request"}

(* mp_interrupt_char is Ctrl-C while a program is executed *)
Executing == pc \in {"boot_run", "ide_run", "line_run"}

(* A script queued here is only noticed when the REPL is left. *)
PastLook == pc \in {"ask_reset", "prompt", "line_read", "line_run"}

(* Somebody else than the prompt takes a key out of the input, at a time    *)
(* when a Ctrl-D must bring the main thread back to its loop.               *)
Misses(key) ==
    missed' = (missed \/ (key = "D" /\ PastLook /\ (request \/ running)))

-----------------------------------------------------------------------------
(* The main thread.                                                         *)

(* soft_reset: ... mp_init(), which also drops a pending exception *)
SoftReset ==
    /\ pc = "soft_reset"
    /\ pc' = "clear_stdin" /\ boot' = 1 /\ script' = None
    /\ pending' = FALSE
    /\ UNCHANGED <<taskVars, dtr, linkVars, running, repl, request, slotVars,
                   intr, inputVars, reader>>

ClearStdin ==
    /\ pc = "clear_stdin"
    /\ pc' = "clear_request" /\ stdin' = <<>> /\ missed' = FALSE
    /\ UNCHANGED <<boot, script, taskVars, dtr, linkVars, running, repl,
                   request, slotVars, intr, pending, typed, reader>>

(* ide_dbg_clear_soft_reset_request(), mp_thread_set_main_ready(true) *)
ClearRequest ==
    /\ pc = "clear_request"
    /\ pc' = "auto_exec" /\ request' = FALSE
    /\ UNCHANGED <<boot, script, taskVars, dtr, linkVars, running, repl,
                   slotVars, intr, pending, inputVars, reader>>

AutoExec ==
    /\ pc = "auto_exec"
    /\ pc' = IF intr \/ IsConnected \/ suppressed THEN "loop" ELSE "next_boot"
    /\ UNCHANGED <<boot, script, taskVars, dtr, linkVars, running, repl,
                   request, slotVars, intr, pending, inputVars, reader>>

(* The head of the loop over boot.py and main.py: the file is skipped (it   *)
(* may also be absent or unreadable), or read.                              *)
NextBoot ==
    /\ pc = "next_boot"
    /\ \/ boot = 3 /\ pc' = "boot_done" /\ UNCHANGED boot
       \/ boot < 3 /\ boot' = boot + 1 /\ UNCHANGED pc
       \/ boot < 3 /\ ~IsConnected /\ ~running
          /\ pc' = "boot_ready" /\ UNCHANGED boot
    /\ UNCHANGED <<script, taskVars, dtr, linkVars, running, repl, request,
                   slotVars, intr, pending, inputVars, reader>>

(* ide_dbg_on_script_start() and the start of do_str() *)
BootStart ==
    /\ pc = "boot_ready"
    /\ pc' = "boot_run" /\ repl' = TRUE
    /\ UNCHANGED <<boot, script, taskVars, dtr, linkVars, running, request,
                   slotVars, intr, pending, inputVars, reader>>

(* A program ends; execute_from_str() has handled what was pending.  It may *)
(* leave a thread.  A SystemExit in a line leaves do_repl() as Ctrl-D does. *)
ProgramEnd ==
    /\ Executing
    /\ \/ pc = "boot_run" /\ pc' = "boot_end"
       \/ pc = "ide_run" /\ pc' = "ide_end"
       \/ pc = "line_run" /\ pc' \in {"prompt", "repl_left"}
    /\ repl' = FALSE /\ pending' = FALSE
    /\ reader' \in {reader, TRUE}
    /\ UNCHANGED <<boot, script, taskVars, dtr, linkVars, running, request,
                   slotVars, intr, inputVars>>

(* ide_dbg_on_script_end() *)
BootEnd ==
    /\ pc = "boot_end"
    /\ pc' = "next_boot" /\ boot' = boot + 1 /\ repl' = FALSE
    /\ UNCHANGED <<script, taskVars, dtr, linkVars, running, request,
                   slotVars, intr, pending, inputVars, reader>>

(* The loop variable goes out of scope. *)
BootDone ==
    /\ pc = "boot_done"
    /\ pc' = IF intr /\ ~running THEN "exit" ELSE "loop"
    /\ boot' = 1
    /\ UNCHANGED <<script, taskVars, dtr, linkVars, running, repl,
                   request, slotVars, intr, pending, inputVars, reader>>

(* while (ide_dbg_has_script()) *)
Loop ==
    /\ pc = "loop"
    /\ IF running
         THEN pc' = "get_script" /\ intr' = FALSE
         ELSE pc' = "ask_reset" /\ UNCHANGED intr
    /\ UNCHANGED <<boot, script, taskVars, dtr, linkVars, running, repl,
                   request, slotVars, pending, inputVars, reader>>

(* variant: the semaphore is not waited for *)
Mut_GetScriptAtOnce ==
    /\ pc = "get_script"
    /\ sem' = sem - 1
    /\ IF attached /\ payload # None
         THEN /\ pc' = "ide_run" /\ script' = payload
              /\ repl' = TRUE
         ELSE pc' = "ide_end" /\ UNCHANGED <<script, repl>>
    /\ UNCHANGED <<boot, taskVars, dtr, linkVars, running, request, payload,
                   intr, pending, inputVars, reader>>

(* ide_dbg_get_script(): nothing to run when the IDE has gone *)
GetScript ==
    /\ pc = "get_script" /\ sem > 0
    /\ sem' = sem - 1
    /\ IF attached /\ payload # None
         THEN /\ pc' = "ide_run" /\ script' = payload
              /\ repl' = TRUE
         ELSE pc' = "ide_end" /\ UNCHANGED <<script, repl>>
    /\ UNCHANGED <<boot, taskVars, dtr, linkVars, running, request, payload,
                   intr, pending, inputVars, reader>>

(* ide_dbg_on_ide_script_end(): the payload is freed, ... *)
FreePayload ==
    /\ pc = "ide_end"
    /\ pc' = "ide_release" /\ payload' = None /\ script' = None
    /\ UNCHANGED <<boot, taskVars, dtr, linkVars, running, repl, request,
                   sem, intr, pending, inputVars, reader>>

(* ... then, after a wait for the output, the slot is given back, ... *)
ReleaseSlot ==
    /\ pc = "ide_release"
    /\ pc' = "ide_detach" /\ running' = FALSE
    /\ UNCHANGED <<boot, script, taskVars, dtr, linkVars, repl, request,
                   slotVars, intr, pending, inputVars, reader>>

(* ... then a disconnection the host asked for is carried out. *)
DetachAtEnd ==
    /\ pc = "ide_detach"
    /\ pc' = "loop" /\ repl' = FALSE /\ disconnect' = FALSE
    /\ attached' = (attached /\ ~disconnect)
    /\ UNCHANGED <<boot, script, taskVars, dtr, suppressed, running, request,
                   slotVars, intr, pending, inputVars, reader>>

AskReset ==
    /\ pc = "ask_reset"
    /\ pc' = IF request THEN "exit" ELSE "prompt"
    /\ UNCHANGED <<boot, script, taskVars, dtr, linkVars, running, repl,
                   request, slotVars, intr, pending, inputVars, reader>>

(* The prompt of the REPL.  Text completes a line or does not.  Ctrl-C      *)
(* drops the line; Ctrl-D leaves do_repl() from an empty line only: it      *)
(* edits an unfinished one, or ends what was pasted, which is executed.     *)
ReadKey ==
    /\ pc = "prompt" /\ stdin # <<>>
    /\ stdin' = Tail(stdin)
    /\ \/ Head(stdin) = "C" /\ pc' = "prompt" /\ typed' = FALSE
       \/ Head(stdin) = "D" /\ ~typed /\ pc' = "repl_left" /\ UNCHANGED typed
       \/ /\ Head(stdin) = "text" \/ (Head(stdin) = "D" /\ typed)
          /\ \/ pc' = "prompt" /\ typed' = TRUE
             \/ pc' = "line_read" /\ typed' = FALSE
    /\ IF typed THEN Misses(Head(stdin)) ELSE UNCHANGED missed
    /\ UNCHANGED <<boot, script, taskVars, dtr, linkVars, running, repl,
                   request, slotVars, intr, pending, reader>>

(* mp_hal_stdin_rx_chr() raises what is pending after a wait, even when a  *)
(* key has come meanwhile; do_repl() catches it and prompts anew.          *)
PendingAtPrompt ==
    /\ pc = "prompt" /\ pending
    /\ pending' = FALSE /\ typed' = FALSE
    /\ UNCHANGED <<mainVars, taskVars, dtr, linkVars, running, repl, request,
                   slotVars, intr, stdin, missed, reader>>

(* ide_before_python_run(), the hook of pyexec *)
LineStart ==
    /\ pc = "line_read"
    /\ pc' = "line_run" /\ repl' = TRUE
    /\ UNCHANGED <<boot, script, taskVars, dtr, linkVars, running, request,
                   slotVars, intr, pending, inputVars, reader>>

ReplLeft ==
    /\ pc = "repl_left"
    /\ pc' = IF running THEN "loop" ELSE "exit"
    /\ intr' = FALSE
    /\ UNCHANGED <<boot, script, taskVars, dtr, linkVars, running, repl,
                   request, slotVars, pending, inputVars, reader>>

(* mp_thread_set_main_ready(false), ide_dbg_on_soft_reset() and the rest of *)
(* the teardown, which is modelled in MpThread                              *)
Exit ==
    /\ pc = "exit"
    /\ pc' = "soft_reset" /\ repl' = FALSE /\ reader' = FALSE
    /\ UNCHANGED <<boot, script, taskVars, dtr, linkVars, running, request,
                   slotVars, intr, pending, inputVars>>

MainThread ==
    \/ SoftReset \/ ClearStdin \/ ClearRequest \/ AutoExec
    \/ NextBoot \/ BootStart \/ ProgramEnd \/ BootEnd \/ BootDone
    \/ Loop \/ GetScript \/ FreePayload \/ ReleaseSlot \/ DetachAtEnd
    \/ AskReset \/ ReadKey \/ PendingAtPrompt \/ LineStart \/ ReplLeft \/ Exit

-----------------------------------------------------------------------------
(* What programs do while they run (external), the threads they leave too.  *)

(* input() or sys.stdin.read(): mp_hal_stdin_rx_chr() gives them the oldest *)
(* key, the control characters of the IDE task included.                    *)
ProgramReads ==
    /\ Executing \/ reader
    /\ stdin # <<>>
    /\ stdin' = Tail(stdin) /\ Misses(Head(stdin))
    /\ UNCHANGED <<mainVars, taskVars, dtr, linkVars, running, repl, request,
                   slotVars, intr, pending, typed, reader>>

(* A program catches the exception that was to stop it: ide_exception is an *)
(* Exception like any other.                                                *)
ProgramCatches ==
    /\ Executing /\ pending
    /\ pending' = FALSE
    /\ UNCHANGED <<mainVars, taskVars, dtr, linkVars, running, repl, request,
                   slotVars, intr, inputVars, reader>>

ThreadEnds ==
    /\ reader
    /\ reader' = FALSE
    /\ UNCHANGED <<mainVars, taskVars, dtr, linkVars, running, repl, request,
                   slotVars, intr, pending, inputVars>>

Program == ProgramReads \/ ProgramCatches \/ ThreadEnds

-----------------------------------------------------------------------------
(* The host (external) and the IDE task.                                    *)

(* The host opens or closes the port. *)
HostPort ==
    /\ dtr' = ~dtr
    /\ UNCHANGED <<mainVars, taskVars, linkVars, running, repl, request,
                   slotVars, intr, pending, inputVars, reader>>

(* The first step of ide_dbg_request_soft_reset(): what runs is interrupted *)
(* by the first request only.                                               *)
RequestSoftReset ==
    /\ kill' = (PythonRunning /\ ~request)
    /\ request' = TRUE /\ task' = "flush"

(* mp_thread_set_exception_main() *)
SetExceptionMain(condition) == pending' = (pending \/ (condition /\ MainReady))

(* A key stored in a full ring takes the place of the oldest one.           *)
Stored(key) ==
    Append(IF Len(stdin) < RingSize THEN stdin ELSE Tail(stdin), key)

(* mp_hal_stdin_push() of what the host types *)
PushKey(key) ==
    IF key = "C" /\ Executing
      THEN SetExceptionMain(TRUE) /\ UNCHANGED <<stdin, missed>>
      ELSE /\ stdin' = Stored(key) /\ UNCHANGED pending
           /\ IF Len(stdin) < RingSize THEN UNCHANGED missed
                                       ELSE Misses(Head(stdin))

(* ide_dbg_route_protocol_start(): the first valid frame attaches the IDE. *)
Attach ==
    /\ task = "idle" /\ dtr /\ ~attached
    /\ attached' = TRUE /\ suppressed' = TRUE
    /\ IF repl THEN RequestSoftReset ELSE UNCHANGED <<task, kill, request>>
    /\ UNCHANGED <<mainVars, sent, dtr, disconnect, running, repl, slotVars,
                   intr, pending, inputVars, reader>>

(* ide_dbg_disconnect_and_soft_reset(), on a poll error with DTR down *)
Disconnect ==
    /\ task = "idle" /\ ~dtr /\ attached
    /\ attached' = FALSE /\ disconnect' = FALSE
    /\ RequestSoftReset
    /\ UNCHANGED <<mainVars, sent, dtr, suppressed, running, repl, slotVars,
                   intr, pending, inputVars, reader>>

(* cmd_script_exec() first interrupts what runs and sleeps a millisecond;   *)
(* cmd_file_exec() goes straight to the check.                              *)
ScriptExec(s, interrupt) ==
    /\ task = "idle" /\ IsConnected
    /\ task' = "exec" /\ sent' = s
    /\ SetExceptionMain(interrupt /\ PythonRunning /\ ~request)
    /\ UNCHANGED <<mainVars, kill, dtr, linkVars, running, repl, request,
                   slotVars, intr, inputVars, reader>>

(* The command is refused, or its payload is incomplete, or it is queued.   *)
QueueScript ==
    /\ task = "exec"
    /\ sent' = None
    /\ \/ task' = "idle" /\ UNCHANGED <<payload, running>>
       \/ /\ ~IsScriptRunning
          /\ payload' = sent /\ running' = TRUE /\ task' = "post"
    /\ UNCHANGED <<mainVars, kill, dtr, linkVars, repl, request, sem,
                   intr, pending, inputVars, reader>>

PostScript ==
    /\ task = "post"
    /\ sem' = sem + 1 /\ task' = "ctrl_c"
    /\ UNCHANGED <<mainVars, kill, sent, dtr, linkVars, running, repl,
                   request, payload, intr, pending, inputVars, reader>>

(* variant: Ctrl-C is thought to be enough *)
Mut_PushCtrlCOnly ==
    /\ task = "ctrl_c"
    /\ IF Executing
         THEN pending' = TRUE /\ stdin' = <<>>
         ELSE stdin' = <<"C">> /\ UNCHANGED pending
    /\ task' = "idle"
    /\ UNCHANGED <<mainVars, kill, sent, dtr, linkVars, running, repl,
                   request, slotVars, intr, typed, reader, missed>>

(* interrupt_repl(): after a wait for the interrupt callbacks the input is  *)
(* dropped and Ctrl-C pushed, then Ctrl-D.                                  *)
PushCtrlC ==
    /\ task = "ctrl_c"
    /\ IF Executing
         THEN pending' = TRUE /\ stdin' = <<>>
         ELSE stdin' = <<"C">> /\ UNCHANGED pending
    /\ task' = "ctrl_d"
    /\ UNCHANGED <<mainVars, kill, sent, dtr, linkVars, running, repl,
                   request, slotVars, intr, typed, reader, missed>>

(* The rest of ide_dbg_request_soft_reset() *)
FlushInput ==
    /\ task = "flush"
    /\ stdin' = <<>> /\ task' = "inject"
    /\ UNCHANGED <<mainVars, kill, sent, dtr, linkVars, running, repl,
                   request, slotVars, intr, pending, typed, reader, missed>>

(* variant: no Ctrl-D when an exception was injected *)
Mut_InjectOrPush ==
    /\ task = "inject"
    /\ SetExceptionMain(kill)
    /\ kill' = FALSE /\ task' = IF kill THEN "idle" ELSE "ctrl_d"
    /\ UNCHANGED <<mainVars, sent, dtr, linkVars, running, repl, request,
                   slotVars, intr, inputVars, reader>>

InjectException ==
    /\ task = "inject"
    /\ SetExceptionMain(kill)
    /\ kill' = FALSE /\ task' = "ctrl_d"
    /\ UNCHANGED <<mainVars, sent, dtr, linkVars, running, repl, request,
                   slotVars, intr, inputVars, reader>>

PushCtrlD ==
    /\ task = "ctrl_d"
    /\ stdin' = Stored("D") /\ missed' = FALSE /\ task' = "idle"
    /\ UNCHANGED <<mainVars, kill, sent, dtr, linkVars, running, repl,
                   request, slotVars, intr, pending, typed, reader>>

(* USBDBG_SCRIPT_STOP, and Ctrl-D typed into the terminal of the IDE *)
ScriptStop ==
    /\ task = "idle" /\ IsConnected /\ IsScriptRunning
    /\ RequestSoftReset
    /\ UNCHANGED <<mainVars, sent, dtr, linkVars, running, repl, slotVars,
                   intr, pending, inputVars, reader>>

(* USBDBG_SYS_RESET: leave after the reset, or leave now *)
SysReset ==
    /\ task = "idle" /\ IsConnected
    /\ \/ /\ IsScriptRunning
          /\ disconnect' = TRUE /\ RequestSoftReset
          /\ UNCHANGED <<attached, sem>>
       \/ /\ ~IsScriptRunning /\ sem < MaxPosts
          /\ attached' = FALSE /\ sem' = sem + 1
          /\ UNCHANGED <<disconnect, kill, request, task>>
    /\ UNCHANGED <<mainVars, sent, dtr, suppressed, running, repl, payload,
                   intr, pending, inputVars, reader>>

(* USBDBG_TX_INPUT: Ctrl-C interrupts the program that runs; other input is *)
(* typed into the REPL (Ctrl-D while something runs is ScriptStop).         *)
TxInput(key) ==
    /\ task = "idle" /\ IsConnected
    /\ \/ /\ key = "C" /\ repl
          /\ intr' = TRUE /\ SetExceptionMain(TRUE)
          /\ UNCHANGED <<stdin, missed>>
       \/ /\ ~(key = "C" /\ repl) /\ ~(key = "D" /\ IsScriptRunning)
          /\ PushKey(key) /\ UNCHANGED intr
    /\ UNCHANGED <<mainVars, taskVars, dtr, linkVars, running, repl, request,
                   slotVars, typed, reader>>

(* ide_dbg_route_repl(): while no IDE is attached, the port is a terminal   *)
(* and every byte is typed, whatever runs.                                  *)
RouteRepl(key) ==
    /\ task = "idle" /\ dtr /\ ~attached
    /\ PushKey(key)
    /\ UNCHANGED <<mainVars, taskVars, dtr, linkVars, running, repl, request,
                   slotVars, intr, typed, reader>>

(* What the task does between two commands, and inside one *)
TaskStep ==
    \/ QueueScript \/ PostScript \/ PushCtrlC
    \/ FlushInput \/ InjectException \/ PushCtrlD
Command ==
    \/ Attach \/ ScriptStop \/ SysReset
    \/ \E s \in Scripts, interrupt \in BOOLEAN : ScriptExec(s, interrupt)
    \/ \E key \in Keys : TxInput(key) \/ RouteRepl(key)

Next ==
    MainThread \/ Program \/ TaskStep \/ Command \/ Disconnect \/ HostPort

Spec == Init /\ [][Next]_vars

(* The main thread and the task run; programs end, though they may read and *)
(* catch before; the REPL reads its input although a command may drop it in *)
(* between.  Nothing is assumed of what programs read or the host types.    *)
Fairness ==
    /\ WF_vars(MainThread) /\ SF_vars(ReadKey) /\ WF_vars(TaskStep)
FairSpec == Spec /\ Fairness

-----------------------------------------------------------------------------
(* Properties.                                                              *)

(* The script the interpreter executes is the one in exec_payload: it is    *)
(* neither freed nor replaced under it.                                     *)
PayloadOwned == pc = "ide_run" => script # None /\ payload = script

(* A script in exec_payload is freed before another takes its place.        *)
PayloadHandedOver ==
    [][payload # None => payload' \in {payload, None}]_payload

(* The one payload slot keeps a script from its queueing to its end.         *)
PayloadKept == []PayloadOwned /\ PayloadHandedOver

(* The main thread waits for script_sem only when the task is about to post.*)
ScriptTokenWaits ==
    pc = "get_script" /\ sem = 0 => task = "post"

(* Neither a soft-reset request nor a queued script leaves the REPL waiting: *)
(* the Ctrl-D that ends it is in the input or about to be pushed, unless the *)
(* one pushed last was read by a line or a thread, met an unfinished line,   *)
(* or was pushed out of a full ring.                                         *)
NoStrandedRequest ==
    pc = "prompt" /\ (request \/ running) /\ task = "idle"
        => Contains(stdin, "D") \/ missed

(* The main thread sleeps, on the semaphore or on the input, only when       *)
(* nothing that it should do is left to be noticed.                          *)
NobodyWaitsInVain == ScriptTokenWaits /\ NoStrandedRequest

(* A soft reset that was requested is carried out, or its Ctrl-D is missed;  *)
(* the Ctrl-D of a further request counts anew.                              *)
RequestIsCarriedOut == request ~> (~request \/ missed)

(* A script that was queued is executed or dropped, and its slot given back, *)
(* or its Ctrl-D is missed.                                                  *)
QueuedScriptEnds == running ~> (~running \/ missed)

(* What the host asked for, a reset or a script, comes to an end: automatic  *)
(* and IDE scripts may read what they like, only a line of the REPL and what *)
(* it leaves behind can keep it waiting.                                     *)
RequestsEnd == RequestIsCarriedOut /\ QueuedScriptEnds
=============================================================================
