# Verification of the CanMV K230 MicroPython port

TLA+ models of the concurrent core of the port under `src/port`: Python threads
and the soft reset, the periodic UART transmitter, `machine.Timer` callbacks, the
script session of the IDE with its output ring, input ring and picture preview,
the RTSP player, the media manager with the camera, the display's OSD buffers, the
MJPEG encoder and WebRTC peers. TLC checks small instances; TLAPS proves
every safety property of theirs for instances of any size, and that the two that
implement an abstract specification do. Liveness is model-checked only.
Source paths below are relative to `src/port`.

## The system

One process on RT-Smart runs MicroPython. Its threads are: the *main* thread
(`main_()` in `core/main.c`, which boots the VM, runs automatic scripts, IDE
scripts and the REPL, and tears the VM down in a soft reset), *workers* made by
`_thread`, the *IDE task* (a thread of higher priority that speaks the USBDBG
protocol), the UART reader, timer signal handlers, and threads of native media
code. MicroPython itself, RT-Smart's drivers and the vendor's media libraries
(MPP) are not in the repository.

| component | state | operations | interacts through | hard behaviour | what makes it correct |
|---|---|---|---|---|---|
| thread registry, GIL, soft reset: `core/mpthreadport.c`, `core/main.c`, `core/gccollect.c` | linked entries, `ready`, saved registers, startup and pending exceptions, `deinit_waiting`, semaphore, thread count | init, create, start, finish, GC scan, exception broadcast, shutdown, deinit | GIL, list lock, semaphore, `user_data` of the VM state | shutdown against creation and exit; GC against switches | the VM is torn down alone; GIL around the VM; no lost wakeup; no freed entry; GC sees every thread |
| periodic UART transmitter: `modules/moduart_periodic_tx.c` | three buffers with generations, `active_idx`, `reader_idx`, slot owner, `in_callback`, shared UART state | start, stop, deinit, update, is_sent, handler, deinit_all | atomics with the signal handler, timer reservations with `machine_timer.c` | handler against every call, shared UART, late signals | whole frames, in order, reported truly; one sender; nothing freed under a handler |
| `machine.Timer`: `machine/machine_timer.c` | `active`, `generation`, `scheduled`, IRQ object, entry in the scheduler's queue | init, deinit, handler, scheduled callback | scheduler queue, exiting flag | stale ticks and queue entries across reconfigurations | one pending event; callbacks of the configuration in force; periodic timers fire |
| IDE script session: `omv/ide_dbg.c`, `core/main.c` | attachment flags, running flags, reset request, `exec_payload`, `script_sem`, stdin | attach, exec, stop, reset, input; main loop | flags, semaphore, injected exception, Ctrl-C/Ctrl-D in stdin, exiting flag | commands at any point of the main loop, loss of the host | scripts are not lost, freed or replaced; requests are carried out, unless their Ctrl-D is missed |
| IDE output ring, frame buffer, virtual touch: `omv/ide_dbg.c` | ring, probe flags, pending frame, event ring | write, drain, clear, dump, enqueue | three mutexes | a drain that releases the ring's mutex; a dump after its size was announced | bytes once and in order; a picture has one owner and is sent as announced |
| writeback preview: `omv/ide_dbg_vo_wbc.c` | recorded encoder resources, held frame, snapshot | start, encode, stop | `g_wbc_lock`, `fb_mutex`, vendor VENC | failure at any stage, cleanup resumed later | released in order, never set up over leftovers, frame kept while it is read |
| UART/stdin HAL: `core/mphalport.c` | input ring, reader thread | push, read, clear, start, stop | mutex and condition | stop and join | no lost input below the bound |
| media manager and camera: `modules/modvbmgmt.c`, `core/mpp_vb_mgmt.c`, `builtin_py/media/sensor.py` | tracked and pending buffers, pools, 32 dumped frames, device states, flags of the sensor | get, destroy, snapshot, run, stop, deinit, boot | vendor MPP; soft reset | any call may fail, an exception between two calls, retries across resets | what is in use is on record; the producers stop before the pools go; the flag tells the backend's state |
| allocators: `omv/alloc` | stack of frame buffers with marks; umm blocks | alloc, mark, free to mark | none | exceptions between mark and free | stack discipline |
| RTSP: `multi_media` | player flags, queue of access units, key-frame recovery, session, mapped picture | init, start, stop, deinit, get_frame, callbacks, decode loop | `mu_`, three condition variables, live555 thread, decode thread | callbacks during every call, loss of units, joins | no delta frame without its key frame; calls return; a lent picture stays mapped |
| MJPEG encoder: `modules/modmedia.mjpeg.c` | resources on record, size | encode, close, finaliser | VENC channel | failure of any call, cleanup resumed later | in order, on record, whole when used; usable again after a failure |
| display: `modules/modmedia.display.c` | layers, one OSD block each, one spare and the layer that may still show it | init, configure, bind, disable, show_image, deinit | VO, which takes frames up at its vertical sync; IDE preview | spare drawn upon, freed or handed over while VO has it; failed waits and pushes | blocks have one owner, are enough, and are not touched while on a screen |
| WebRTC: `modules/modwebrtc.c` | peers with call count, closed flag, connection, mutex and worker; registry of those in use | make, calls, close, finaliser, deinit_all | GIL, registry mutex, a mutex per peer, native workers | calls, closes and a reset that keeps the GIL overlap | connections used while they are there; the registry exact; nothing outlives the VM; a close ends |
| other modules: UVC, GSDMA, video frames, 2D, USB, pins and other `machine` drivers, network, bluetooth, KPU, AI and vision code, Python media library, vendored libraries, tools | mostly handles | wrappers of HAL, MPP or native libraries | file descriptors | little control of their own | argument checks |

`PROJECT.json` lists every component with its status, and the hazards of the
code with the property that covers each one, or the reason why none does.

## Modules

**MpThread** (`core/mpthreadport.c`, reset path of `core/main.c`). A section
under `thread_list_mutex` neither blocks nor takes another lock, so each is one
step. The GIL is `gil`; a thread is at a program point `pc[t]`; `py` is Python
code, `blocked` a wait for the GIL or a system call without it. One action per
function, split where the code leaves the lock: `mp_thread_create` is
`CreateAlloc`, `CreateSpawn`/`CreateFail`, `CreateReturn`; `thread_entry` is
`EntryGil`, `mp_thread_start`, `EntryReturn`, `mp_thread_finish`
(`FinishUnlink`, `FinishNotify`) and `EntryExit`; `mp_thread_shutdown_workers`
is `ShutdownBegin`, `ShutdownScan`, `ShutdownWait`, `ShutdownGil`. `Habits` says
what the script may do: register `sys.atexit`, start a thread late, swallow
SystemExit. `thread_entry`, `mp_init` and `mp_deinit` belong to MicroPython, a
submodule that is not in the repository; they are modelled from how the port
uses them and marked external in the map.

**VmLifecycle** is the abstract specification: a VM that is down, up or ending,
and threads that exist only while it is not down. MpThread implements it under
the mapping `Lifecycle`.

**UartPeriodicTx** (`modules/moduart_periodic_tx.c` and the reservations of
`machine_timer.c`). One script process (every method runs with the GIL, see
`VmExclusion`) and a set of handler activations, which may overlap: the code's
atomics, its `in_callback` counter and the busy wait of `stop` are there for
that. Each atomic access another process can observe is a step; memory is
sequentially consistent. A buffer's content is the pair of its length and
generation, written in separate steps. The statistics counters are left out,
since no branch reads them. With three buffers, one active and one read, the
`EBUSY` branch of `update` cannot be taken and has no action. The driver's
`armed` and `signal` give late and lost ticks.

**MachineTimer** (`machine/machine_timer.c`). The script's `init` and `deinit`
step by step, handler activations, the scheduler's queue entry and the callback.
`callback` holds the generation that installed it, so that a callback can be
compared with the configuration in force. `SetExitingFlag` is
`system_set_exiting_flag`, set by the IDE task and cleared by the main thread.

**IdeSession** (`core/main.c`, `omv/ide_dbg.c`). The main thread walks through
`main_()` from `soft_reset` to the teardown, one action per statement that reads
or writes shared state. The IDE task is idle or inside a command: `ScriptExec`,
`QueueScript`, `PostScript`, `PushCtrlC`, `PushCtrlD` are
`cmd_script_exec`/`cmd_file_exec`, `ide_dbg_queue_script` and `interrupt_repl`;
`RequestSoftReset`, `FlushInput`, `InjectException`, `PushCtrlD` are
`ide_dbg_request_soft_reset`. The code raises the task's priority but goes on
when that fails, and it sleeps inside commands, so its steps interleave with the
main thread's. A program ends by itself or by an exception, which leaves the same
state (a SystemExit in a line of the REPL leaves `do_repl()`); before that it may
read the input (`ProgramReads`: `input()` takes from the same ring as the prompt,
control characters included, `mphalport.c:303-312`), catch what was to interrupt it
(`ProgramCatches`), and leave a thread that goes on reading (`reader`). The host types
through TX_INPUT while attached and through the raw terminal otherwise (`RouteRepl`);
a full ring loses its oldest entry. Text completes a line at the prompt or does not
(`typed`), and only an empty line takes Ctrl-D for the end of the REPL. The teardown
is one step, modelled in MpThread.

The Ctrl-D of a stop or of a queued script can therefore be missed, in the code as
in the model: when a line of the REPL reads it before it ends, the prompt comes
back with the request set and waits until the host sends something else. It takes
no race when the line catches the injected exception and reads again, nor when the
port closes between the line's reading and `ide_before_python_run`, where no
exception is injected. Likewise when a thread reads it, when it meets an unfinished
line (a host that types half a line and closes its port), or when 4096 bytes are
typed after it. The auxiliary variable `missed` records that this happened to the
Ctrl-D pushed last, at a place past which the main thread does not look at the
request by itself (`PastLook`); a new request pushes a new Ctrl-D and clears it.
`NobodyWaitsInVain` and `RequestsEnd` except this case and no other: in particular,
automatic scripts and IDE scripts may read what they like.

**RtspPlayer** (`multi_media/rtsp_player.cpp`, `rtsp_player_logic.h`,
`RtspClient.c`). Four kinds of threads: the script's call `op`, which has the GIL;
`readers` inside `get_frame`, which gave it up; `live`, the live555 session, which
makes one callback at a time; and `decoder`. A section under `mu_` is a step; a
sleeper on a condition variable moves on when it is notified or timed out and
looks again. `deinit()` keeps `mu_` during `client_.DeInit()`: `muHeld`. An access
unit is only "follows" or "gap", relative to what was kept before it, which is
what decides whether it can be decoded. The live555 client is a library that is
not in the repository; its callbacks follow the comments of `rtsp_player.cpp` and
are external in the map.

**MediaManager** (`modules/modvbmgmt.c`, `core/mpp_vb_mgmt.c`,
`builtin_py/media/sensor.py`). Each buffer has what its record says (`rec`) beside
what the library has given out (`own`), so that a record that is wrong shows;
likewise `image`, `stat` and `sensor` beside `dev`. `run()` and `stop()` are split
between their driver calls, where `Interrupt` may end them. The soft reset is one
action per stage from `ResetPre` to `Boot`. `forgotten` remembers where the code
gives something up on purpose. **MediaParameters** declares its constants.

**FramePreview** (`omv/ide_dbg.c`, `omv/ide_dbg_vo_wbc.c`). The frame buffer with
named heap blocks, so that a leak or a second free shows; the encoder as the set
of resources on record beside the set held, since any call may fail and a cleanup
stops there. `Acquire`, `Release` and `Needs` are the code's orders and the
library's dependencies. `Cleanup` is `_vo_wbc_cleanup`: it goes on past its last
failure only as far as the code does, and an encode that finds leftovers gives up
when releasing them fails, the VENC descriptor included (`ide_dbg_vo_wbc.c:394-400`).

**StdoutRing** (`omv/ide_dbg.c`). `tx_buf_drain` gives `tx_buf_mutex` up while it
writes: `Copy` and `EndWrite`, with any part of the text sent. The probe that
holds early output is `probe`; `pending` is the set of cells whose byte still has
to be delivered.

**StdinRing** (`core/mphalport.c`) is the input ring with its waiting readers;
**InputQueue** is what it promises, a queue that keeps the latest bytes, and
StdinRing implements it under `Contents`.

**DisplayBuffers** (`modules/modmedia.display.c`). VO is `current` and `queued`,
what a layer shows and what it will show from the next `VerticalSync`; a frame is a
block of the OSD pool or another one (`Other`: a direct frame, a bound channel, a
rotated copy). `show_image` is split at its wait, its allocation and its push, at
each of which it may raise. Its functions keep the GIL throughout, so that only VO
runs beside them. VO follows the simulated one of
`unit_test/scripts/check_display_buffer_ownership.py`, which tests these functions
in a few sequences; the model has all of them, with direct frames, several layers,
failures at every step and reinitialisation.

**MjpegEncoder** (`modules/modmedia.mjpeg.c`). As in FramePreview, the resources on
record beside those held. `misses` counts encodes in a row that failed although no
call of the library failed by itself, for the question whether an encoder that
keeps the size of a half-released channel can get stuck.

**WebRtcPeer** (`modules/modwebrtc.c`). Script threads make peers, call them and
close them, each worker runs its loop, and main may start the reset at any time:
`webrtc_deinit_all` with the GIL held, the time in which the other threads still
run until they exit, and the sweep, whose finalisers are `close()` again. `gil`
names an owner that keeps the GIL for more than a step; a call or a `close()` that
gave it up has `Return` or `Unregister` where it takes it back. The wait for calls
in progress (`Drained`), the join of the worker and the destruction are steps of
their own, since others run in between. **WebRtcParameters** declares its constants.

**MCIndependent** extends DisplayBuffers and instantiates MediaManager,
FramePreview, StdoutRing, StdinRing, MjpegEncoder and WebRtcPeer beside it. They
share no state, so each is explored while the others are in their initial states; what
can be reached is the same, and one run checks them all. The detach of an IDE,
which clears the ring and the frame buffer, is an action of each module.
**MCDeinitAll** puts UartPeriodicTx and WebRtcPeer together in the same way, for
the liveness of what the reset takes down while it keeps the GIL.

`MC*` modules give TLC its instances. Definitions named `Mut_...` are variants
of the definition after them with one plausible mistake; no specification uses
them.

## Runs

| run | instance | question |
|---|---|---|
| `threads` | 3 workers (symmetric), 4 creations, every habit | is the teardown alone, no wakeup lost, no entry used after free, the registry exact; is VmLifecycle implemented |
| `thread_reset` | 2 workers, 2 creations, no habits, fair | does the VM always have the GIL, does the collector see every thread, does SystemExit reach all workers, does a reset end |
| `uart_tx_frames` | 1 transmitter, 1 handler, 4 frames | frames whole, in order, none twice; `update` and `is_sent` tell the truth |
| `uart_tx_shared` | 3 transmitters, 2 timers, 1 UART, 2 handlers, every step of start may fail | one sender, exact reservations, silence after `deinit_all` |
| `teardown_live` | 1 transmitter, 2 handlers, 1 frame; main and 1 script thread, 1 peer; fair | nothing released under a handler; `stop` ends; a frame leaves; closing a peer ends, whether a script or the reset does it |
| `timer_callbacks` | 2 handlers (symmetric), 4 generations, hard and soft | one pending event, current callbacks, paired events |
| `timer_periodic` | 1 handler, 4 generations, every setting, fair | a periodic timer fires |
| `ide_session` | 2 scripts, input ring of 2, 1 spare post, fair | scripts neither freed nor replaced, no token missing, no request stranded and every request and script ends unless its Ctrl-D was missed |
| `rtsp_player` | 2 get_frame threads, queue of 2, fair | no gap is queued, no wakeup lost, lent pictures mapped, channels outlive their users, sessions begin and end with their owner, stop() returns |
| `independent_parts` | 2 buffers, 2 frame slots; 3 heap blocks; ring of 4 bytes, prints of up to 2; input ring of 3, chunks of up to 2, 2 readers; 2 layers, osd_num up to 2; 2 picture sizes; main and 2 script threads, 2 peers | the invariants of MediaManager, FramePreview, StdoutRing, DisplayBuffers, MjpegEncoder and WebRtcPeer, that a drain ends, and that StdinRing is an InputQueue |
| `atexit_without_gil` | violation of `VmNeedsGil` | the `sys.atexit` handler runs after the GIL was given up (`main.c:603-614`) |
| `late_thread` | violation of `ResetCompletes` | a thread made after the broadcast is not told to exit, and the reset waits for it |

A run checks conjunctions of named parts, which the modules define one by one:
`ResourcesOwned` is `OneSender`, `OneTimerUser`, `UsersExact` and `SweepSilences`;
`FramesInOrder` is `FrameIntact` and `OnceInOrder`; `NoneWaitsForever` is
`TransmitterProgresses` and `ClosesEnd` of WebRtcPeer; and so on. TLC names the
conjunction when it fails; checking the part by itself tells which.

Bounds. Three workers show two finishing while a third is created, and four
creations let an identity be used again within one reset. Four generations let
the reader lose its race three times, which is the limit of its loop, and reuse a
buffer; two handlers are enough for every conflict on `tx_busy`, `reader_idx`
and `scheduled`, which hold one winner. Three transmitters on two timers and one
UART cover both kinds of conflict and a different configuration. Two scripts
show a payload replaced by another; one spare post of `script_sem` shows that a
stale token does no harm; an input ring of two entries holds the two control
characters the task pushes and overflows with the next key. Symmetry is used over workers and handlers only,
and never in a run with a liveness property. Two readers show a frame taken by the other
one; a queue of two is full after one unit that follows its key frame. Two
buffers tell a count from a flag, two slots a retried frame from a fresh one;
three heap blocks are one per owner (`fb_data`, announced, being dumped), and
with fewer the case of all three would not happen. A ring of four with prints of
two wraps at every offset and overflows. Two layers show a spare left by one and taken
by the other, with `osd_num` below, at and above what they need. Three threads
show a reset, a close and a call meet on one peer, two peers a library that goes
down with the last one only. `MaxErrors` bounds the error texts of
FILE_EXEC, the only text the IDE task writes. `CHECK_DEADLOCK` is off for
MachineTimer, whose generations are bounded and whose script may stop for good,
and for RtspPlayer, because of the state described below.

Fairness. Threads that can run do run. The GIL and the list lock reach each
waiter (`THREAD_GIL_YIELD_INTERVAL` exists for that), hence strong fairness for
taking the GIL. A handler that was entered goes on; a ticking timer's signal is
taken; the scheduler's queue is not full for ever. In IdeSession, programs end
whatever they read and catch before (a script that loops for ever and catches every
exception is not reset, in the code or in the model; `ProgramEnd` stays enabled
while a program runs, so weak fairness of `MainThread` is enough) and the REPL reads its input although a command may drop it
in between, since the task sleeps in its poll between commands. No fairness is
assumed for scripts, hosts or resets. In RtspPlayer, a callback that was entered
ends, calls and the decode thread go on, and VDEC runs out of decoded pictures;
the decode loop looks at its queue between two passes, and the camera does not
deliver within every single one of them, without which `stop()` would not end.
No timeout is assumed to pass: what is proved to happen happens without it. In
StdoutRing a UART write ends (it gives up when nothing moves) and the guard time
of the probe passes. In WebRtcPeer calls, closes and workers go on, and the wait of a
close, which polls every millisecond, sees the count at zero if it is zero again
and again: other calls are refused within two instructions.

## Proofs

Each invariant and each action property that a run checks is also a theorem, for all
values of the constants that the module's assumption admits, and so are the two
refinements. The proofs of a module are in `<module>_proofs`; those of the smaller
components that MCIndependent puts together, and of its `TypesOK`, are in
`Independent_proofs`. All have one shape: an inductive invariant, that the initial
states satisfy it, a lemma for each of its parts with one step per action (or one
lemma per action), and the property from it. The assumptions say that names of
nobody are nobody's, that what is counted is finite, and that a queue or a ring has
room:

| module | assumption |
|---|---|
| MpThread | `ThreadAssumption`: main is no worker, finitely many workers |
| UartPeriodicTx | `ConstantsAssumption`: finitely many objects and handler activations, each object with its timer and its UART |
| MachineTimer | `ConstantsAssumption`: `init()` has at least one admissible pair of arguments |
| IdeSession | `SessionAssumption`: none of the scripts is `None`; the input ring has room |
| RtspPlayer | `RtspAssumption`: `cache_count_` is at least 1 (`RtspClient.c:113` raises `ValueError` below) |
| DisplayBuffers | `OsdAssumption`: finitely many layers, a block is not one of the two other frames |
| WebRtcPeer | `WebRtcAssumption`: main is no script thread, nobody is a thread or a peer |
| MediaManager | `MediaAssumption`: finitely many buffers |
| FramePreview, StdoutRing, StdinRing | `PreviewAssumption`, `StdoutAssumption`, `StdinAssumption` of MCIndependent: blocks are blocks, rings have room, the interrupt character is no other byte |

**MpThread.** `TypeCorrect`, `ResetIsAlone` (`TeardownAlone`), `WakeupNotLost`
(`NoLostWakeup`), `EntriesAlive` (`NoFreedEntryUse`), `RegistryExact`
(`RegistryConsistent`) and `Refinement` (`Spec => VmLifecycleSpec`) hold for any
habits of the script. `VmExclusion` (`VmNeedsGil`) and `CollectorSeesAll`
(`GcSeesEveryThread`) hold for scripts that register no exit handler: with one, the
first is false, as a run shows. `ExitArrives` (`ExitReachesWorkers`) holds for
scripts whose threads neither catch SystemExit nor start others after the broadcast,
with or without an exit handler. `TeardownAlone` is not inductive: that no worker is
left follows from what each point of the shutdown has established. `IInv` adds who
owns the GIL at each program point (`GilOwner`), which points belong to linked
entries (`Linked`), that nothing starts once the registry was found empty (`Quiet`),
who will post the semaphore (`Waiting`), which entries are allocated (`Entries`) and
that the counter is the size of the registry (`Counted`). The key is that a worker
keeps the GIL from unlinking itself to its last post, so main, which takes the GIL
after the scan, comes after it. `ExitArrives` needs that a worker which starts is
not `ready` (`Unready`), so that the broadcast leaves it the exception in its entry,
and that main, which has the GIL at the broadcast, finds no thread inside
`mp_thread_create`.

**UartPeriodicTx.** `TypeCorrect`, `WholeFramesInOrder` (`FramesInOrder`),
`ReportsAreTrue` (`ReportsTrue`), `HandshakeHolds` (`HandlerHoldsLiveObject`) and
`Ownership` (`ResourcesOwned`), from one invariant: the locals (`Places`), the order
of the reservations (`Claims`), which slots may tick (`Slots`), that a handler
inside a slot is counted before it looks at the owner (`Handshake`), the exchange on
`tx_busy` (`Senders`), the sweep (`Swept`), the generations (`Frames`), that a
sender has published the buffer it reads and that `update` chose another one
(`Readers`), and that `last_sent_generation` is the latest delivered but between a
write and its record (`Deliveries`, `Reports`).

**MachineTimer.** `TypeCorrect`, `OneEventPaired` (`ScheduleConsistent`),
`CurrentCallback` (`CallbackIsCurrent`). `Pending` restates the lock `scheduled`
without counting: free, or held by one handler, one queued event or one callback.
`Configured` says in which steps of `init` and `deinit` the callback belongs to the
generation, and that no call runs out of generations.

**IdeSession.** `TypeCorrect`, `WaitsAreAnswered` (`NobodyWaitsInVain`) and
`PayloadIsKept` (the action property `PayloadKept`). `Slot` gives the payload to the
main thread from the loop to the release; `Tokens` counts `script_sem` with the post
that is due; `Noticed` says that past the last look for a script or a request the
Ctrl-D that ends the REPL is in the input, on its way, or missed, whatever is
flushed, typed and read. `StoredFacts` says what a full ring keeps.

**RtspPlayer.** `TypeCorrect`, `NoGapIsQueued` (`QueueFollowsOn`), `NoWakeupIsLost`
(`NoLostWakeup`), `BuffersLast` (`BuffersOutliveUsers`), `OneSession`
(`SessionsOwned`). The invariant adds who has a decode thread (`Decoding`), where a
session may be alive (`Sessions`), that the player asks for a key frame after any
loss (`Chain`) and when a view may be lent (`Views`).

**DisplayBuffers.** `TypeCorrect` and `BuffersSound` (`DisplayBuffersSound`). `IInv`
adds to the types and the owners of the blocks that a spare still on a screen has
been replaced there since it became the spare (`Replaced`; the property asks it of a
spare that is waited for), that no more layers have blocks than osd_num (`Budget`,
from which the pool always has one for the spare), what each step of `show_image`
has established (`InShow`) and that a display that is down has nothing (`Down`). The
types are not inductive without `InShow`, which says that the call has a layer.
There is one lemma per action; `ScreenStep` does the part common to those that leave
the buffers alone.

**WebRtcPeer.** `PeersTypes` and `PeersAreSound` (`PeersSound`). `PeersInv` adds
where a thread has a peer (`Places`), that `active` is the number of the callers
(`Counts`), that one thread closes a peer and stays until it is off the registry
(`OneCloser`), what the close has brought about at each of its steps (`Progress`)
and what the reset may rely on because it keeps the GIL (`Lock`).

**Independent_proofs.** MediaManager: `MediaIsAccounted` (`MediaAccounted`), with
what each stage of the reset has cleared (`Resetting`), what `run()` has on record
before its driver calls (`Running`), and that the backend goes down last
(`BackendDown`). MjpegEncoder: `EncoderIsSound` (`MjpegEncoderSound`), with how far
a call has come (`Calling`), that the input block is there as a whole or not at all
(`InputWhole`), and what follows a failed encode (`Recovering`). FramePreview:
`FrameIsHandedOver` (`FrameHandover`) and `PreviewEncoderIsSound` (`EncoderSound`),
with `Dumping`, `Recorded` and `Capturing`. StdoutRing: `RingIsSound`
(`RingHoldsPending`): one thread drains (`OneDrain`), and what it is writing is the
beginning of what can be read (`WritesOldest`). StdinRing: `StdinImplementsQueue`:
`wptr` is `rptr + count` round the ring, from which every push, read and clear maps
to a step of InputQueue. `TypesHold`: all of the instance keeps its types.

`EncoderSound` was not inductive at first, and rightly: the model let an encode go
on after releasing the VENC descriptor had failed, which the code does not.
`Cleanup` is the correction; the code keeps the property.

Model-checked only: `ResetCompletes`, `TransmitterProgresses` and `ClosesEnd`
(`NoneWaitsForever`), `PeriodicFires`, `RequestsEnd`, `StopEnds` and `DrainsEnd`.
They are liveness under fairness, which is beyond the prover. So is the fairness
itself: the theorems speak of `Spec`, whose steps the runs' fair specifications
share.

## What the models leave out

- Memory weaker than sequential consistency: the port runs on one hart, and a
  signal handler sees its hart's stores in order.
- Wrapping of the 32-bit generations, short writes, statistics.
- Programs that block for ever in native code, and locks of Python programs.
- In IdeSession: what the REPL does with a key beyond ending, dropping or executing
  a line, which belongs to MicroPython; the exiting flag that the task sets while it
  waits for interrupt callbacks (it is `SetExitingFlag` of MachineTimer, and no step
  of the session reads it); input from `os.dupterm`. Typed multi-byte input is a
  sequence of keys. That an interrupt meant for the REPL hits the script queued with
  it can be seen in the model, and no property forbids it. A missed Ctrl-D, described
  with the module above, is excepted from the properties, and nothing is claimed
  about a session that waits for the host after one.
- In MachineTimer, a handler delayed before it loads the generation
  (`machine_timer.c:148`) may give the tick of an old configuration to the new
  one; `CallbackIsCurrent` speaks of the generation the event was given.
- `boot.py` and `main.py`: whether the second one starts is decided from the
  connection alone (`main.c:513`), so it is started although an IDE attached
  during the first one, asked for a soft reset and closed its port. IdeSession
  has the steps; that no property speaks of it is a choice. Likewise an interrupt
  stored just before `main.c:588` is still pending in the exit handler.
- In RtspPlayer: the display binding, parsing of parameter sets, byte limits (a
  unit is oversized or the bytes are full, or not, at any time). A script is
  taken to join its `get_frame` threads before it destroys the player, and the
  reset joins all workers first. The units of a batch whose send was given up are
  lost, but the queue keeps the deltas behind them until the next key frame is
  asked for; `QueueFollowsOn` speaks of losses on the way in only.
- `deinit()` of a player that was opened and never started holds `mu_` during
  `client_.DeInit()`. If that joins the session thread while it waits for `mu_` in
  a callback, both wait for ever: the model reaches this state (`ClientDeinit` is
  never enabled), and the run of RtspPlayer does not check deadlock. Whether
  `DeInit()` joins is up to the library.
- An event before the first PLAY that arrives after `start()` has set `started_`
  sets no failure flag (`rtsp_player.cpp:240`).
- In MediaManager: one thread that takes snapshots. With two, the loop that clears
  records (`mpp_vb_mgmt.c:197-205`) may match a slot that was just claimed and
  still has the addresses of its former frame. Calls that undo a half-done
  acquisition (a block that could not be mapped) are taken to succeed, their
  results are ignored by the code. `cleanup_record` is there when needed. Whether
  finalisers run in the sweep is open: both happen. A device whose
  `kd_mpi_vicap_deinit` failed, an unregistered one without a finaliser, and
  frames whose release fails twice are given up by the code (`forgotten`).
- The bound check `id > VICAP_MAX_DEV_NUMS` (`mpp_vb_mgmt.c:73`, `:85`) admits one
  entry past the array; identities are well-formed in the model.
- In FramePreview: a frame that is given back after a failed query or
  `get_stream` while the encoder may still read it (`venc = "late"`), and the flag
  of the VENC descriptor, which is cleared although its release failed, are in
  the model; the properties except them. The main thread's detach after SYS_RESET
  discards a picture that was announced: the host has given it up.
- In StdoutRing: UARTs other than the USB one, and the text itself. A clear while a
  drain writes leaves an old pointer (`torn`, excepted from `RingHoldsPending`
  until the next clear); a print that was held and reaches the ring after
  `raw_input` drained it waits there for the next drain. Both are in the model.
- In StdinRing: the rest of a chunk after an interrupt character is dropped, and
  the bytes before it wake nobody; the deadline covers that.
- In DisplayBuffers: the writeback switch and its dumped frame, the length of the
  timeout, the lifetime of the image behind a direct frame. On a rotated panel the
  shared buffer is written again without a wait (`modmedia.display.c:974`): the
  model takes VO to have made its rotated copy by then. `kd_display_deinit` is taken
  to switch every layer off, as the code frees all buffers after it.
- In MjpegEncoder: a stream that is late. When `get_stream` times out and the channel
  then cannot be stopped, the next encode of the same size may receive the picture of
  the one before (`reads = "late"`). The image is looked at before and after the GIL
  is given up for the mutex (`modmedia.mjpeg.c:906`, `:950`): the model takes it to
  be the same picture, which another Python thread could change in between. A second
  thread on the same encoder adds no step, since the mutex covers whole calls.
- In WebRtcPeer: descriptions, candidates, media and the state of the connection,
  which are the library's; constructors that fail, which undo what they did with
  the GIL held. The finaliser gives up the GIL even for a closed peer: whether
  other threads may run in the middle of a collection's sweep is decided by the
  collector, which is not in the repository.
- The components marked not modelled in `PROJECT.json`. Most of the repository's
  lines are tables (fonts, dictionaries), vendored image and codec libraries and
  numeric code, which have no control state to model.

## Plan

In order; the core comes first because every other component runs under the GIL
or is torn down by the reset.

1. Done: MpThread, VmLifecycle, UartPeriodicTx, MachineTimer, IdeSession,
   RtspPlayer, MediaManager, FramePreview, StdoutRing, StdinRing with InputQueue,
   DisplayBuffers, MjpegEncoder, WebRtcPeer, and the proofs of all safety properties.
2. Abstract specifications with a refinement proof: a slot (empty, queued,
   executing) that the payload, flag and semaphore of IdeSession implement; a register that
   keeps the latest frame for UartPeriodicTx; a byte queue with loss for StdoutRing.
3. The safety halves of the liveness properties, which can be proved: what a
   waiting call waits for is held by somebody who can move (`StopEnds`, `ClosesEnd`).
4. More models: FbAlloc (the stack of `omv/alloc/fb_alloc.c` with marks, against a
   sequence of sizes), the virtual touch queue of the IDE, pin interrupts.

The number of runs is kept small on purpose: a new module brings one run that
checks its invariants, action properties and liveness together where its state
space allows, and a second one only for another instance.
