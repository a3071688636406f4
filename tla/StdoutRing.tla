----------------------------- MODULE StdoutRing -----------------------------
(***************************************************************************)
(* The text a program prints, on its way to the host: the ring of          *)
(* omv/ide_dbg.c, its drains, and the probe that decides whether text is   *)
(* held for an IDE, kept for one that is attached, or sent as it is.       *)
(*                                                                         *)
(* Two threads use it: "py" has the GIL and prints, or ends an IDE script; *)
(* "ide" serves the host.  A section under tx_buf_mutex or                 *)
(* stdout_probe_mutex is one step.  A drain gives tx_buf_mutex up while it *)
(* writes to the UART, so it is a step that copies and one that ends the   *)
(* write; tx_drain_mutex is held from the one to the other.                *)
(*                                                                         *)
(* Of the text the model keeps which cells of the ring hold a byte that    *)
(* was printed and neither delivered nor discarded; what a raw drain could *)
(* not send is discarded on purpose.                                       *)
(***************************************************************************)
EXTENDS Naturals, FiniteSets

CONSTANTS
  Size,        \* TX_BUF_SIZE
  MaxPrint,    \* longest print, in bytes
  MaxErrors    \* bound: errors of FILE_EXEC the IDE task writes

VARIABLES
  r, w,         \* tx_buf_r, tx_buf_w
  pending,      \* cells with a byte that is to be delivered
  torn,         \* history: the ring was cleared under a drain, and not since
  drain,        \* for each thread, whether it has tx_drain_mutex, and what it is writing
  probe,        \* stdout_probe_dtr, _active and _raw
  attached, disconnect,   \* ide_attached, ide_disconnect
  dtr,          \* the host has its port open
  py, ide,      \* where each thread is
  errors

vars == <<r, w, pending, torn, drain, probe, attached, disconnect, dtr, py, ide, errors>>

Cells == 0 .. Size - 1
Threads == {"py", "ide"}
Probe == {"none", "held", "raw", "protocol"}

\* odd counts the writes of a drain, modulo 2: one that sends nothing is a step too.
NoDrain == [on |-> FALSE, start |-> 0, len |-> 0, full |-> FALSE, odd |-> FALSE]

Init ==
  /\ r = 0 /\ w = 0 /\ pending = {} /\ torn = FALSE
  /\ drain = [t \in Threads |-> NoDrain]
  /\ probe = "none"
  /\ attached = FALSE /\ disconnect = FALSE /\ dtr = FALSE
  /\ py = "idle" /\ ide = "idle"
  /\ errors = 0

\* The cells of n bytes from start on
Span(start, n) == {(start + i) % Size : i \in 0 .. n - 1}

Readable == (w + Size - r) % Size

Writable == Size - 1 - Readable

-----------------------------------------------------------------------------
(* The ring. *)

NobodyDrains == \A t \in Threads : ~drain[t].on

\* tx_buf_clear_locked
Clear ==
  /\ r' = 0 /\ w' = 0 /\ pending' = {}
  /\ torn' = ~NobodyDrains

KeepRing == UNCHANGED <<r, w, pending, torn>>

Mut_TxNoWrap ==
  \E n \in 1 .. MaxPrint :
    /\ IF n > Writable
       THEN UNCHANGED <<w, pending>>
       ELSE w' = w + n /\ pending' = pending \cup Span(w, n)
    /\ UNCHANGED <<r, torn>>

\* ide_dbg_stdout_tx: a print that does not fit is dropped as a whole.
Tx ==
  \E n \in 1 .. MaxPrint :
    /\ IF n > Writable
       THEN UNCHANGED <<w, pending>>
       ELSE w' = (w + n) % Size /\ pending' = pending \cup Span(w, n)
    /\ UNCHANGED <<r, torn>>

\* The first half of tx_buf_drain: n bytes are copied, tx_buf_r stays where it is.
Copy(t, from, n, isFull) ==
  drain' = [drain EXCEPT ![t] = [on |-> TRUE, start |-> from, len |-> n, full |-> isFull, odd |-> ~@.odd]]

Mut_AdvanceAll(d, sent) == d.len

Mut_AdvanceSent(d, sent) == sent

\* tx_buf_r moves by what was sent if the host reads a fixed length, else by the whole text.
Advance(d, sent) == IF d.full THEN sent ELSE d.len

\* The second half: the UART write has ended, after sent bytes.  A raw drain goes on until the ring is empty.
EndWrite(t) ==
  LET d == drain[t]
      next(n) == (d.start + n) % Size
      left(n) == (w + Size - next(n)) % Size
  IN /\ d.on
     /\ \E sent \in 0 .. d.len : LET n == Advance(d, sent) IN
          /\ r' = next(n)
          /\ pending' = pending \ Span(d.start, IF d.full THEN sent ELSE d.len)
          /\ IF d.full \/ left(n) = 0
             THEN drain' = [drain EXCEPT ![t] = NoDrain]
             ELSE Copy(t, next(n), left(n), FALSE)
     /\ UNCHANGED <<w, torn>>

\* tx_buf_drain_all_raw, up to its first write
BeginRaw(t) ==
  /\ NobodyDrains
  /\ IF Readable = 0 THEN UNCHANGED drain ELSE Copy(t, r, Readable, FALSE)

-----------------------------------------------------------------------------
(* The program prints: ide_dbg_stdout_capture, and mp_hal_stdout_tx_strn around it. *)

\* ide_dbg_attach()
Capture ==
  /\ py = "idle"
  /\ py' = IF attached THEN "tx" ELSE "dtr"
  /\ UNCHANGED <<r, w, pending, torn, drain, probe, attached, disconnect, dtr, ide, errors>>

ReadDtr ==
  /\ py = "dtr"
  /\ py' = IF dtr THEN "probe" ELSE "reset"
  /\ UNCHANGED <<r, w, pending, torn, drain, probe, attached, disconnect, dtr, ide, errors>>

\* Without a host the probe starts anew.
ProbeReset ==
  /\ py = "reset"
  /\ probe' = "none" /\ Clear
  /\ py' = "direct"
  /\ UNCHANGED <<drain, attached, disconnect, dtr, ide, errors>>

\* The first print with a host starts the probe; text is held for STDOUT_PROBE_GUARD_MS at most.
ProbeHolds ==
  /\ py = "probe"
  /\ probe \in {"none", "held"}
  /\ probe' = "held"
  /\ IF probe = "none" THEN Clear ELSE KeepRing
  /\ py' = "tx"
  /\ UNCHANGED <<drain, attached, disconnect, dtr, ide, errors>>

\* The time is over, or an IDE attached since the print began.
ProbeEnds ==
  /\ py = "probe"
  /\ probe \in {"held", "protocol"}
  /\ probe' = "raw"
  /\ py' = "flush"
  /\ UNCHANGED <<r, w, pending, torn, drain, attached, disconnect, dtr, ide, errors>>

ProbeRaw ==
  /\ py = "probe"
  /\ probe = "raw"
  /\ py' = "direct"
  /\ UNCHANGED <<r, w, pending, torn, drain, probe, attached, disconnect, dtr, ide, errors>>

PrintToRing ==
  /\ py = "tx"
  /\ Tx
  /\ py' = "idle"
  /\ UNCHANGED <<drain, probe, attached, disconnect, dtr, ide, errors>>

PrintFlush ==
  /\ py = "flush"
  /\ BeginRaw("py")
  /\ py' = IF Readable = 0 THEN "direct" ELSE "drain"
  /\ UNCHANGED <<r, w, pending, torn, probe, attached, disconnect, dtr, ide, errors>>

PrintDrain ==
  /\ py = "drain"
  /\ EndWrite("py")
  /\ py' = IF drain'["py"].on THEN "drain" ELSE "direct"
  /\ UNCHANGED <<probe, attached, disconnect, dtr, ide, errors>>

\* mp_hal_uart_tx of the text itself
PrintDirect ==
  /\ py = "direct"
  /\ py' = "idle"
  /\ UNCHANGED <<r, w, pending, torn, drain, probe, attached, disconnect, dtr, ide, errors>>

-----------------------------------------------------------------------------
(* ide_dbg_set_attached(false): the flag, then ide_dbg_stdout_protocol_detach().  The frame buffer is in *)
(* FramePreview. *)

Detached == probe' = "none" /\ Clear

\* ide_dbg_on_ide_script_end: waits 100 ms at most for the ring, then ends a session that SYS_RESET closed.
ScriptEnd ==
  /\ py = "idle"
  /\ disconnect
  /\ disconnect' = FALSE /\ attached' = FALSE
  /\ py' = "detach"
  /\ UNCHANGED <<r, w, pending, torn, drain, probe, dtr, ide, errors>>

ScriptEndDetach ==
  /\ py = "detach"
  /\ Detached
  /\ py' = "idle"
  /\ UNCHANGED <<drain, attached, disconnect, dtr, ide, errors>>

-----------------------------------------------------------------------------
(* The IDE task. *)

\* A valid frame header: ide_dbg_stdout_protocol_attach, then ide_dbg_set_attached(true)
Header ==
  /\ ide = "idle" /\ ~attached /\ dtr
  /\ probe' = "protocol"
  /\ ide' = "attach"
  /\ UNCHANGED <<r, w, pending, torn, drain, attached, disconnect, dtr, py, errors>>

Attach ==
  /\ ide = "attach"
  /\ attached' = TRUE
  /\ ide' = "idle"
  /\ UNCHANGED <<r, w, pending, torn, drain, probe, disconnect, dtr, py, errors>>

\* Any other byte is input for the REPL: ide_dbg_stdout_raw_input
RawInput ==
  /\ ide = "idle" /\ ~attached
  /\ probe' = "raw"
  /\ ide' = "flush"
  /\ UNCHANGED <<r, w, pending, torn, drain, attached, disconnect, dtr, py, errors>>

RawFlush ==
  /\ ide = "flush"
  /\ BeginRaw("ide")
  /\ ide' = IF Readable = 0 THEN "idle" ELSE "drain"
  /\ UNCHANGED <<r, w, pending, torn, probe, attached, disconnect, dtr, py, errors>>

\* USBDBG_TX_BUF: as many bytes as the host asks for
TxBuf ==
  /\ ide = "idle" /\ attached
  /\ NobodyDrains
  /\ \E n \in 1 .. Readable : Copy("ide", r, n, TRUE)
  /\ ide' = "drain"
  /\ UNCHANGED <<r, w, pending, torn, probe, attached, disconnect, dtr, py, errors>>

IdeDrain ==
  /\ ide = "drain"
  /\ EndWrite("ide")
  /\ ide' = IF drain'["ide"].on THEN "drain" ELSE "idle"
  /\ UNCHANGED <<probe, attached, disconnect, dtr, py, errors>>

\* file_exec_error
FileExecError ==
  /\ ide = "idle" /\ attached
  /\ errors < MaxErrors
  /\ errors' = errors + 1
  /\ Tx
  /\ UNCHANGED <<drain, probe, attached, disconnect, dtr, py, ide>>

\* SYS_RESET while a script runs: the script's end ends the session.
SysReset ==
  /\ ide = "idle" /\ attached
  /\ disconnect' = TRUE
  /\ UNCHANGED <<r, w, pending, torn, drain, probe, attached, dtr, py, ide, errors>>

\* SYS_RESET otherwise (ide_dbg_interrupt), or the loss of the host (ide_dbg_disconnect_and_soft_reset)
Leave ==
  /\ ide = "idle" /\ attached
  /\ UNCHANGED disconnect \/ (~dtr /\ disconnect' = FALSE)
  /\ attached' = FALSE
  /\ ide' = "detach"
  /\ UNCHANGED <<r, w, pending, torn, drain, probe, dtr, py, errors>>

Detach ==
  /\ ide = "detach"
  /\ Detached
  /\ ide' = "idle"
  /\ UNCHANGED <<drain, attached, disconnect, dtr, py, errors>>

\* The host opens or closes its port.
Plug ==
  /\ dtr' = ~dtr
  /\ UNCHANGED <<r, w, pending, torn, drain, probe, attached, disconnect, py, ide, errors>>

-----------------------------------------------------------------------------
Python ==
  \/ Capture \/ ReadDtr \/ ProbeReset \/ ProbeHolds \/ ProbeEnds \/ ProbeRaw
  \/ PrintToRing \/ PrintFlush \/ PrintDrain \/ PrintDirect \/ ScriptEnd \/ ScriptEndDetach

IdeTask ==
  \/ Header \/ Attach \/ RawInput \/ RawFlush \/ TxBuf \/ IdeDrain
  \/ FileExecError \/ SysReset \/ Leave \/ Detach

Next == Python \/ IdeTask \/ Plug

\* A UART write ends: it gives up 900 ms after its last progress, or when the host is gone.
WriteEnds == PrintDrain \/ IdeDrain

Spec == Init /\ [][Next]_vars
\* The guard time passes: prints are not held for ever.
Fairness == WF_vars(WriteEnds) /\ SF_vars(ProbeEnds)

FairSpec == Spec /\ Fairness

-----------------------------------------------------------------------------
\* The values every variable may take.
TypeOK ==
  /\ r \in Cells /\ w \in Cells /\ pending \subseteq Cells
  /\ torn \in BOOLEAN /\ attached \in BOOLEAN /\ disconnect \in BOOLEAN /\ dtr \in BOOLEAN
  /\ drain \in [Threads -> [on : BOOLEAN, start : Cells, len : 0 .. Size - 1, full : BOOLEAN, odd : BOOLEAN]]
  /\ probe \in Probe
  /\ py \in {"idle", "dtr", "reset", "probe", "tx", "flush", "drain", "direct", "detach"}
  /\ ide \in {"idle", "attach", "flush", "drain", "detach"}
  /\ errors \in 0 .. MaxErrors

\* What can be read is exactly what was printed and neither delivered nor discarded: nothing is sent twice, skipped
\* or overwritten, across short writes and drains by both threads.  A clear under a drain is excepted (see torn).
RingHoldsPending == ~torn => pending = Span(r, Readable)

\* A drain ends, also if the host reads nothing: without it the IDE task and every print would wait for
\* tx_drain_mutex.  Excepted is a ring that is cleared again and again under the drain.
DrainsEnd == \A t \in Threads : drain[t].on ~> (~drain[t].on \/ torn)
=============================================================================
