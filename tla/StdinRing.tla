------------------------------ MODULE StdinRing ------------------------------
(***************************************************************************)
(* Standard input of core/mphalport.c: a ring that the IDE task (or, on a  *)
(* plain UART, a reader thread) fills and Python threads empty, waiting on *)
(* a condition variable with a deadline.  A section under                  *)
(* mp_hal_stdin_lock is one step.                                          *)
(***************************************************************************)
EXTENDS Naturals, Sequences

CONSTANTS
  Size,       \* sizeof(mp_hal_stdin_ringbuf)
  Bytes,      \* what may be typed, other than the interrupt character
  MaxChunk,   \* longest chunk of one push
  Readers     \* Python threads in mp_hal_stdin_rx_chr

Ctrl == "ctrl"    \* mp_interrupt_char

VARIABLES
  ring, wptr, rptr, count,   \* mp_hal_stdin_ringbuf and its indices
  reader                     \* where each reader is: elsewhere, about to look, asleep, woken

vars == <<ring, wptr, rptr, count, reader>>

Cells == 0 .. Size - 1

Init ==
  /\ ring = [c \in Cells |-> CHOOSE b \in Bytes : TRUE]    \* zeroes: one and the same byte
  /\ wptr = 0 /\ rptr = 0 /\ count = 0
  /\ reader = [t \in Readers |-> "out"]

\* What a push stores: the bytes before the first interrupt character
Stored(data) ==
  LET before == {n \in 0 .. Len(data) : \A i \in 1 .. n : data[i] # Ctrl}
  IN CHOOSE n \in before : \A m \in before : m <= n

CountUpTo(n) == IF count + n > Size THEN Size ELSE count + n

\* Which of n bytes is the last one put into cell c
LastIn(c, n) == CHOOSE i \in 1 .. n : (wptr + i - 1) % Size = c /\ \A j \in i + 1 .. n : (wptr + j - 1) % Size # c

Written(data, n) ==
  [c \in Cells |-> IF \E i \in 1 .. n : (wptr + i - 1) % Size = c THEN data[LastIn(c, n)] ELSE ring[c]]

Mut_StoreKeepsOldest(data, n) ==
  /\ ring' = Written(data, n)
  /\ wptr' = (wptr + n) % Size
  /\ count' = CountUpTo(n)
  /\ UNCHANGED rptr

\* The bytes of a push, one after the other; each that finds the ring full drops the oldest.
Store(data, n) ==
  /\ ring' = Written(data, n)
  /\ wptr' = (wptr + n) % Size
  /\ count' = CountUpTo(n)
  /\ rptr' = (rptr + (count + n - CountUpTo(n))) % Size

\* pthread_cond_signal
Signal ==
  \/ \E t \in Readers : reader[t] = "asleep" /\ reader' = [reader EXCEPT ![t] = "woken"]
  \/ (\A t \in Readers : reader[t] # "asleep") /\ UNCHANGED reader

\* mp_hal_stdin_push: an interrupt character ends it, without a signal, and becomes an exception of the main thread.
Push ==
  \E n \in 1 .. MaxChunk : \E data \in [1 .. n -> Bytes \cup {Ctrl}] :
    /\ Store(data, Stored(data))
    /\ IF Stored(data) = n THEN Signal ELSE UNCHANGED reader

\* mp_hal_stdin_clear
Clear ==
  /\ rptr' = wptr /\ count' = 0
  /\ UNCHANGED <<ring, wptr, reader>>

\* mp_hal_stdin_rx_chr
Read(t) ==
  /\ reader[t] = "out"
  /\ reader' = [reader EXCEPT ![t] = "look"]
  /\ UNCHANGED <<ring, wptr, rptr, count>>

Take(t) ==
  /\ reader[t] = "look" /\ count > 0
  /\ rptr' = (rptr + 1) % Size /\ count' = count - 1
  /\ reader' = [reader EXCEPT ![t] = "out"]
  /\ UNCHANGED <<ring, wptr>>

Sleep(t) ==
  /\ reader[t] = "look" /\ count = 0
  /\ reader' = [reader EXCEPT ![t] = "asleep"]
  /\ UNCHANGED <<ring, wptr, rptr, count>>

\* The deadline passes: MP_HAL_STDIN_WAIT_US.
Timeout(t) ==
  /\ reader[t] = "asleep"
  /\ reader' = [reader EXCEPT ![t] = "woken"]
  /\ UNCHANGED <<ring, wptr, rptr, count>>

\* Between two looks callbacks run, and an exception may end the call.
Awake(t) ==
  /\ reader[t] = "woken"
  /\ reader' \in {[reader EXCEPT ![t] = "look"], [reader EXCEPT ![t] = "out"]}
  /\ UNCHANGED <<ring, wptr, rptr, count>>

Next == Push \/ Clear \/ \E t \in Readers : Read(t) \/ Take(t) \/ Sleep(t) \/ Timeout(t) \/ Awake(t)

Spec == Init /\ [][Next]_vars

-----------------------------------------------------------------------------
\* The bytes in the order in which they are read
Contents == [i \in 1 .. count |-> ring[(rptr + i - 1) % Size]]

Queue == INSTANCE InputQueue WITH queue <- Contents, Capacity <- Size

\* The values every variable may take.
TypeOK ==
  /\ ring \in [Cells -> Bytes] /\ wptr \in Cells /\ rptr \in Cells /\ count \in 0 .. Size
  /\ reader \in [Readers -> {"out", "look", "asleep", "woken"}]

\* Standard input is a queue that keeps the latest bytes, whatever mixture of pushes, overruns, clears and reads.
IsQueue == Queue!Spec
=============================================================================
