-------------------------- MODULE MCUartPeriodicTx --------------------------
(* Instances of UartPeriodicTx: one transmitter with one or two activations *)
(* of its handler, two that share a UART, three that compete for two timers *)
(* and one UART (c with another configuration).                             *)
EXTENDS UartPeriodicTx, TLC

CONSTANTS a, b, c, t1, t2, u1

AllOn(x) == [o \in Objs |-> x]
SameTimer == AllOn(t1)
BesideB == [o \in Objs |-> IF o = b THEN t2 ELSE t1]
SameUart == AllOn(u1)
SameConfig == AllOn("8N1")
ConfigCDiffers == [o \in Objs |-> IF o = c THEN "7E1" ELSE "8N1"]
Repeating == AllOn(TRUE)
Once == AllOn(FALSE)
Mixed == [o \in Objs |-> o = a]
SwapHandlers == Permutations(Handlers)
=============================================================================
