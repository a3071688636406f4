---------------------------- MODULE VmLifecycle ----------------------------
(***************************************************************************)
(* What a soft reset promises to Python threads: the interpreter is torn   *)
(* down only when no thread of the script is left, threads exist only      *)
(* while there is an interpreter, and a reset once begun is not taken      *)
(* back.                                                                   *)
(***************************************************************************)
CONSTANT Workers

VARIABLES
  phase,   \* "down": no VM; "up": it runs; "ending": it is to be torn down
  alive    \* the threads of the script

Init == phase = "down" /\ alive = {}

Boot == phase = "down" /\ phase' = "up" /\ UNCHANGED alive

Spawn(w) ==
  /\ phase # "down"
  /\ w \notin alive
  /\ alive' = alive \cup {w}
  /\ UNCHANGED phase

Exit(w) ==
  /\ w \in alive
  /\ alive' = alive \ {w}
  /\ UNCHANGED phase

Reset == phase = "up" /\ phase' = "ending" /\ UNCHANGED alive

Teardown ==
  /\ phase = "ending"
  /\ alive = {}
  /\ phase' = "down"
  /\ UNCHANGED alive

Next ==
  \/ Boot \/ Reset \/ Teardown
  \/ \E w \in Workers : Spawn(w) \/ Exit(w)

Spec == Init /\ [][Next]_<<phase, alive>>
=============================================================================
