--------------------------- MODULE MCMachineTimer ---------------------------
(* Instances of MachineTimer: the arguments a script passes to init().      *)
EXTENDS MachineTimer, TLC

AnySetting == [mode : Modes, hard : BOOLEAN]
Periodic == [mode : {"PERIOD"}, hard : BOOLEAN]
SoftPeriodic == {[mode |-> "PERIOD", hard |-> FALSE]}
SwapHandlers == Permutations(Handlers)
=============================================================================
