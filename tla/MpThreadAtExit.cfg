SPECIFICATION Spec
CONSTANTS
  Main = main
  Workers = {w1}
  None = none
  MaxCreates = 1
  Habits = {"atexit"}
INVARIANTS
  VmNeedsGil
