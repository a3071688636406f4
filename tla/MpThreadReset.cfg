SPECIFICATION FairSpec
CONSTANTS
  Main = main
  Workers = {w1, w2}
  None = none
  MaxCreates = 2
  Habits = {}
INVARIANTS
  VmNeedsGil
  GcSeesEveryThread
  ExitReachesWorkers
PROPERTIES
  ResetCompletes
