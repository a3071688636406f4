SPECIFICATION Spec
SYMMETRY SwapHandlers
CHECK_DEADLOCK FALSE
CONSTANTS
  Handlers = {h1, h2}
  MaxGeneration = 4
  Settings <- Periodic
  QueueMayFill = TRUE
INVARIANTS
  TypeOK
  ScheduleConsistent
  CallbackIsCurrent
