SPECIFICATION FairSpec
CHECK_DEADLOCK FALSE
CONSTANTS
  Handlers = {h1}
  MaxGeneration = 4
  Settings <- AnySetting
  QueueMayFill = TRUE
PROPERTIES
  PeriodicFires
