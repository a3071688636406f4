SPECIFICATION Spec
SYMMETRY SwapHandlers
CONSTANTS
  a = a
  b = b
  c = c
  t1 = t1
  t2 = t2
  u1 = u1
  None = None
  Script = script
  Objs = {a, b, c}
  Timers = {t1, t2}
  Uarts = {u1}
  Handlers = {h1, h2}
  TimerOf <- BesideB
  UartOf <- SameUart
  ConfigOf <- ConfigCDiffers
  RepeatLast <- Mixed
  MaxGeneration = 0
INVARIANTS
  ResourcesOwned
