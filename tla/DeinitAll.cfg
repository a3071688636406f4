SPECIFICATION MCSpec
CONSTANTS
  a = a
  b = b
  c = c
  t1 = t1
  t2 = t2
  u1 = u1
  None = None
  Script = script
  Objs = {a}
  Timers = {t1}
  Uarts = {u1}
  Handlers = {h1, h2}
  TimerOf <- SameTimer
  UartOf <- SameUart
  ConfigOf <- SameConfig
  RepeatLast <- Once
  MaxGeneration = 1
  Scripts = {s1}
  Peers = {w1}
  MaxPeers = 1
INVARIANTS
  HandlerHoldsLiveObject
PROPERTIES
  NoneWaitsForever
