\* deinit() of a player that was opened and never stopped can block for ever (see README), hence no
\* deadlock check.
SPECIFICATION FairSpec
CHECK_DEADLOCK FALSE
CONSTANTS
  r1 = r1
  r2 = r2
  Readers = {r1, r2}
  CacheCount = 2
INVARIANTS
  TypeOK
  QueueFollowsOn
  NoLostWakeup
  BuffersOutliveUsers
  SessionsOwned
PROPERTIES
  StopEnds
