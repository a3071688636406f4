SPECIFICATION FairSpec
CONSTANTS
  Scripts = {s1, s2}
  None = none
  RingSize = 2
  MaxPosts = 1
INVARIANTS
  TypeOK
  NobodyWaitsInVain
PROPERTIES
  PayloadKept
  RequestsEnd
