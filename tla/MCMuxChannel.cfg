CONSTANTS
  c1 = c1
  c2 = c2
  N = 2
  Caller = {c1, c2}
  MaxSession = 3
  HeartBeat = FALSE
  None = None
  Origins = {"configured", "adhoc"}
SPECIFICATION FairSpec
INVARIANTS
  FailsAfterAll

  

CHECK_DEADLOCK FALSE
