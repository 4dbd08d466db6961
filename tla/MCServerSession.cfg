CONSTANTS
  s1 = s1
  s2 = s2
  s3 = s3
  Stream = {s1, s2, s3}
SPECIFICATION FairSpec
INVARIANTS
  
  RestingIsListed
  ClosedIsDown
PROPERTIES
  
  ReaperForgets
\* A served session may end for good.
CHECK_DEADLOCK FALSE
