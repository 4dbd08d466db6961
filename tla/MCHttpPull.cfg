CONSTANTS
  h1 = h1
  h2 = h2
  None = None
  Handler = {h1, h2}
  MaxMsg = 3
  MaxBreak = 1
SPECIFICATION Spec
INVARIANTS WriterIsServed
PROPERTIES DownIsPipe Learned Delivered
CHECK_DEADLOCK FALSE
