CONSTANTS
  a = a
  b = b
  MaxChunk = 2
  QueueCap = 1
  PushReq = {a, b}
SPECIFICATION Spec
INVARIANTS NoGap AckedIsDelivered NeverJoinsZombie
SYMMETRY Sym
CHECK_DEADLOCK FALSE
