CONSTANTS
  p1 = p1
  p2 = p2
  p3 = p3
  c1 = c1
  g1 = g1
  g2 = g2
  None = None
  Packet = {p1, p2, p3}
  ConID = {c1}
  Con <- Con1
  Conn <- Conn2
  Direct = {p1, p3}
  ExpireBatch = 2
SPECIFICATION Spec
INVARIANTS TableTracked
PROPERTIES Forgotten
CHECK_DEADLOCK FALSE
