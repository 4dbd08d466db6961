CONSTANTS
  room = room
  a = a
  b = b
  c = c
  dA = dA
  xA = xA
  dB = dB
  xC = xC
  Token = {room}
  ConnID = {a, b, c}
  Session = {dA, xA, dB, xC}
  Auth <- MCAuth
  None = None
SPECIFICATION Spec
INVARIANTS
  RoomsAtMostTwo
  RoomsHaveMembers
  SlotHasOwner
  TableIsFresh
  ServedIsReachable
  
\* Every session may be over: the server then waits for new connections.
CHECK_DEADLOCK FALSE
