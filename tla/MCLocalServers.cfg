CONSTANTS
  Nil = Nil
  f1 = f1
  MaxStart = 2
  MaxPacket = 3
  Flow = {f1}
SPECIFICATION ServersSpec
INVARIANTS ReaderLeavesNothing
PROPERTIES AcceptLoopEnds FlowRecovers
CHECK_DEADLOCK FALSE
