SPECIFICATION Spec
CONSTANTS
  p1 = p1
  p2 = p2
  Peer = {p1, p2}
  Dialers = {1}
  Addrs <- MCAddrs
  Ip <- MCIp
  Expose = {p2}
  ReusePort = {p1, p2}
  MaxSession <- MCMaxSession
  MaxRetry = 1
  MaxTrouble = 1
INVARIANTS FirstRolesDiffer
PROPERTIES HangsOnlyInRead 
CHECK_DEADLOCK FALSE
