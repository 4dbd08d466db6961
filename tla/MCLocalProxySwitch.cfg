CONSTANTS
  None = None
  Name = Name
  Other = Other
  Addr = Addr
  UdpGw = UdpGw
  Kinds = {"http"}
  Passwords = {1}
  Compressors = {"none"}
  MaxPass = 2
SPECIFICATION ProxySpec
INVARIANT RequestReachesItsHost
CHECK_DEADLOCK FALSE
