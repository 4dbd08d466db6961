CONSTANTS
  None = None
  Name = Name
  Other = Other
  Addr = Addr
  UdpGw = UdpGw
  Kinds = {"socks5", "user5", "addr5", "udpgw5", "eager5", "early5", "bind5", "gss5", "socks4", "bind4", "web5", "http", "connect", "tls", "tproxy", "forward"}
  Passwords = {0, 1, 256, 257}
  Compressors = {"none", "snappy"}
  MaxPass = 2
SPECIFICATION ProxySpec
PROPERTIES UpstreamIsPipe  RemoteEndReaches  OwnClientAnswered
CHECK_DEADLOCK FALSE
