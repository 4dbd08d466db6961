--------------------------- MODULE MCP2PHandshake ---------------------------
EXTENDS P2PHandshake
CONSTANTS p1, p2
MCAddrs(p, n) == IF p = p1 THEN IF n = 1 THEN 1 ELSE 4 ELSE IF n = 1 THEN 2 ELSE 3
MCMaxSession == [p \in Peer |-> IF p = p1 THEN 2 ELSE 1]
MCIp(x) == 1
=============================================================================
