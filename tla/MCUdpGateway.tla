---------------------------- MODULE MCUdpGateway ----------------------------
(* Instances of UdpGateway: packets of one connection id, from one or two  *)
(* gateway connections, some of them direct queries.                       *)
EXTENDS UdpGateway

CONSTANTS p1, p2, p3, c1, g1, g2

Con1  == [p \in Packet |-> c1]
Conn2 == [p \in Packet |-> IF p = p3 THEN g2 ELSE g1]
=============================================================================
