----------------------------- MODULE MCP2PRoom -----------------------------
(***************************************************************************)
(* Three clients of one room: a with a data and an exchange session, b     *)
(* with a data session and c with an exchange session.                     *)
(***************************************************************************)
EXTENDS P2PRoom, TLC

CONSTANTS room, a, b, c, dA, xA, dB, xC

Req(id, x) == [P2PToken |-> room, P2PConnID |-> id, P2PPriAddr |-> x]

MCAuth == dA :> Req(a, FALSE) @@ xA :> Req(a, TRUE)
       @@ dB :> Req(b, FALSE) @@ xC :> Req(c, TRUE)

=============================================================================
