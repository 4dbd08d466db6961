----------------------------- MODULE MCHttpPush -----------------------------
(* An instance of HttpPush with two interchangeable push requests: one the *)
(* client waits for and one it has given up.                               *)
EXTENDS HttpPush, TLC

CONSTANTS a, b

Sym == Permutations(PushReq)
=============================================================================
