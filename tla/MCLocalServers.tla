---------------------------- MODULE MCLocalServers ---------------------------
(* Two starts, so that the loops of both overlap, and three datagrams of   *)
(* one flow, so that a third session follows two that raced.               *)
EXTENDS LocalServers

CONSTANTS f1
=============================================================================
