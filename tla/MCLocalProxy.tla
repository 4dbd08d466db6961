----------------------------- MODULE MCLocalProxy ----------------------------
(* Instances of LocalProxy: every kind of client, two streams at most.     *)
EXTENDS LocalProxy
=============================================================================
