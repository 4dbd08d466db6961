------------------------- MODULE MCProtectedSocket -------------------------
(* ProtectedSocket for TLC: every pair of functions, three descriptors.    *)
EXTENDS ProtectedSocket

MCCalls == 1..2
=============================================================================
