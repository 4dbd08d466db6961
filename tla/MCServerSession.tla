-------------------------- MODULE MCServerSession --------------------------
(* Three streams on one session. *)
EXTENDS ServerSession, TLC

CONSTANTS s1, s2, s3

=============================================================================
