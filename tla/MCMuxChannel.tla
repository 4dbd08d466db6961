---------------------------- MODULE MCMuxChannel ----------------------------
(* Two proxy connections share a channel; the configurations choose the    *)
(* number of holders and whether heartbeats run.                           *)
EXTENDS MuxChannel, TLC

CONSTANTS c1, c2

=============================================================================
