-------------------------------- MODULE Pipe --------------------------------
(***************************************************************************)
(* What one direction of a connection promises, whatever carries it: items *)
(* 1, 2, ... go in, and come out in order and without a gap.  Once the     *)
(* pipe has been broken off, items may be missing, but the ones that still *)
(* come out keep their order and none comes twice.                         *)
(***************************************************************************)
EXTENDS Naturals, Sequences

VARIABLES
  sent,   \* how many items were put in
  got,    \* the items taken out
  lossy   \* the pipe has been broken off

vars == <<sent, got, lossy>>

Init == sent = 0 /\ got = <<>> /\ lossy = FALSE

Put == sent' = sent + 1 /\ UNCHANGED <<got, lossy>>

Latest == IF got = <<>> THEN 0 ELSE got[Len(got)]

Take ==
  /\ \E m \in Latest + 1 .. IF lossy THEN sent ELSE Latest + 1 :
       m <= sent /\ got' = Append(got, m)
  /\ UNCHANGED <<sent, lossy>>

BreakOff == lossy' = TRUE /\ UNCHANGED <<sent, got>>

Next == Put \/ Take \/ BreakOff

Spec == Init /\ [][Next]_vars
=============================================================================
