---------------------------- MODULE DisplayOrder ----------------------------
(***************************************************************************)
(* What the frame buffers and the render loop promise together, with no    *)
(* buffers, flags or times: frames arrive one at a time, and what is       *)
(* written to the LEDs always blends two consecutive frames, of which the  *)
(* later is the newest or the newest but one, and never an earlier frame   *)
(* than before.  The number 0 stands for a frame that never arrived.       *)
(***************************************************************************)
EXTENDS Integers

VARIABLES
  arrived,   \* how many frames have arrived
  from,      \* the LEDs show a blend from this frame
  to         \* to this one

vars == <<arrived, from, to>>

Init == arrived = 0 /\ from = 0 /\ to = 0

Arrive ==
  /\ arrived' = arrived + 1
  /\ UNCHANGED <<from, to>>

Show ==
  /\ to' \in {arrived - 1, arrived}
  /\ to' >= to /\ to' > 0
  /\ from' \in {to' - 1, 0}
  /\ UNCHANGED arrived

Next == Arrive \/ Show

Spec == Init /\ [][Next]_vars
=============================================================================
