------------------------------ MODULE Blinking ------------------------------
(***************************************************************************)
(* How often the dithering of one channel makes it blink: the module       *)
(* Dither with the history that its comment speaks of.                     *)
(***************************************************************************)
EXTENDS Dither

Longest == CHOOSE limit \in Limits : \A l \in Limits : l <= limit
Never == -1

VARIABLE since   \* ghost: frames since the last effect, up to one more than
                 \* the limit, all with the same input, or Never

BlinkInit == Init /\ since = Never

Counted(v) ==
  since' = IF v # value THEN Never
           ELSE IF Effect(v) THEN 0
           ELSE IF since \in 0 .. Longest THEN since + 1
           ELSE since

BlinkNext ==
  \E v \in Values, dithering_enabled \in Enabled, limit \in Limits :
    Frame(v, dithering_enabled, limit) /\ Counted(v)

BlinkSpec == BlinkInit /\ [][BlinkNext]_<<vars, since>>

-----------------------------------------------------------------------------
(* "Only allow dithering to take effect if it blinks faster than 60fps"    *)
(* (1288), which is as many frames as maxDitherFrames says: as long as the *)
(* input does not change, between an effect and the next there are no more *)
(* frames than that.                                                       *)
BlinksFast == [][since # Never /\ since' = 0 => since <= Longest]_<<vars, since>>
=============================================================================
