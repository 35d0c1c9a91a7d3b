------------------------------- MODULE Pixel -------------------------------
(***************************************************************************)
(* One channel of a pixel from the frames to the level that is shown: the  *)
(* blend of two frames, the lookup table with its interpolation, and the   *)
(* dithering of the module Dither.                                         *)
(***************************************************************************)
EXTENDS Dither

CONSTANTS
  Progress,    \* the values frame_progress16 takes
  LumPowers,   \* the values lum_power takes, whole numbers
  White,       \* the white point of the channel, in parts of WhiteUnit
  WhiteUnit

ASSUME PixelAssumption ==
  /\ Progress \subseteq 0 .. Levels * Levels - 1
  /\ LumPowers \subseteq Nat /\ WhiteUnit \in Nat \ {0} /\ White \in 0 .. WhiteUnit
  /\ Values = 0 .. Levels * Levels - 1

VARIABLES
  previous,    \* pixel_in_prev, the channel
  current,     \* pixel_in_current
  lum_power, lut_enabled, interpolation_enabled      \* of g_server_config

configVars == <<lum_power, lut_enabled, interpolation_enabled>>
pixelVars == <<vars, previous, current, configVars>>

Top == Levels * Levels - 1            \* 0xFFFF

(* The weights add up to Top and not to Top + 1.                           *)
Blend(prev, cur, frame_progress16) ==
  (prev * (Top - frame_progress16) + cur * frame_progress16) \div Levels

Clamped(n) == IF n > Top THEN Top ELSE n

Pow(base, n) == LET To[k \in 0 .. n] == IF k = 0 THEN 1 ELSE base * To[k - 1] IN To[n]

(* i / 256 of the white point to the power, rounded; as built for a power. *)
BuildLookupTable(power) == [i \in 0 .. Levels |->
  LET one == Pow(Levels * WhiteUnit, power)
  IN  Clamped((2 * Top * Pow(i * White, power) + one) \div (2 * one))]

LookupTables == [power \in LumPowers |-> BuildLookupTable(power)]
LookupTable == LookupTables[lum_power]

(* A mutant of LutInterpolate: the weights are exchanged.                  *)
LutInterpolateSwapped(v) ==
  LET index == v \div Levels
      alpha == v % Levels
  IN  (LookupTable[index] * alpha + LookupTable[index + 1] * (Levels - alpha)) \div Levels

LutInterpolate(v) ==
  LET index == v \div Levels
      alpha == v % Levels
  IN  (LookupTable[index] * (Levels - alpha) + LookupTable[index + 1] * alpha) \div Levels

Interpolated(prev, cur, progress) ==
  IF interpolation_enabled THEN Blend(prev, cur, progress) ELSE cur * Levels

Looked(v) == IF lut_enabled THEN LutInterpolate(v) ELSE v

PixelInit ==
  /\ lum_power \in LumPowers /\ lut_enabled \in BOOLEAN /\ interpolation_enabled \in BOOLEAN
  /\ previous = 0 /\ current = 0
  /\ Init /\ value = Looked(0)

(* Two frames of any content, blended at any progress.                     *)
PixelFrame ==
  /\ \E prev, cur \in 0 .. Levels - 1, progress \in Progress,
        dithering_enabled \in Enabled, limit \in Limits :
       /\ previous' = prev /\ current' = cur
       /\ Frame(Looked(Interpolated(prev, cur, progress)), dithering_enabled, limit)
  /\ UNCHANGED configVars

-----------------------------------------------------------------------------
(* What a channel that is the same in both frames comes to.                *)
Steady(level) == Looked(Blend(level, level, 0))
Dimmer == IF previous < current THEN previous ELSE current
Brighter == IF previous < current THEN current ELSE previous

(* Through the blend, whose weights do not add up, and the lookup table,   *)
(* between whose entries it interpolates, a pixel never gets dimmer than   *)
(* the dimmer of the frames nor brighter than the brighter, but for what   *)
(* the weights leave out.                                                  *)
BetweenFrames == Steady(Dimmer) <= value /\ value <= Looked(Brighter * Levels)

(* Without the lookup table a level that does not change is shown as it    *)
(* is, when nothing is carried over: what the weights leave out is less    *)
(* than the rounding gives back.                                           *)
SteadyIsExact == previous = current /\ ~lut_enabled => RoundedTo8(value) = current
=============================================================================
