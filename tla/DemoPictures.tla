---------------------------- MODULE DemoPictures ----------------------------
(***************************************************************************)
(* What demo_thread draws: the colour wheel of HSBtoRGB, the fade that     *)
(* goes round it and the picture that tells the strips apart.              *)
(***************************************************************************)
EXTENDS Integers

CONSTANTS
  Sector,            \* 60 degrees, a sixth of the wheel
  BaseBrightness,    \* 196
  BrightnessChange,  \* 128
  IndexMod,          \* 2^16: frame_index is a uint16_t
  PictureLeds,       \* leds_per_strip
  PictureStrips      \* SPISCAPE_MAX_STRIPS

ASSUME PictureAssumption ==
  /\ Sector \in Nat \ {0} /\ IndexMod \in Nat /\ IndexMod > 3
  /\ BrightnessChange \in Nat \ {0} /\ BaseBrightness \in BrightnessChange .. 255
  /\ PictureLeds \in Nat \ {0} /\ PictureStrips \in 1 .. 170

VARIABLE frame_index

Byte(n) == n % 256
Wheel == 6 * Sector

(* A channel n of the way up a sector.                                     *)
Ramp(n, base, val) == Byte(((val - base) * n) \div Sector + base)

HSBtoRGBRising(hue, sat, val) ==       \* a mutant: in sector 1 red comes up again
  LET base == ((255 - sat) * val) \div 256
      up == Ramp(hue % Sector, base, val)
      down == Ramp(Sector - (hue % Sector), base, val)
      colours == <<<<val, up, base>>, <<up, val, base>>, <<base, val, up>>,
                   <<base, down, val>>, <<up, base, val>>, <<val, base, down>>>>
  IN  colours[(hue % Wheel) \div Sector + 1]

(* For a saturation that is not zero; without one nothing is written.  The *)
(* first sector takes the hue itself for hue % 60.                         *)
HSBtoRGB(hue, sat, val) ==
  LET base == ((255 - sat) * val) \div 256
      up == Ramp(hue % Sector, base, val)
      down == Ramp(Sector - (hue % Sector), base, val)
      sector == (hue % Wheel) \div Sector
  IN  CASE sector = 0 -> <<val, Ramp(hue, base, val), base>>
        [] sector = 1 -> <<down, val, base>>
        [] sector = 2 -> <<base, val, up>>
        [] sector = 3 -> <<base, down, val>>
        [] sector = 4 -> <<up, base, val>>
        [] sector = 5 -> <<val, base, down>>

Hue(p, strip) ==
  (frame_index + ((p + strip * PictureLeds) * Wheel) \div (PictureLeds * 10)) % Wheel

Brightness(p, strip) ==
  BaseBrightness -
    ((frame_index \div 10 + (p * BrightnessChange) \div PictureLeds + strip * 10) % BrightnessChange)

Fade(p, strip) == HSBtoRGB(Hue(p, strip), 255, Brightness(p, strip))

Identify(p, strip) == IF strip = p THEN 170 ELSE strip

Pixels == (0 .. PictureLeds - 1) \X (0 .. PictureStrips - 1)
Picture(demo_mode) == [pixel \in Pixels |->
  CASE demo_mode = "fade" -> Fade(pixel[1], pixel[2])
    [] demo_mode = "id" -> LET level == Identify(pixel[1], pixel[2]) IN <<level, level, level>>
    [] OTHER -> <<0, 0, 0>>]

NextIndex == frame_index' = (frame_index + 3) % IndexMod

Distance(m, n) == IF m < n THEN n - m ELSE m - n

(* How far a number of degrees is from a whole number of turns.            *)
FromZero(degrees) ==
  IF 2 * (degrees % Wheel) <= Wheel THEN degrees % Wheel ELSE Wheel - (degrees % Wheel)
=============================================================================
