------------------------------- MODULE Dither -------------------------------
(***************************************************************************)
(* The temporal dithering of one colour channel of one pixel in            *)
(* render_thread: what is rounded away in a frame is carried over to the   *)
(* next one in an int8_t, unless it has had no effect for too long.  A     *)
(* step is one rendered frame.                                             *)
(***************************************************************************)
EXTENDS Integers

CONSTANTS
  Levels,           \* 256: the output is 8 bits, the input 8 bits more
  FrameMod,         \* 256: ditheringFrame is an int8_t
  Limits,           \* maxDitherFrames: the frames that fit into a 60th second,
                    \* which depends on how long the last ones took
  Values,           \* the inputs: interpolated, and through the lookup table
  Enabled           \* what dithering_enabled may be: it depends on the speed

ASSUME DitherAssumption ==
  /\ Levels \in Nat \ {0} /\ Levels % 2 = 0
  /\ FrameMod \in Nat \ {0} /\ FrameMod % 2 = 0
  /\ Limits \subseteq Nat
  /\ Values \subseteq 0 .. Levels * Levels - 1
  /\ Enabled \subseteq BOOLEAN

VARIABLES
  value,              \* the input of the last frame
  overflow,           \* pixel_in_overflow->r
  last_effect_frame,  \* pixel_in_overflow->last_effect_frame_r
  ditheringFrame,
  out,                \* r
  idle                \* ghost: frames since the last effect or reset, in a
                      \* row in which the limit was a low one

vars == <<value, overflow, last_effect_frame, ditheringFrame, out, idle>>

Abs(n) == IF n < 0 THEN -n ELSE n
Signed(n, m) == ((n + m \div 2) % m) - m \div 2       \* conversion to a signed type
SignedRange(m) == -(m \div 2) .. m \div 2 - 1

TypeOK ==
  /\ value \in Values
  /\ overflow \in SignedRange(Levels)
  /\ last_effect_frame \in SignedRange(FrameMod)
  /\ ditheringFrame \in SignedRange(FrameMod)
  /\ out \in 0 .. Levels - 1
  /\ idle \in Nat

(* The table of overflows is malloc'ed and not cleared.                    *)
Init ==
  /\ value \in Values
  /\ overflow \in SignedRange(Levels)
  /\ last_effect_frame \in SignedRange(FrameMod)
  /\ ditheringFrame = 0
  /\ out = value \div Levels
  /\ idle = 0

RoundedDown(v) == v \div Levels                        \* a mutant of RoundedTo8
RoundedTo8(v) == (v + Levels \div 2) \div Levels
Output(dithered) ==
  IF RoundedTo8(dithered) < Levels THEN RoundedTo8(dithered) ELSE Levels - 1

(* A mutant of StaleAt: the inner difference keeps its sign.               *)
StaleAtSigned(frame, limit) == Abs(last_effect_frame) - Abs(frame) > limit

StaleAt(frame, limit) == Abs(Abs(last_effect_frame) - Abs(frame)) > limit

(* A mutant of Carried: the uint8_t of the cast is kept.                   *)
CarriedUnsigned(dithered, r) == (dithered - r * (Levels + 1)) % Levels

(* (uint8_t) ((int16_t) dithered - r * 257), stored in an int8_t.          *)
Carried(dithered, r) == Signed(dithered - r * (Levels + 1), Levels)

(* A frame is shown at another level than its input alone would be.        *)
Effect(v) == out' # RoundedTo8(v)

(* Below a quarter of the counter.                                         *)
Low(limit) == limit < FrameMod \div 4

Frame(v, dithering_enabled, limit) ==
  LET frame == Signed(ditheringFrame + 1, FrameMod)
      stale == StaleAt(frame, limit)
      left == IF stale THEN 0 ELSE overflow
      dithered == IF dithering_enabled THEN v + left ELSE v
  IN  /\ ditheringFrame' = frame
      /\ value' = v
      /\ out' = Output(dithered)
      /\ last_effect_frame' = IF Effect(v) \/ stale THEN frame ELSE last_effect_frame
      /\ overflow' = IF dithering_enabled THEN Carried(dithered, out') ELSE left
      /\ idle' = IF Effect(v) \/ stale \/ ~Low(limit) THEN 0 ELSE idle + 1

Next ==
  \E v \in Values, dithering_enabled \in Enabled, limit \in Limits :
    Frame(v, dithering_enabled, limit)

Spec == Init /\ [][Next]_vars

-----------------------------------------------------------------------------
(* What is shown is a level the byte has, and one of the two next to the   *)
(* input, whatever was carried over, from whatever input and from an       *)
(* uninitialized table: the carry wraps, but never flashes a level further *)
(* away.                                                                   *)
NeighbouringLevel == out \in 0 .. Levels - 1 /\ Abs(out * Levels - value) < Levels

(* The age of the last effect is taken from absolute values of a counter   *)
(* that wraps.  Still a carry that has no effect is dropped before the     *)
(* counter has gone round once, whatever limits follow each other, on      *)
(* condition that each of them is below a quarter of the counter: 64, that *)
(* is as long as a frame takes more than 260 microseconds.  From there on  *)
(* the age need never exceed the limit, and the carry may stay for ever.   *)
DroppedInOneRound == idle < FrameMod
=============================================================================
