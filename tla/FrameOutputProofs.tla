------------------------- MODULE FrameOutputProofs --------------------------
(***************************************************************************)
(* The proofs about render_thread from a pair of frames to the wire.       *)
(* First the dithering by itself, for every depth of the output and every  *)
(* width of the frame counter; then the blend and the lookup table before  *)
(* it, and that the whole pipeline dithers as the module Dither says; and  *)
(* last that a frame gets to the wire as the protocol of the LEDs wants    *)
(* it, for strips of any length and packets of any size, whatever the      *)
(* bytes of the pixels are and whichever writes fail.                      *)
(***************************************************************************)
EXTENDS FrameOutput, SequenceTheorems, WellFoundedInduction, TLAPS


(* Division rounds down.                                                   *)
LEMMA DivBounds ==
  ASSUME NEW a \in Int, NEW m \in Nat \ {0}
  PROVE  /\ a \div m \in Int
         /\ m * (a \div m) <= a
         /\ a < m * (a \div m) + m
  BY Z3

(* A quotient lies where its products do.                                  *)
LEMMA DivLess ==
  ASSUME NEW a \in Int, NEW m \in Nat \ {0}, NEW b \in Int, a < m * b
  PROVE  a \div m < b
  BY DivBounds, Z3

(* Conversion to a signed type of even width gives a value of that type.   *)
LEMMA SignedInRange ==
  ASSUME NEW n \in Int, NEW m \in Nat \ {0}, m % 2 = 0
  PROVE  Signed(n, m) \in SignedRange(m)
<1>1. (n + m \div 2) \in Int
  OBVIOUS
<1>2. (n + m \div 2) % m \in 0 .. m - 1
  BY <1>1
<1>3. m = 2 * (m \div 2)
  OBVIOUS
<1> QED
  BY <1>2, <1>3 DEF Signed, SignedRange

LEMMA DivNonnegative ==
  ASSUME NEW a \in Nat, NEW m \in Nat \ {0}
  PROVE  a \div m \in Nat
BY Z3

(* What the output is, for any carry that fits its type.                   *)
LEMMA OutputIsNear ==
  ASSUME NEW v \in Values, NEW left \in SignedRange(Levels)
  PROVE  /\ Output(v + left) \in 0 .. Levels - 1
         /\ Abs(Output(v + left) * Levels - v) < Levels
<1> DEFINE h == Levels \div 2
           q == RoundedTo8(v + left)
<1>1. Levels \in Nat \ {0} /\ Levels % 2 = 0 /\ v \in Nat
  BY DitherAssumption
<1>2. h \in Nat /\ Levels = 2 * h
  BY <1>1
<1>3. left \in Int /\ -h <= left /\ left <= h - 1
  BY <1>2 DEF SignedRange
<1>4. (v + left) + h \in Nat
  BY <1>1, <1>2, <1>3
<1>5. q \in Nat /\ Levels * q <= (v + left) + h /\ (v + left) + h < Levels * q + Levels
  <2> DEFINE a == (v + left) + h
  <2>1. q = a \div Levels
    BY DEF RoundedTo8
  <2>2. a \in Nat
    BY <1>4
  <2> HIDE DEF a, q
  <2>3. a \div Levels \in Nat
    BY <1>1, <2>2, DivNonnegative
  <2>4. Levels * (a \div Levels) <= a /\ a < Levels * (a \div Levels) + Levels
    <3>1. a \in Int
      BY <2>2
    <3> QED
      BY <1>1, <3>1, DivBounds
  <2>5. q \in Nat /\ Levels * q <= a /\ a < Levels * q + Levels
    BY <2>1, <2>3, <2>4
  <2> QED
    BY <2>5 DEF a
<1>6. CASE q < Levels
  <2>1. Output(v + left) = q
    BY <1>6 DEF Output
  <2>2. q * Levels = Levels * q /\ Levels * q \in Int
    BY <1>1, <1>5
  <2>3. Levels * q - v < Levels /\ v - Levels * q < Levels
    BY <1>1, <1>2, <1>3, <1>5, <2>2
  <2> QED
    BY <1>1, <1>5, <1>6, <2>1, <2>2, <2>3 DEF Abs
<1>7. CASE ~(q < Levels)
  <2>1. Output(v + left) = Levels - 1
    BY <1>7 DEF Output
  <2>2. Levels * Levels \in Nat /\ (Levels - 1) * Levels = Levels * Levels - Levels
    BY <1>1
  <2>3. v < Levels * Levels
    BY <2>2, DitherAssumption
  <2>4. ~((v + left) + h < Levels * Levels)
    <3> DEFINE a == (v + left) + h
    <3>1. q = a \div Levels
      BY DEF RoundedTo8
    <3>2. a \in Int
      BY <1>4
    <3> HIDE DEF a, q
    <3>3. a < Levels * Levels => a \div Levels < Levels
      BY <1>1, <3>2, DivLess
    <3>4. ~(a < Levels * Levels)
      BY <1>7, <3>1, <3>3
    <3> QED
      BY <3>4 DEF a
  <2>5. v - (Levels - 1) * Levels \in 1 .. Levels - 1
    BY <1>1, <1>2, <1>3, <2>2, <2>3, <2>4
  <2> QED
    BY <1>1, <2>1, <2>2, <2>5 DEF Abs
<1> QED
  BY <1>6, <1>7

(* A frame outputs its input and a carry that fits its type, if only 0.    *)
LEMMA FrameCarries ==
  ASSUME TypeOK, NEW v \in Values, NEW dithering_enabled \in Enabled,
         NEW limit \in Limits, Frame(v, dithering_enabled, limit)
  PROVE  \E carry \in SignedRange(Levels) :
           /\ out' = Output(v + carry)
           /\ value' = v
           /\ overflow' \in {Carried(v + carry, out'), 0, overflow}
<1> DEFINE frame == Signed(ditheringFrame + 1, FrameMod)
           left == IF StaleAt(frame, limit) THEN 0 ELSE overflow
           carry == IF dithering_enabled THEN left ELSE 0
<1>1. Levels \in Nat \ {0} /\ Levels % 2 = 0 /\ v \in Nat
  BY DitherAssumption
<1>2. left \in SignedRange(Levels) /\ carry \in SignedRange(Levels)
  BY <1>1 DEF TypeOK, SignedRange
<1>3. (IF dithering_enabled THEN v + left ELSE v) = v + carry
  BY <1>1, <1>2 DEF SignedRange
<1>4. out' = Output(v + carry) /\ value' = v
  BY <1>3 DEF Frame
<1>5. overflow' = IF dithering_enabled THEN Carried(v + carry, out') ELSE left
  BY <1>3 DEF Frame
<1> QED
  BY <1>2, <1>4, <1>5

-----------------------------------------------------------------------------
(* The carry, the counter and the output never leave their types, although *)
(* the carry is cut down from a wider difference and the counter wraps.    *)
THEOREM TypeCorrect == Spec => []TypeOK
<1>1. Init => TypeOK
  <2> SUFFICES ASSUME Init PROVE TypeOK
    OBVIOUS
  <2>1. 0 \in SignedRange(FrameMod)
    BY DitherAssumption DEF SignedRange
  <2>2. value + 0 = value /\ Levels \in Nat \ {0} /\ value \in 0 .. Levels * Levels - 1
    BY DitherAssumption DEF Init
  <2>3. out \in Nat
    BY <2>2, DivNonnegative DEF Init
  <2>4. out < Levels
    BY <2>2, DivLess DEF Init
  <2>5. 0 \in Nat
    OBVIOUS
  <2> QED
    BY <2>1, <2>2, <2>3, <2>4, <2>5 DEF Init, TypeOK
<1>2. TypeOK /\ [Next]_vars => TypeOK'
  <2> SUFFICES ASSUME TypeOK, [Next]_vars PROVE TypeOK'
    OBVIOUS
  <2>1. CASE UNCHANGED vars
    BY <2>1 DEF TypeOK, vars
  <2>2. ASSUME NEW v \in Values, NEW dithering_enabled \in Enabled,
               NEW limit \in Limits, Frame(v, dithering_enabled, limit)
        PROVE  TypeOK'
    <3> DEFINE frame == Signed(ditheringFrame + 1, FrameMod)
    <3>1. /\ Levels \in Nat \ {0} /\ Levels % 2 = 0
          /\ FrameMod \in Nat \ {0} /\ FrameMod % 2 = 0
          /\ v \in Nat
      BY DitherAssumption
    <3>2. frame \in SignedRange(FrameMod)
      <4>1. ditheringFrame + 1 \in Int
        BY DEF TypeOK, SignedRange
      <4> QED
        BY <3>1, <4>1, SignedInRange
    <3>3. PICK carry \in SignedRange(Levels) :
            /\ out' = Output(v + carry)
            /\ value' = v
            /\ overflow' \in {Carried(v + carry, out'), 0, overflow}
      BY <2>2, FrameCarries
    <3>4. out' \in 0 .. Levels - 1
      BY <3>3, OutputIsNear
    <3>5. overflow' \in SignedRange(Levels)
      <4>1. (v + carry) - out' * (Levels + 1) \in Int
        BY <3>1, <3>4 DEF SignedRange
      <4>2. Signed((v + carry) - out' * (Levels + 1), Levels) \in SignedRange(Levels)
        BY <3>1, <4>1, SignedInRange
      <4>3. Carried(v + carry, out') \in SignedRange(Levels)
        BY <4>2 DEF Carried
      <4>4. 0 \in SignedRange(Levels) /\ overflow \in SignedRange(Levels)
        BY <3>1 DEF TypeOK, SignedRange
      <4> QED
        BY <3>3, <4>3, <4>4
    <3>6. ditheringFrame' = frame
      BY <2>2 DEF Frame
    <3>7. last_effect_frame' \in {frame, last_effect_frame}
      BY <2>2 DEF Frame
    <3>8. idle' \in {0, idle + 1}
      BY <2>2 DEF Frame
    <3> QED
      BY <3>2, <3>3, <3>4, <3>5, <3>6, <3>7, <3>8 DEF TypeOK
  <2> QED
    BY <2>1, <2>2 DEF Next
<1> QED
  BY <1>1, <1>2, PTL DEF Spec

(* Whatever was carried over, the output is one of the two levels next to  *)
(* the input of the same frame.                                            *)
THEOREM StaysNear == Spec => []NeighbouringLevel
<1>1. Init => NeighbouringLevel
  <2> SUFFICES ASSUME Init PROVE NeighbouringLevel
    OBVIOUS
  <2>1. Levels \in Nat \ {0} /\ value \in Int /\ out = value \div Levels
    BY DitherAssumption DEF Init
  <2>2. out \in Int /\ Levels * out <= value /\ value < Levels * out + Levels
    BY <2>1, DivBounds
  <2>3. out * Levels = Levels * out /\ Levels * out \in Int
    BY <2>1, <2>2
  <2>4. out \in 0 .. Levels - 1
    <3>1. value \in 0 .. Levels * Levels - 1
      BY DitherAssumption DEF Init
    <3>2. out \in Nat /\ out < Levels
      BY <2>1, <3>1, DivNonnegative, DivLess
    <3> QED
      BY <2>1, <3>2
  <2> QED
    BY <2>1, <2>2, <2>3, <2>4 DEF NeighbouringLevel, Abs
<1>2. TypeOK /\ NeighbouringLevel /\ [Next]_vars => NeighbouringLevel'
  <2> SUFFICES ASSUME TypeOK, NeighbouringLevel, [Next]_vars PROVE NeighbouringLevel'
    OBVIOUS
  <2>1. CASE UNCHANGED vars
    BY <2>1 DEF NeighbouringLevel, vars
  <2>2. ASSUME NEW v \in Values, NEW dithering_enabled \in Enabled,
               NEW limit \in Limits, Frame(v, dithering_enabled, limit)
        PROVE  NeighbouringLevel'
    <3>1. PICK carry \in SignedRange(Levels) : out' = Output(v + carry) /\ value' = v
      BY <2>2, FrameCarries
    <3>2. /\ Output(v + carry) \in 0 .. Levels - 1
          /\ Abs(Output(v + carry) * Levels - v) < Levels
      BY OutputIsNear
    <3> QED
      BY <3>1, <3>2 DEF NeighbouringLevel
  <2> QED
    BY <2>1, <2>2 DEF Next
<1> QED
  BY <1>1, <1>2, TypeCorrect, PTL DEF Spec

-----------------------------------------------------------------------------
(* The frames since the last effect are all near it, by absolute values:   *)
(* each was within the limit of its time, and all of these were low.       *)
Near(g) == Low(Abs(Abs(last_effect_frame) - Abs(g)))
Counted(g, j, now) == \E m \in Int : g = now - j + m * FrameMod
IdleInv ==
  \A j \in 0 .. idle - 1 : \A g \in SignedRange(FrameMod) :
    Counted(g, j, ditheringFrame) => Near(g)

(* The counter goes on by one or wraps.                                    *)
LEMMA NextFrame ==
  ASSUME NEW n \in SignedRange(FrameMod)
  PROVE  \/ Signed(n + 1, FrameMod) = n + 1
         \/ Signed(n + 1, FrameMod) = n + 1 - FrameMod
<1> DEFINE h == FrameMod \div 2
<1>1. FrameMod \in Nat \ {0} /\ FrameMod % 2 = 0
  BY DitherAssumption
<1>2. h \in Nat /\ FrameMod = 2 * h /\ h > 0
  BY <1>1
<1>3. n \in Int /\ -h <= n /\ n <= h - 1
  BY <1>2 DEF SignedRange
<1>4. Signed(n + 1, FrameMod) = ((n + 1 + h) % FrameMod) - h
  BY DEF Signed
<1> HIDE DEF h
<1>5. CASE n + 1 + h < FrameMod
  <2>1. (n + 1 + h) % FrameMod = n + 1 + h
    BY <1>1, <1>2, <1>3, <1>5
  <2> QED
    BY <1>2, <1>3, <1>4, <2>1
<1>6. CASE ~(n + 1 + h < FrameMod)
  <2>1. n + 1 + h = FrameMod /\ FrameMod % FrameMod = 0
    BY <1>1, <1>2, <1>3, <1>6
  <2> QED
    BY <1>2, <1>3, <1>4, <2>1
<1> QED
  BY <1>5, <1>6

(* Of the signed values that are congruent to one of them it is the only.  *)
LEMMA OneInRange ==
  ASSUME NEW g \in SignedRange(FrameMod), NEW n \in SignedRange(FrameMod),
         Counted(g, 0, n)
  PROVE  g = n
<1>1. FrameMod \in Nat \ {0} /\ FrameMod % 2 = 0
  BY DitherAssumption
<1>2. PICK m \in Int : g = n - 0 + m * FrameMod
  BY DEF Counted
<1>3. g \in Int /\ n \in Int /\ g - n < FrameMod /\ n - g < FrameMod
  BY <1>1 DEF SignedRange
<1>4. m * FrameMod \in Int /\ g - n = m * FrameMod
  BY <1>1, <1>2, <1>3
<1>5. ~(m >= 1)
  <2>1. m >= 1 => m * FrameMod >= FrameMod
    BY <1>1, Z3
  <2> QED
    BY <1>1, <1>3, <1>4, <2>1
<1>6. ~(m <= -1)
  <2>1. m <= -1 => m * FrameMod <= -FrameMod
    BY <1>1, Z3
  <2> QED
    BY <1>1, <1>3, <1>4, <2>1
<1>7. m = 0
  BY <1>5, <1>6
<1> QED
  BY <1>1, <1>2, <1>3, <1>7

(* A frame was a turn earlier at the turn before.                          *)
LEMMA CountedBefore ==
  ASSUME NEW g \in Int, NEW j \in Nat, NEW n \in SignedRange(FrameMod),
         Counted(g, j + 1, Signed(n + 1, FrameMod))
  PROVE  Counted(g, j, n)
<1>1. FrameMod \in Nat \ {0} /\ n \in Int
  BY DitherAssumption DEF SignedRange
<1>2. PICK m \in Int : g = Signed(n + 1, FrameMod) - (j + 1) + m * FrameMod
  BY DEF Counted
<1>3. m * FrameMod \in Int /\ (m - 1) * FrameMod = m * FrameMod - FrameMod /\ m - 1 \in Int
  BY <1>1, Z3
<1>4. CASE Signed(n + 1, FrameMod) = n + 1
  <2>1. g = n - j + m * FrameMod
    BY <1>1, <1>2, <1>3, <1>4
  <2> QED
    BY <2>1 DEF Counted
<1>5. CASE Signed(n + 1, FrameMod) = n + 1 - FrameMod
  <2>1. g = n - j + (m - 1) * FrameMod
    BY <1>1, <1>2, <1>3, <1>5
  <2> QED
    BY <1>3, <2>1 DEF Counted
<1> QED
  BY <1>4, <1>5, NextFrame

(* In a whole round the counter comes by every value.                      *)
LEMMA AllInARound ==
  ASSUME TypeOK, IdleInv, idle >= FrameMod, NEW g \in SignedRange(FrameMod)
  PROVE  Near(g)
<1>1. FrameMod \in Nat \ {0} /\ FrameMod % 2 = 0 /\ idle \in Nat
  BY DitherAssumption DEF TypeOK
<1>2. g \in Int /\ ditheringFrame \in Int
      /\ ditheringFrame - g < FrameMod /\ g - ditheringFrame < FrameMod
  BY <1>1 DEF TypeOK, SignedRange
<1>3. CASE g <= ditheringFrame
  <2> DEFINE j == ditheringFrame - g
  <2>1. j \in 0 .. idle - 1 /\ g = ditheringFrame - j + 0 * FrameMod
    BY <1>1, <1>2, <1>3
  <2>2. Counted(g, j, ditheringFrame)
    BY <2>1 DEF Counted
  <2> QED
    BY <2>1, <2>2 DEF IdleInv
<1>4. CASE g > ditheringFrame
  <2> DEFINE j == ditheringFrame - g + FrameMod
  <2>1. j \in 0 .. idle - 1 /\ g = ditheringFrame - j + 1 * FrameMod
    BY <1>1, <1>2, <1>4
  <2>2. Counted(g, j, ditheringFrame)
    BY <2>1 DEF Counted
  <2> QED
    BY <2>1, <2>2 DEF IdleInv
<1> QED
  BY <1>2, <1>3, <1>4

LEMMA IdleInvNext == TypeOK /\ IdleInv /\ [Next]_vars => IdleInv'
<1> SUFFICES ASSUME TypeOK, IdleInv, [Next]_vars PROVE IdleInv'
  OBVIOUS
<1>1. CASE UNCHANGED vars
  BY <1>1 DEF IdleInv, Near, vars
<1>2. ASSUME NEW v \in Values, NEW dithering_enabled \in Enabled,
             NEW limit \in Limits, Frame(v, dithering_enabled, limit)
      PROVE  IdleInv'
  <2> DEFINE frame == Signed(ditheringFrame + 1, FrameMod)
  <2>1. ditheringFrame' = frame /\ ditheringFrame \in SignedRange(FrameMod) /\ idle \in Nat
    BY <1>2 DEF Frame, TypeOK
  <2>2. CASE idle' = 0
    <3>1. \A j \in 0 .. 0 - 1 : FALSE
      OBVIOUS
    <3> QED
      BY <2>2, <3>1 DEF IdleInv
  <2>3. CASE /\ idle' = idle + 1 /\ last_effect_frame' = last_effect_frame
             /\ ~StaleAt(frame, limit) /\ Low(limit)
    <3> SUFFICES ASSUME NEW j \in 0 .. idle, NEW g \in SignedRange(FrameMod),
                        Counted(g, j, frame)
                 PROVE  Near(g)
      BY <2>1, <2>3 DEF IdleInv, Near
    <3>1. frame \in SignedRange(FrameMod)
      <4>1. FrameMod \in Nat \ {0} /\ FrameMod % 2 = 0 /\ ditheringFrame + 1 \in Int
        BY <2>1, DitherAssumption DEF SignedRange
      <4> QED
        BY <4>1, SignedInRange
    <3>2. CASE j = 0
      <4>1. g = frame
        BY <3>1, <3>2, OneInRange
      <4> DEFINE age == Abs(Abs(last_effect_frame) - Abs(frame))
      <4>2. age \in Int /\ limit \in Nat /\ FrameMod \div 4 \in Int
        BY <3>1, DitherAssumption DEF Abs, SignedRange, TypeOK
      <4>3. ~(age > limit)
        BY <2>3 DEF StaleAt
      <4> HIDE DEF age
      <4>4. age < FrameMod \div 4
        BY <2>3, <4>2, <4>3 DEF Low
      <4> QED
        BY <4>1, <4>4 DEF Near, Low, age
    <3>3. CASE j # 0
      <4>1. j - 1 \in Nat /\ j - 1 \in 0 .. idle - 1 /\ (j - 1) + 1 = j /\ g \in Int
        BY <2>1, <3>3 DEF SignedRange
      <4>2. Counted(g, j - 1, ditheringFrame)
        BY <2>1, <4>1, CountedBefore
      <4> QED
        BY <4>1, <4>2 DEF IdleInv
    <3> QED
      BY <3>2, <3>3
  <2>4. \/ idle' = 0
        \/ /\ idle' = idle + 1 /\ last_effect_frame' = last_effect_frame
           /\ ~StaleAt(frame, limit) /\ Low(limit)
    BY <1>2 DEF Frame
  <2> QED
    BY <2>2, <2>3, <2>4
<1> QED
  BY <1>1, <1>2 DEF Next

(* Wherever the last effect was, in a round of the counter there is a      *)
(* frame that is far from it by absolute values, 0 or the least: at least  *)
(* a quarter of the counter, so beyond every limit that is below that, as  *)
(* DroppedInOneRound has it for its condition.                             *)
THEOREM CarryIsDropped == Spec => []DroppedInOneRound
<1>1. Init => IdleInv
  <2>1. \A j \in 0 .. 0 - 1 : FALSE
    OBVIOUS
  <2> QED
    BY <2>1 DEF Init, IdleInv
<1>2. TypeOK /\ IdleInv => DroppedInOneRound
  <2> SUFFICES ASSUME TypeOK, IdleInv, idle >= FrameMod PROVE FALSE
    BY DitherAssumption DEF DroppedInOneRound, TypeOK
  <2> DEFINE h == FrameMod \div 2
             quarter == FrameMod \div 4
             last == Abs(last_effect_frame)
  <2>1. FrameMod \in Nat \ {0} /\ FrameMod % 2 = 0
    BY DitherAssumption
  <2>2. h \in Nat /\ quarter \in Nat /\ FrameMod = 2 * h /\ 2 * quarter <= h
    BY <2>1
  <2>3. last \in Nat /\ last <= h
    BY <2>2 DEF TypeOK, SignedRange, Abs
  <2>4. 0 \in SignedRange(FrameMod) /\ -h \in SignedRange(FrameMod)
    BY <2>1, <2>2 DEF SignedRange
  <2>5. Near(0) /\ Near(-h)
    BY <2>4, AllInARound
  <2>6. Abs(0) = 0 /\ Abs(-h) = h
    BY <2>2 DEF Abs
  <2>7. Abs(last - 0) < quarter /\ Abs(last - h) < quarter
    BY <2>5, <2>6 DEF Near, Low
  <2> HIDE DEF h, quarter, last
  <2>8. last < quarter /\ h - last < quarter
    BY <2>1, <2>2, <2>3, <2>7 DEF Abs
  <2> QED
    BY <2>1, <2>2, <2>3, <2>8
<1> QED
  BY <1>1, <1>2, IdleInvNext, TypeCorrect, PTL DEF Spec

-----------------------------------------------------------------------------
(* A quotient does not become smaller when what is divided grows.          *)
LEMMA DivMonotone ==
  ASSUME NEW a \in Int, NEW b \in Int, NEW m \in Nat \ {0}, a <= b
  PROVE  a \div m <= b \div m
<1>1. a \div m \in Int /\ b \div m \in Int /\ b < m * (b \div m) + m
  BY DivBounds
<1>2. m * ((b \div m) + 1) = m * (b \div m) + m /\ m * (b \div m) \in Int
  BY <1>1
<1>3. a < m * ((b \div m) + 1) /\ (b \div m) + 1 \in Int
  BY <1>1, <1>2
<1>4. a \div m < (b \div m) + 1
  BY <1>3, DivLess
<1> QED
  BY <1>1, <1>4

(* Nor does a product of natural numbers.                                  *)
LEMMA ProductMonotone ==
  ASSUME NEW a \in Nat, NEW b \in Nat, NEW c \in Nat, NEW d \in Nat, a <= c, b <= d
  PROVE  a * b \in Nat /\ c * d \in Nat /\ a * b <= c * d
<1>1. a * b <= c * b
  BY Z3
<1>2. c * b <= c * d
  BY Z3
<1>3. a * b \in Nat /\ c * b \in Nat /\ c * d \in Nat
  OBVIOUS
<1> QED
  BY <1>1, <1>2, <1>3

(* Induction on the natural numbers, for a set.                            *)
LEMMA Induction ==
  ASSUME NEW S, 0 \in S, \A n \in Nat : n \in S => n + 1 \in S
  PROVE  \A n \in Nat : n \in S
<1> SUFFICES ASSUME NEW bad \in Nat, bad \notin S PROVE FALSE
  OBVIOUS
<1> DEFINE T == Nat \ S
<1>1. PICK n \in T : \A m \in T : ~(<<m, n>> \in OpToRel(<, Nat))
  <2>1. T \subseteq Nat /\ T # {}
    OBVIOUS
  <2> HIDE DEF T
  <2> QED
    BY <2>1, NatLessThanWellFounded, WFMin
<1>2. \A m \in T : ~(m < n)
  BY <1>1 DEF OpToRel
<1>3. n - 1 \in Nat /\ n - 1 < n /\ (n - 1) + 1 = n /\ n \notin S
  OBVIOUS
<1> QED
  BY <1>2, <1>3

(* The powers of a number up to the n-th.                                  *)
Powers(to, base, n) ==
  /\ to \in [0 .. n -> Nat]
  /\ to[0] = 1
  /\ \A k \in 1 .. n : to[k] = base * to[k - 1]

LEMMA PowersExist ==
  ASSUME NEW base \in Nat, NEW n \in Nat
  PROVE  \E to : Powers(to, base, n)
<1> DEFINE S == {m \in Nat : \E to : Powers(to, base, m)}
<1>1. 0 \in S
  <2>1. Powers([k \in 0 .. 0 |-> 1], base, 0)
    BY DEF Powers
  <2> QED
    BY <2>1
<1>2. ASSUME NEW m \in Nat, m \in S
      PROVE  m + 1 \in S
  <2>1. PICK to : to \in [0 .. m -> Nat] /\ to[0] = 1 /\ \A k \in 1 .. m : to[k] = base * to[k - 1]
    BY <1>2 DEF Powers
  <2> DEFINE more == [k \in 0 .. m + 1 |-> IF k = m + 1 THEN base * to[m] ELSE to[k]]
  <2>2. to[m] \in Nat
    BY <2>1
  <2>3. base * to[m] \in Nat
    BY <2>2
  <2>4. ASSUME NEW k \in 0 .. m + 1, k # m + 1
        PROVE  to[k] \in Nat
    BY <2>1, <2>4
  <2>5. more \in [0 .. m + 1 -> Nat] /\ more[0] = 1
    BY <2>1, <2>3, <2>4
  <2>6. ASSUME NEW k \in 1 .. m + 1
        PROVE  more[k] = base * more[k - 1]
    <3>1. k \in 0 .. m + 1 /\ k - 1 \in 0 .. m + 1 /\ k - 1 # m + 1
      OBVIOUS
    <3>2. more[k - 1] = to[k - 1] /\ more[k] = IF k = m + 1 THEN base * to[m] ELSE to[k]
      BY <3>1
    <3>3. CASE k = m + 1
      <4>1. k - 1 = m
        BY <3>3
      <4> QED
        BY <3>2, <3>3, <4>1
    <3>4. CASE k # m + 1
      <4>1. k \in 1 .. m
        BY <3>4
      <4> QED
        BY <2>1, <3>2, <3>4, <4>1
    <3> QED
      BY <3>3, <3>4
  <2> HIDE DEF more
  <2>7. Powers(more, base, m + 1)
    BY <2>5, <2>6 DEF Powers
  <2> QED
    BY <2>7
<1>3. n \in S
  <2> HIDE DEF S
  <2> QED
    BY <1>1, <1>2, Induction
<1> QED
  BY <1>3

LEMMA PowIsPower ==
  ASSUME NEW base \in Nat, NEW n \in Nat
  PROVE  \E to : Powers(to, base, n) /\ Pow(base, n) = to[n]
<1> DEFINE Is(g) == g = [k \in 0 .. n |-> IF k = 0 THEN 1 ELSE base * g[k - 1]]
           To == CHOOSE g : Is(g)
<1>1. PICK to : to \in [0 .. n -> Nat] /\ to[0] = 1 /\ \A k \in 1 .. n : to[k] = base * to[k - 1]
  <2>1. \E to : Powers(to, base, n)
    BY PowersExist
  <2> QED
    BY <2>1 DEF Powers
<1>2. Is(to)
  <2>1. ASSUME NEW k \in 0 .. n
        PROVE  to[k] = IF k = 0 THEN 1 ELSE base * to[k - 1]
    <3>1. CASE k = 0
      BY <1>1, <3>1
    <3>2. CASE k # 0
      <4>1. k \in 1 .. n
        BY <3>2
      <4> QED
        BY <1>1, <3>2, <4>1
    <3> QED
      BY <3>1, <3>2
  <2> QED
    BY <1>1, <2>1
<1>3. Is(To)
  <2> HIDE DEF Is
  <2> QED
    BY <1>2
<1>4. Pow(base, n) = To[n]
  BY DEF Pow
<1> HIDE DEF To
<1>5. To[0] = 1 /\ \A k \in 1 .. n : To[k] = base * To[k - 1]
  <2>1. 0 \in 0 .. n /\ \A k \in 1 .. n : k \in 0 .. n /\ k # 0
    OBVIOUS
  <2> QED
    BY <1>3, <2>1
<1> DEFINE S == {k \in Nat : k <= n => To[k] \in Nat}
<1>6. 0 \in S
  BY <1>5
<1>7. ASSUME NEW k \in Nat, k \in S
      PROVE  k + 1 \in S
  <2> SUFFICES ASSUME k + 1 <= n PROVE To[k + 1] \in Nat
    BY <1>7
  <2>1. k + 1 \in 1 .. n /\ (k + 1) - 1 = k /\ To[k] \in Nat
    BY <1>7
  <2>2. To[k + 1] = base * To[k]
    BY <1>5, <2>1
  <2> QED
    BY <2>1, <2>2
<1>8. \A k \in Nat : k \in S
  <2> HIDE DEF S
  <2> QED
    BY <1>6, <1>7, Induction
<1>9. To \in [0 .. n -> Nat]
  BY <1>3, <1>8
<1>10. Powers(To, base, n)
  BY <1>5, <1>9 DEF Powers
<1> QED
  BY <1>4, <1>10

(* The power grows with the base.                                          *)
LEMMA PowMonotone ==
  ASSUME NEW a \in Nat, NEW b \in Nat, NEW n \in Nat, a <= b
  PROVE  /\ Pow(a, n) \in Nat /\ Pow(b, n) \in Nat
         /\ Pow(a, n) <= Pow(b, n)
         /\ b >= 1 => Pow(b, n) >= 1
<1>1. PICK f : Powers(f, a, n) /\ Pow(a, n) = f[n]
  BY PowIsPower
<1>2. PICK g : Powers(g, b, n) /\ Pow(b, n) = g[n]
  BY PowIsPower
<1>3. /\ \A k \in 0 .. n : f[k] \in Nat /\ g[k] \in Nat
      /\ f[0] = 1 /\ g[0] = 1
      /\ \A k \in 1 .. n : f[k] = a * f[k - 1] /\ g[k] = b * g[k - 1]
  BY <1>1, <1>2 DEF Powers
<1> DEFINE S == {k \in Nat : k <= n => f[k] <= g[k] /\ (b >= 1 => g[k] >= 1)}
<1>4. 0 \in S
  BY <1>3
<1>5. ASSUME NEW k \in Nat, k \in S
      PROVE  k + 1 \in S
  <2> SUFFICES ASSUME k + 1 <= n
               PROVE  f[k + 1] <= g[k + 1] /\ (b >= 1 => g[k + 1] >= 1)
    BY <1>5
  <2>1. k \in 0 .. n /\ k + 1 \in 1 .. n /\ (k + 1) - 1 = k
    OBVIOUS
  <2>2. f[k] \in Nat /\ g[k] \in Nat /\ f[k] <= g[k] /\ (b >= 1 => g[k] >= 1)
    BY <1>3, <1>5, <2>1
  <2>3. f[k + 1] = a * f[k] /\ g[k + 1] = b * g[k]
    BY <1>3, <2>1
  <2>4. a * f[k] <= b * g[k]
    BY <2>2, ProductMonotone
  <2>5. b >= 1 => 1 * 1 <= b * g[k]
    BY <2>2, ProductMonotone
  <2> QED
    BY <2>3, <2>4, <2>5
<1>6. \A k \in Nat : k \in S
  <2> HIDE DEF S
  <2> QED
    BY <1>4, <1>5, Induction
<1> QED
  BY <1>1, <1>2, <1>3, <1>6

-----------------------------------------------------------------------------
(* The pipeline before the dithering.                                      *)
PixelTypeOK ==
  /\ previous \in 0 .. Levels - 1 /\ current \in 0 .. Levels - 1
  /\ lum_power \in LumPowers /\ lut_enabled \in BOOLEAN /\ interpolation_enabled \in BOOLEAN

LEMMA TopIs ==
  /\ Levels \in Nat \ {0} /\ Levels >= 2 /\ Top \in Nat
  /\ Top = Levels * Levels - 1 /\ Levels * Levels \in Nat
  /\ Values = 0 .. Top
<1>1. Levels \in Nat \ {0} /\ Levels % 2 = 0
  BY DitherAssumption
<1>2. Levels >= 2
  BY <1>1
<1>3. Levels * Levels \in Nat /\ Levels * Levels >= 1 * 1
  BY <1>1, <1>2, ProductMonotone
<1> QED
  BY <1>1, <1>2, <1>3, PixelAssumption DEF Top

(* The table has a value of 16 bits for every level and one more, and they *)
(* do not fall.                                                            *)
LEMMA TableRises ==
  ASSUME NEW power \in LumPowers, NEW i \in 0 .. Levels, NEW j \in 0 .. Levels, i <= j
  PROVE  /\ BuildLookupTable(power)[i] \in 0 .. Top
         /\ BuildLookupTable(power)[i] <= BuildLookupTable(power)[j]
<1> DEFINE one == Pow(Levels * WhiteUnit, power)
           Entry(k) == (2 * Top * Pow(k * White, power) + one) \div (2 * one)
<1>1. /\ Levels \in Nat \ {0} /\ Top \in Nat /\ White \in Nat /\ WhiteUnit \in Nat \ {0}
      /\ power \in Nat /\ i \in Nat /\ j \in Nat
  BY TopIs, PixelAssumption
<1>2. one \in Nat \ {0}
  <2> DEFINE base == Levels * WhiteUnit
  <2>1. base \in Nat /\ 1 * 1 <= base
    BY <1>1, ProductMonotone
  <2>2. one = Pow(base, power)
    OBVIOUS
  <2> HIDE DEF base, one
  <2>3. one \in Nat /\ one >= 1
    <3>1. base <= base /\ base >= 1
      BY <2>1
    <3> QED
      BY <1>1, <2>1, <2>2, <3>1, PowMonotone
  <2> QED
    BY <2>3
<1>3. /\ Pow(i * White, power) \in Nat /\ Pow(j * White, power) \in Nat
      /\ Pow(i * White, power) <= Pow(j * White, power)
  <2>1. i * White \in Nat /\ j * White \in Nat /\ i * White <= j * White
    BY <1>1, ProductMonotone
  <2> QED
    BY <1>1, <2>1, PowMonotone
<1> DEFINE x == 2 * Top * Pow(i * White, power) + one
           y == 2 * Top * Pow(j * White, power) + one
<1>4. x \in Nat /\ y \in Nat /\ x <= y
  <2>1. 2 * Top \in Nat
    BY <1>1
  <2>2. /\ 2 * Top * Pow(i * White, power) \in Nat /\ 2 * Top * Pow(j * White, power) \in Nat
        /\ 2 * Top * Pow(i * White, power) <= 2 * Top * Pow(j * White, power)
    BY <1>3, <2>1, ProductMonotone
  <2> HIDE DEF one
  <2> QED
    BY <1>2, <2>2
<1>5. Entry(i) = x \div (2 * one) /\ Entry(j) = y \div (2 * one)
  OBVIOUS
<1>6. BuildLookupTable(power)[i] = Clamped(Entry(i)) /\ BuildLookupTable(power)[j] = Clamped(Entry(j))
  BY DEF BuildLookupTable
<1> HIDE DEF x, y, one, Entry
<1>7. 2 * one \in Nat \ {0} /\ x \in Int /\ y \in Int
  BY <1>2, <1>4
<1>8. x \div (2 * one) \in Nat /\ x \div (2 * one) <= y \div (2 * one)
  BY <1>4, <1>7, DivNonnegative, DivMonotone
<1>9. y \div (2 * one) \in Int
  BY <1>7, DivBounds
<1> QED
  BY <1>1, <1>5, <1>6, <1>8, <1>9 DEF Clamped

-----------------------------------------------------------------------------
(* What weights that add up to m make of two values, times m.              *)
Weighted(p, q, a, m) == p * (m - a) + q * a

LEMMA WeightedBetween ==
  ASSUME NEW m \in Nat, NEW a \in 0 .. m, NEW p \in Nat, NEW q \in Nat,
         NEW low \in Nat, NEW high \in Nat, low <= p, low <= q, p <= high, q <= high
  PROVE  /\ Weighted(p, q, a, m) \in Nat
         /\ low * m \in Nat /\ high * m \in Nat
         /\ low * m <= Weighted(p, q, a, m) /\ Weighted(p, q, a, m) <= high * m
<1> DEFINE rest == m - a
<1>1. rest \in Nat /\ a \in Nat /\ m = rest + a
  OBVIOUS
<1>2. Weighted(p, q, a, m) = p * rest + q * a
  BY DEF Weighted
<1> HIDE DEF rest
<1>3. low * m = low * rest + low * a /\ high * m = high * rest + high * a
  BY <1>1, Z3
<1>4. /\ low * rest \in Nat /\ p * rest \in Nat /\ high * rest \in Nat
      /\ low * rest <= p * rest /\ p * rest <= high * rest
  BY <1>1, ProductMonotone
<1>5. /\ low * a \in Nat /\ q * a \in Nat /\ high * a \in Nat
      /\ low * a <= q * a /\ q * a <= high * a
  BY <1>1, ProductMonotone
<1> QED
  BY <1>2, <1>3, <1>4, <1>5

LEMMA WeightedOrdered ==
  ASSUME NEW m \in Nat, NEW a \in 0 .. m, NEW p \in Nat, NEW q \in Nat, p <= q
  PROVE  /\ Weighted(p, q, a, m) \in Nat
         /\ p * m \in Nat /\ q * m \in Nat
         /\ p * m <= Weighted(p, q, a, m) /\ Weighted(p, q, a, m) <= q * m
<1>1. p <= p /\ q <= q
  OBVIOUS
<1> QED
  BY <1>1, WeightedBetween

LEMMA WeightedRises ==
  ASSUME NEW m \in Nat, NEW a \in 0 .. m, NEW b \in 0 .. m, a <= b,
         NEW p \in Nat, NEW q \in Nat, p <= q
  PROVE  Weighted(p, q, a, m) <= Weighted(p, q, b, m)
<1> DEFINE more == b - a
           rest == m - b
<1>1. more \in Nat /\ rest \in Nat /\ a \in Nat /\ b = a + more /\ m - a = rest + more
  OBVIOUS
<1>2. Weighted(p, q, a, m) = p * (rest + more) + q * a
  BY <1>1 DEF Weighted
<1>3. Weighted(p, q, b, m) = p * rest + q * (a + more)
  BY <1>1 DEF Weighted
<1> HIDE DEF more, rest
<1>4. /\ p * (rest + more) = p * rest + p * more /\ q * (a + more) = q * a + q * more
      /\ p * rest \in Nat /\ q * a \in Nat
  BY <1>1, Z3
<1>5. p * more \in Nat /\ q * more \in Nat /\ p * more <= q * more
  BY <1>1, ProductMonotone
<1> QED
  BY <1>2, <1>3, <1>4, <1>5

(* The entry of the table below a value, and how far the value is above it.*)
LEMMA IndexOf ==
  ASSUME NEW v \in 0 .. Top
  PROVE  /\ v \div Levels \in 0 .. Levels - 1 /\ v % Levels \in 0 .. Levels - 1
         /\ v = Levels * (v \div Levels) + (v % Levels)
<1>1. /\ Levels \in Nat \ {0} /\ Top = Levels * Levels - 1 /\ Levels * Levels \in Nat
      /\ v \in Nat /\ v < Levels * Levels
  BY TopIs
<1>2. v \div Levels \in Nat /\ v \div Levels < Levels
  BY <1>1, DivNonnegative, DivLess
<1>3. v % Levels \in 0 .. Levels - 1
  BY <1>1
<1>4. v = Levels * (v \div Levels) + (v % Levels)
  BY <1>1
<1> QED
  BY <1>1, <1>2, <1>3, <1>4

(* The interpolated table does not fall either, across its entries too.    *)
LEMMA LookedRises ==
  ASSUME PixelTypeOK, NEW v \in 0 .. Top, NEW w \in 0 .. Top, v <= w
  PROVE  Looked(v) \in 0 .. Top /\ Looked(v) <= Looked(w)
<1>1. CASE ~lut_enabled
  BY <1>1 DEF Looked
<1>2. CASE lut_enabled
  <2> DEFINE T(k) == LookupTable[k]
             i == v \div Levels
             a == v % Levels
             j == w \div Levels
             b == w % Levels
             x == Weighted(T(i), T(i + 1), a, Levels)
             y == Weighted(T(j), T(j + 1), b, Levels)
  <2>1. Levels \in Nat \ {0} /\ Top \in Nat
    BY TopIs
  <2>2. \A k, l \in 0 .. Levels : k <= l => T(k) \in 0 .. Top /\ T(k) <= T(l)
    BY TableRises DEF PixelTypeOK, LookupTable, LookupTables
  <2>3. /\ i \in 0 .. Levels - 1 /\ a \in 0 .. Levels - 1 /\ v = Levels * i + a
        /\ j \in 0 .. Levels - 1 /\ b \in 0 .. Levels - 1 /\ w = Levels * j + b
    <3>1. i \in 0 .. Levels - 1 /\ a \in 0 .. Levels - 1 /\ v = Levels * i + a
      BY IndexOf
    <3>2. j \in 0 .. Levels - 1 /\ b \in 0 .. Levels - 1 /\ w = Levels * j + b
      BY IndexOf
    <3> QED
      BY <3>1, <3>2
  <2>4. Looked(v) = x \div Levels /\ Looked(w) = y \div Levels
    BY <1>2 DEF Looked, LutInterpolate, Weighted
  <2> HIDE DEF T, i, a, j, b
  <2>5. /\ i \in 0 .. Levels /\ i + 1 \in 0 .. Levels /\ j \in 0 .. Levels /\ j + 1 \in 0 .. Levels
        /\ a \in 0 .. Levels /\ b \in 0 .. Levels /\ i <= i + 1 /\ j <= j + 1
    BY <2>1, <2>3
  <2>6. /\ T(i) \in Nat /\ T(i + 1) \in Nat /\ T(i) <= T(i + 1) /\ T(i + 1) <= Top
        /\ T(j) \in Nat /\ T(j + 1) \in Nat /\ T(j) <= T(j + 1) /\ T(j + 1) <= Top
    <3>1. Levels \in 0 .. Levels /\ i + 1 <= Levels /\ j + 1 <= Levels
      BY <2>1, <2>3
    <3>2. T(i + 1) \in 0 .. Top /\ T(j + 1) \in 0 .. Top /\ T(i) \in 0 .. Top /\ T(j) \in 0 .. Top
      BY <2>2, <2>5, <3>1
    <3> QED
      BY <2>1, <2>2, <2>5, <3>2
  <2>7. x \in Nat /\ x <= T(i + 1) * Levels /\ T(i + 1) * Levels \in Nat
    <3>1. Levels \in Nat
      BY <2>1
    <3> QED
      BY <2>5, <2>6, <3>1, WeightedOrdered
  <2>8. y \in Nat /\ T(j) * Levels <= y /\ T(j) * Levels \in Nat
    <3>1. Levels \in Nat
      BY <2>1
    <3> QED
      BY <2>5, <2>6, <3>1, WeightedOrdered
  <2>9. x <= y
    <3>1. CASE i = j
      <4>1. a <= b
        <5>1. Levels * i \in Nat
          BY <2>1, <2>3
        <5> QED
          BY <2>1, <2>3, <3>1, <5>1
      <4> QED
        BY <2>1, <2>5, <2>6, <3>1, <4>1, WeightedRises
    <3>2. CASE i < j
      <4>1. i + 1 <= j
        BY <2>3, <3>2
      <4>2. T(i + 1) <= T(j)
        BY <2>2, <2>5, <4>1
      <4>3. T(i + 1) * Levels <= T(j) * Levels
        BY <2>1, <2>6, <4>2, ProductMonotone
      <4> HIDE DEF x, y
      <4> QED
        BY <2>7, <2>8, <4>3
    <3>3. ~(i > j)
      <4> SUFFICES ASSUME i >= j + 1 PROVE FALSE
        BY <2>3
      <4>1. Levels * (j + 1) <= Levels * i
        BY <2>1, <2>3, ProductMonotone
      <4>2. Levels * (j + 1) = Levels * j + Levels /\ Levels * j \in Nat /\ Levels * i \in Nat
        BY <2>1, <2>3, Z3
      <4> QED
        BY <2>1, <2>3, <4>1, <4>2
    <3> QED
      BY <2>3, <3>1, <3>2, <3>3
  <2> HIDE DEF x, y
  <2>10. x \div Levels \in Nat /\ x \div Levels <= y \div Levels
    BY <2>1, <2>7, <2>8, <2>9, DivNonnegative, DivMonotone
  <2>11. x \div Levels < Top + 1
    <3>1. T(i + 1) * Levels <= Top * Levels
      BY <2>1, <2>6, ProductMonotone
    <3>2. Levels * (Top + 1) = Top * Levels + Levels /\ Top * Levels \in Nat
      BY <2>1, Z3
    <3>3. x < Levels * (Top + 1)
      BY <2>1, <2>7, <3>1, <3>2
    <3> QED
      BY <2>1, <2>7, <3>3, DivLess
  <2> QED
    BY <2>1, <2>4, <2>10, <2>11
<1> QED
  BY <1>1, <1>2 DEF PixelTypeOK

(* The blend of two levels lies between them, but for what the weights     *)
(* leave out.                                                              *)
LEMMA BlendBetween ==
  ASSUME NEW prev \in 0 .. Levels - 1, NEW cur \in 0 .. Levels - 1, NEW progress \in 0 .. Top,
         NEW low \in 0 .. Levels - 1, NEW high \in 0 .. Levels - 1,
         low <= prev, low <= cur, prev <= high, cur <= high
  PROVE  /\ Blend(prev, cur, progress) \in 0 .. high * Levels
         /\ Blend(low, low, 0) \in Nat
         /\ Blend(low, low, 0) <= Blend(prev, cur, progress)
         /\ Blend(low, low, 0) <= low * Levels
<1> DEFINE x == Weighted(prev, cur, progress, Top)
           y == Weighted(low, low, 0, Top)
<1>1. /\ Levels \in Nat \ {0} /\ Top \in Nat /\ Top = Levels * Levels - 1
      /\ Levels * Levels \in Nat
      /\ prev \in Nat /\ cur \in Nat /\ low \in Nat /\ high \in Nat /\ 0 \in 0 .. Top
  BY TopIs
<1>2. Blend(prev, cur, progress) = x \div Levels /\ Blend(low, low, 0) = y \div Levels
  BY DEF Blend, Weighted
<1>3. x \in Nat /\ low * Top <= x /\ x <= high * Top /\ low * Top \in Nat /\ high * Top \in Nat
  BY <1>1, WeightedBetween
<1>4. y \in Nat /\ y <= low * Top
  <2>1. low <= low
    BY <1>1
  <2> QED
    BY <1>1, <2>1, WeightedBetween
<1> HIDE DEF x, y
<1>5. ASSUME NEW level \in Nat, NEW n \in Nat, n <= level * Top
      PROVE  n \div Levels \in 0 .. level * Levels
  <2>1. level * Levels \in Nat /\ level * Top \in Nat
    BY <1>1
  <2>2. level * Top = Levels * (level * Levels) - level /\ Levels * (level * Levels) \in Nat
    BY <1>1, Z3
  <2>3. Levels * (level * Levels + 1) = Levels * (level * Levels) + Levels
    BY <1>1, <2>1, Z3
  <2>4. n < Levels * (level * Levels + 1)
    BY <1>1, <1>5, <2>2, <2>3
  <2>5. n \div Levels < level * Levels + 1 /\ n \div Levels \in Nat
    BY <1>1, <2>1, <2>4, DivLess, DivNonnegative
  <2> QED
    BY <2>1, <2>5
<1>6. x \div Levels \in 0 .. high * Levels /\ y \div Levels \in 0 .. low * Levels
  BY <1>1, <1>3, <1>4, <1>5
<1>7. y \div Levels <= x \div Levels
  BY <1>1, <1>3, <1>4, DivMonotone
<1>8. low * Levels \in Nat
  BY <1>1
<1> QED
  BY <1>2, <1>6, <1>7, <1>8

-----------------------------------------------------------------------------
(* The input of the dithering is what the table makes of a blend of the    *)
(* two frames.                                                             *)
ValueInv ==
  \E x \in 0 .. Top :
    value = Looked(x) /\ Blend(Dimmer, Dimmer, 0) <= x /\ x <= Brighter * Levels

PixelInv == PixelTypeOK /\ ValueInv

LEMMA PixelInitInvariant == PixelInit => PixelInv
<1> SUFFICES ASSUME PixelInit PROVE PixelInv
  OBVIOUS
<1>1. Levels \in Nat \ {0} /\ Top \in Nat
  BY TopIs
<1>2. PixelTypeOK
  BY <1>1 DEF PixelInit, PixelTypeOK
<1>3. Dimmer = 0 /\ Brighter = 0 /\ value = Looked(0)
  BY DEF PixelInit, Dimmer, Brighter
<1>4. Blend(0, 0, 0) <= 0 /\ 0 * Levels = 0 /\ 0 \in 0 .. Top
  <2>1. 0 \in 0 .. Levels - 1 /\ 0 \in 0 .. Top /\ 0 <= 0 /\ 0 * Levels = 0
    BY <1>1
  <2>2. Blend(0, 0, 0) <= 0 * Levels
    BY <2>1, BlendBetween
  <2> QED
    BY <2>1, <2>2
<1>5. ValueInv
  BY <1>3, <1>4 DEF ValueInv
<1> QED
  BY <1>2, <1>5 DEF PixelInv

(* A frame of the pipeline is one of the dithering, with an input that has *)
(* 16 bits.                                                                *)
LEMMA PixelFrameStep ==
  ASSUME PixelTypeOK, PixelFrame
  PROVE  PixelInv' /\ Next
<1>1. PICK prev \in 0 .. Levels - 1, cur \in 0 .. Levels - 1, progress \in Progress,
           dithering_enabled \in Enabled, limit \in Limits :
        /\ previous' = prev /\ current' = cur
        /\ Frame(Looked(Interpolated(prev, cur, progress)), dithering_enabled, limit)
  BY DEF PixelFrame
<1>2. /\ lum_power' = lum_power /\ lut_enabled' = lut_enabled
      /\ interpolation_enabled' = interpolation_enabled
  BY DEF PixelFrame, configVars
<1>3. PixelTypeOK'
  BY <1>1, <1>2 DEF PixelTypeOK
<1>4. Levels \in Nat \ {0} /\ Top \in Nat /\ Top = Levels * Levels - 1 /\ Levels * Levels \in Nat
      /\ Values = 0 .. Top /\ progress \in 0 .. Top
  BY TopIs, PixelAssumption
<1> DEFINE low == IF prev < cur THEN prev ELSE cur
           high == IF prev < cur THEN cur ELSE prev
           x == Interpolated(prev, cur, progress)
<1>5. /\ low \in 0 .. Levels - 1 /\ high \in 0 .. Levels - 1
      /\ low <= prev /\ low <= cur /\ prev <= high /\ cur <= high
  BY <1>4
<1>6. Dimmer' = low /\ Brighter' = high
  BY <1>1 DEF Dimmer, Brighter
<1> HIDE DEF low, high
<1>7. high * Levels \in 0 .. Top
  <2>1. high * Levels <= (Levels - 1) * Levels /\ high * Levels \in Nat
    BY <1>4, <1>5, ProductMonotone
  <2>2. (Levels - 1) * Levels = Levels * Levels - Levels
    BY <1>4, Z3
  <2> QED
    BY <1>4, <2>1, <2>2
<1>8. /\ Blend(prev, cur, progress) \in 0 .. high * Levels
      /\ Blend(low, low, 0) \in Nat
      /\ Blend(low, low, 0) <= Blend(prev, cur, progress)
      /\ Blend(low, low, 0) <= low * Levels
  BY <1>4, <1>5, BlendBetween
<1>9. x \in 0 .. Top /\ Blend(low, low, 0) <= x /\ x <= high * Levels
  <2>1. CASE interpolation_enabled
    <3>1. x = Blend(prev, cur, progress)
      BY <2>1 DEF Interpolated
    <3> HIDE DEF x
    <3> QED
      BY <1>4, <1>7, <1>8, <3>1
  <2>2. CASE ~interpolation_enabled
    <3>1. x = cur * Levels
      BY <2>2 DEF Interpolated
    <3>2. low * Levels <= cur * Levels /\ cur * Levels <= high * Levels
          /\ low * Levels \in Nat /\ cur * Levels \in Nat
      BY <1>4, <1>5, ProductMonotone
    <3> HIDE DEF x
    <3> QED
      BY <1>4, <1>7, <1>8, <3>1, <3>2
  <2> QED
    BY <2>1, <2>2
<1>10. Looked(x) \in Values /\ Frame(Looked(x), dithering_enabled, limit) /\ value' = Looked(x)
  <2>1. Frame(Looked(x), dithering_enabled, limit)
    BY <1>1
  <2> HIDE DEF x
  <2>2. x <= x
    BY <1>9
  <2>3. Looked(x) \in 0 .. Top
    BY <1>9, <2>2, LookedRises
  <2> QED
    BY <1>4, <2>1, <2>3 DEF Frame
<1> HIDE DEF x
<1>11. ValueInv'
  <2>1. \E y \in 0 .. Top : value' = Looked(y)' /\ Blend(low, low, 0) <= y /\ y <= high * Levels
    BY <1>2, <1>9, <1>10 DEF Looked, LutInterpolate, LookupTable
  <2> QED
    BY <1>6, <2>1 DEF ValueInv, Blend
<1>12. Next
  BY <1>10 DEF Next
<1> QED
  BY <1>3, <1>11, <1>12 DEF PixelInv

LEMMA PixelNextInvariant ==
  PixelInv /\ [FrameNext]_<<pixelVars, spiVars>> => PixelInv' /\ [Next]_vars
<1> SUFFICES ASSUME PixelInv, [FrameNext]_<<pixelVars, spiVars>> PROVE PixelInv' /\ [Next]_vars
  OBVIOUS
<1>1. CASE FirstPixel
  <2>1. PixelFrame
    BY <1>1 DEF FirstPixel
  <2> QED
    BY <2>1, PixelFrameStep DEF PixelInv
<1>2. CASE UNCHANGED pixelVars
  <2>1. UNCHANGED <<vars, value, previous, current, lum_power, lut_enabled, interpolation_enabled>>
    BY <1>2 DEF pixelVars, vars, configVars
  <2> QED
    BY <2>1 DEF PixelInv, PixelTypeOK, ValueInv, Looked, LutInterpolate, LookupTable, Dimmer, Brighter
<1> QED
  BY <1>1, <1>2 DEF FrameNext, OtherPixel

(* What reaches the LEDs is dithered as the module Dither says, whatever   *)
(* frames are blended, with or without the lookup table: render_thread     *)
(* implements Dither.                                                      *)
THEOREM ImplementsDither == FrameSpec => Spec
<1>1. FrameInit => Init /\ PixelInv
  BY PixelInitInvariant DEF FrameInit, PixelInit
<1> QED
  BY <1>1, PixelNextInvariant, PTL DEF FrameSpec, Spec

(* So in the whole of render_thread too the level shown is one of the two  *)
(* next to the input, and a carry without effect is dropped in a round, as *)
(* long as the limit stays below a quarter of the counter.                 *)
THEOREM LevelsOfOutput == FrameSpec => [](NeighbouringLevel /\ DroppedInOneRound)
  BY ImplementsDither, StaysNear, CarryIsDropped, PTL

(* A pixel never gets dimmer than the dimmer frame nor brighter than the   *)
(* brighter, for every depth, white point and power of the table.          *)
THEOREM StaysBetween == FrameSpec => []BetweenFrames
<1>1. PixelInv => BetweenFrames
  <2> SUFFICES ASSUME PixelInv PROVE BetweenFrames
    OBVIOUS
  <2>1. PICK x \in 0 .. Top :
          value = Looked(x) /\ Blend(Dimmer, Dimmer, 0) <= x /\ x <= Brighter * Levels
    BY DEF PixelInv, ValueInv
  <2>2. /\ Levels \in Nat \ {0} /\ Top = Levels * Levels - 1 /\ Top \in Nat
        /\ Levels * Levels \in Nat
        /\ Dimmer \in 0 .. Levels - 1 /\ Brighter \in 0 .. Levels - 1
    BY TopIs DEF PixelInv, PixelTypeOK, Dimmer, Brighter
  <2>3. Blend(Dimmer, Dimmer, 0) \in 0 .. Top
    <3>1. 0 \in 0 .. Top /\ Dimmer <= Dimmer
      BY <2>2
    <3>2. Blend(Dimmer, Dimmer, 0) \in Nat
      BY <2>2, <3>1, BlendBetween
    <3> QED
      BY <2>1, <2>2, <3>2
  <2>4. Brighter * Levels \in 0 .. Top
    <3>1. Brighter * Levels <= (Levels - 1) * Levels /\ Brighter * Levels \in Nat
      BY <2>2, ProductMonotone
    <3>2. (Levels - 1) * Levels = Levels * Levels - Levels
      BY <2>2, Z3
    <3> QED
      BY <2>2, <3>1, <3>2
  <2>5. Looked(Blend(Dimmer, Dimmer, 0)) <= Looked(x)
    BY <2>1, <2>3, LookedRises DEF PixelInv
  <2>6. Looked(x) <= Looked(Brighter * Levels)
    BY <2>1, <2>4, LookedRises DEF PixelInv
  <2> QED
    BY <2>1, <2>5, <2>6 DEF BetweenFrames, Steady
<1>2. FrameInit => PixelInv
  BY PixelInitInvariant DEF FrameInit
<1> QED
  BY <1>1, <1>2, PixelNextInvariant, PTL DEF FrameSpec

(* The quotient is the only number that fits.                              *)
LEMMA QuotientIs ==
  ASSUME NEW a \in Int, NEW m \in Nat \ {0}, NEW q \in Int, m * q <= a, a < m * q + m
  PROVE  a \div m = q
<1>1. m * (q + 1) = m * q + m /\ m * q \in Int
  BY Z3
<1>2. a \div m < q + 1
  BY <1>1, DivLess
<1>3. a \div m \in Int /\ a < m * (a \div m) + m
  BY DivBounds
<1>4. ~(a \div m < q)
  <2> SUFFICES ASSUME a \div m <= q - 1 PROVE FALSE
    BY <1>3
  <2> DEFINE d == a \div m
  <2>1. d \in Int /\ d <= q - 1 /\ a < m * d + m
    BY <1>3
  <2> HIDE DEF d
  <2>2. m * d <= m * (q - 1)
    BY <2>1, Z3
  <2>3. m * (q - 1) = m * q - m /\ m * d \in Int
    BY <2>1, Z3
  <2> QED
    BY <1>1, <2>1, <2>2, <2>3
<1> QED
  BY <1>2, <1>3, <1>4

(* Without the table what does not change is shown as it is: what the      *)
(* weights leave out of a level is less than a step of the input.          *)
THEOREM SteadyIsShown == FrameSpec => []SteadyIsExact
<1>1. PixelInv => SteadyIsExact
  <2> SUFFICES ASSUME PixelInv, previous = current, ~lut_enabled
               PROVE  RoundedTo8(value) = current
    BY DEF SteadyIsExact
  <2>1. PICK x \in 0 .. Top :
          value = Looked(x) /\ Blend(Dimmer, Dimmer, 0) <= x /\ x <= Brighter * Levels
    BY DEF PixelInv, ValueInv
  <2> DEFINE c == current
             h == Levels \div 2
             q == Blend(c, c, 0)
  <2>2. /\ Levels \in Nat \ {0} /\ Levels >= 2 /\ Top = Levels * Levels - 1 /\ Top \in Nat
        /\ c \in 0 .. Levels - 1 /\ Dimmer = c /\ Brighter = c /\ value = x
    BY <2>1, TopIs DEF PixelInv, PixelTypeOK, Dimmer, Brighter, Looked
  <2>3. h \in Nat /\ h >= 1 /\ h < Levels
    BY <2>2
  <2>4. c * Levels \in Nat /\ Levels * (c * Levels) \in Nat
        /\ c * Top = Levels * (c * Levels) - c
    BY <2>2, Z3
  <2>5. q = (c * Top) \div Levels
    <3>1. c * (Top - 0) + c * 0 = c * Top
      BY <2>2
    <3> QED
      BY <3>1 DEF Blend
  <2>6. q \in Int /\ c * Top < Levels * q + Levels
    <3>1. c * Top \in Int
      BY <2>2, <2>4
    <3> QED
      BY <2>2, <2>5, <3>1, DivBounds
  <2> HIDE DEF c, h, q
  <2>7. q >= c * Levels - 1
    <3> DEFINE s == c * Levels
    <3> SUFFICES ASSUME q <= s - 2 PROVE FALSE
      BY <2>4, <2>6
    <3>1. s \in Int
      BY <2>4
    <3> HIDE DEF s
    <3>2. Levels * q <= Levels * (s - 2)
      BY <2>2, <2>6, <3>1, Z3
    <3>3. Levels * (s - 2) = Levels * s - 2 * Levels /\ Levels * s \in Int /\ Levels * q \in Int
      BY <2>2, <2>6, <3>1, Z3
    <3> QED
      BY <2>2, <2>4, <2>6, <3>2, <3>3 DEF s
  <2>8. x + h \in Int /\ Levels * c <= x + h /\ x + h < Levels * c + Levels
    <3>1. Levels * c = c * Levels
      BY <2>2
    <3>2. q <= x /\ x <= c * Levels
      BY <2>1, <2>2 DEF q
    <3> QED
      BY <2>2, <2>3, <2>4, <2>6, <2>7, <3>1, <3>2
  <2>9. (x + h) \div Levels = c
    BY <2>2, <2>8, QuotientIs
  <2> QED
    BY <2>2, <2>9 DEF RoundedTo8, h, c
<1>2. FrameInit => PixelInv
  BY PixelInitInvariant DEF FrameInit
<1> QED
  BY <1>1, <1>2, PixelNextInvariant, PTL DEF FrameSpec

-----------------------------------------------------------------------------
IsSequence(s) == \E S : s \in Seq(S)

(* The buffer holds the frame in which n pixels have been drawn.           *)
Laid(n) ==
  /\ Len(drawn) = n
  /\ \A a \in 0 .. 3 : spi_buffer[a] = Zero
  /\ \A a \in Padding .. FrameLength - 1 : spi_buffer[a] = Ones
  /\ \A i \in 0 .. n - 1 :
       /\ spi_buffer[PixelAt(i)] = Ones
       /\ spi_buffer[PixelAt(i) + 1] = drawn[i + 1][1]
       /\ spi_buffer[PixelAt(i) + 2] = drawn[i + 1][2]
       /\ spi_buffer[PixelAt(i) + 3] = drawn[i + 1][3]

(* The device got the first n bytes of the buffer.                         *)
Copied(n) == Len(sent) = n /\ \A k \in 1 .. n : sent[k] = spi_buffer[k - 1]

SpiTypeOK ==
  /\ spi_pc \in {"begin", "pixels", "write"}
  /\ led_index \in 0 .. LedsPerStrip
  /\ DOMAIN spi_buffer = 0 .. Allocated - 1
  /\ offset \in Nat
  /\ IsSequence(sent) /\ IsSequence(drawn)

SpiInv ==
  /\ spi_pc = "pixels" => led_index < LedsPerStrip /\ Laid(led_index) /\ sent = <<>>
  /\ spi_pc = "write" => Laid(LedsPerStrip) /\ offset < FrameLength /\ (whole => Copied(offset))
  /\ spi_pc = "begin" /\ whole => Laid(LedsPerStrip) /\ Copied(FrameLength)

(* The channel of the first pixel that is dithered is the one drawn.       *)
ShownInv == Len(drawn) > 0 => drawn[1][3] = <<"r", 0, out>>

IInv == SpiTypeOK /\ SpiInv /\ ShownInv

(* What the steps of FrameOutput are to SpiFrame.                          *)
Drawing(b, g, r) ==
  /\ WritePixel(b, g, r)
  /\ led_index = 0 => r = <<"r", 0, out'>>
  /\ led_index > 0 => out' = out

-----------------------------------------------------------------------------
(* The frame fits into what was allocated, whatever the number of strips.  *)
LEMMA FrameFits ==
  /\ LedsPerStrip \in Nat \ {0} /\ PacketLength \in Nat \ {0}
  /\ Padding = 4 + 4 * LedsPerStrip
  /\ FrameLength \in Nat /\ Padding < FrameLength
  /\ Allocated \in Nat /\ FrameLength <= Allocated
  /\ LedsPerStrip <= 16 * (FrameLength - Padding)
<1> DEFINE tail == LedsPerStrip \div 16
           more == LedCount \div 16
<1>1. LedsPerStrip \in Nat \ {0} /\ PacketLength \in Nat \ {0} /\ Strips \in Nat \ {0}
  BY SpiAssumption
<1>2. LedCount \in Nat /\ LedsPerStrip <= LedCount
  BY <1>1, Z3 DEF LedCount
<1>3. tail \in Nat /\ 16 * tail <= LedsPerStrip /\ LedsPerStrip < 16 * tail + 16
  BY <1>1, Z3
<1>4. more \in Nat /\ 16 * more <= LedCount /\ LedCount < 16 * more + 16
  BY <1>2, Z3
<1>5. Padding = 4 + 4 * LedsPerStrip
  BY DEF Padding
<1>6. FrameLength = 4 + 4 * LedsPerStrip + tail + 1 /\ Allocated = 4 + 4 * LedCount + more + 1
  BY DEF FrameLength, Padding, Allocated
<1> HIDE DEF tail, more
<1> QED
  BY <1>1, <1>2, <1>3, <1>4, <1>5, <1>6

LEMMA EmptyIsSequence == IsSequence(<<>>) /\ Len(<<>>) = 0
  BY EmptySeq DEF IsSequence

(* A sequence that is made longer.                                         *)
LEMMA ConcatSequences ==
  ASSUME NEW s, NEW t, IsSequence(s), IsSequence(t)
  PROVE  /\ IsSequence(s \o t)
         /\ Len(s) \in Nat /\ Len(t) \in Nat
         /\ Len(s \o t) = Len(s) + Len(t)
         /\ \A k \in 1 .. Len(s) : (s \o t)[k] = s[k]
         /\ \A k \in Len(s) + 1 .. Len(s) + Len(t) : (s \o t)[k] = t[k - Len(s)]
<1>1. PICK S : s \in Seq(S)
  BY DEF IsSequence
<1>2. PICK T : t \in Seq(T)
  BY DEF IsSequence
<1>3. s \in Seq(S \cup T) /\ t \in Seq(S \cup T)
  <2>1. S \subseteq S \cup T /\ T \subseteq S \cup T
    OBVIOUS
  <2> QED
    BY <1>1, <1>2, <2>1, SeqMonotonic
<1>4. Len(s) \in Nat /\ Len(t) \in Nat
  BY <1>3, LenProperties
<1>5. /\ s \o t \in Seq(S \cup T)
      /\ Len(s \o t) = Len(s) + Len(t)
      /\ \A k \in 1 .. Len(s) + Len(t) :
           (s \o t)[k] = IF k <= Len(s) THEN s[k] ELSE t[k - Len(s)]
  BY <1>3, ConcatProperties
<1>6. IsSequence(s \o t)
  BY <1>5 DEF IsSequence
<1>7. ASSUME NEW k \in 1 .. Len(s)
      PROVE  (s \o t)[k] = s[k]
  <2>1. k \in 1 .. Len(s) + Len(t) /\ k <= Len(s)
    BY <1>4
  <2> QED
    BY <1>5, <2>1
<1>8. ASSUME NEW k \in Len(s) + 1 .. Len(s) + Len(t)
      PROVE  (s \o t)[k] = t[k - Len(s)]
  <2>1. k \in 1 .. Len(s) + Len(t) /\ ~(k <= Len(s))
    BY <1>4
  <2> QED
    BY <1>5, <2>1
<1> QED
  BY <1>4, <1>5, <1>6, <1>7, <1>8

LEMMA AppendSequence ==
  ASSUME NEW s, NEW e, IsSequence(s)
  PROVE  /\ IsSequence(Append(s, e))
         /\ Len(s) \in Nat
         /\ Len(Append(s, e)) = Len(s) + 1
         /\ \A k \in 1 .. Len(s) : Append(s, e)[k] = s[k]
         /\ Append(s, e)[Len(s) + 1] = e
<1>1. PICK S : s \in Seq(S)
  BY DEF IsSequence
<1>2. s \in Seq(S \cup {e})
  BY <1>1, SeqMonotonic
<1>3. Append(s, e) \in Seq(S \cup {e})
  BY <1>2
<1> QED
  BY <1>2, <1>3 DEF IsSequence

(* A packet is a part of the buffer.                                       *)
LEMMA PacketIsPart ==
  ASSUME SpiTypeOK, offset < FrameLength
  PROVE  /\ IsSequence(Packet)
         /\ PacketSize \in 1 .. FrameLength - offset
         /\ Len(Packet) = PacketSize
         /\ \A k \in 1 .. PacketSize : Packet[k] = spi_buffer[offset + k - 1]
<1>1. offset \in Nat /\ PacketLength \in Nat \ {0} /\ FrameLength \in Nat
  BY FrameFits DEF SpiTypeOK
<1>2. PacketSize \in 1 .. FrameLength - offset
  BY <1>1 DEF PacketSize
<1> DEFINE n == PacketSize
           S == {spi_buffer[offset + k - 1] : k \in 1 .. n}
<1>3. Packet \in [1 .. n -> S]
  BY DEF Packet
<1>4. n \in Nat
  BY <1>1, <1>2
<1> HIDE DEF n, S
<1>5. Packet \in Seq(S) /\ Len(Packet) = n
  BY <1>3, <1>4
<1>6. IsSequence(Packet)
  BY <1>5 DEF IsSequence
<1> QED
  BY <1>2, <1>5, <1>6 DEF n, Packet

-----------------------------------------------------------------------------
LEMMA InitInvariant == FrameInit => IInv
<1> SUFFICES ASSUME FrameInit PROVE IInv
  OBVIOUS
<1>1. spi_pc = "begin" /\ led_index = 0 /\ offset = 0 /\ sent = <<>> /\ whole = FALSE
      /\ drawn = <<>> /\ DOMAIN spi_buffer = 0 .. Allocated - 1
  BY DEF FrameInit, SpiInit
<1>2. SpiTypeOK
  BY <1>1, EmptyIsSequence, FrameFits DEF SpiTypeOK
<1>3. SpiInv
  BY <1>1 DEF SpiInv
<1>4. ShownInv
  BY <1>1, EmptyIsSequence DEF ShownInv
<1> QED
  BY <1>2, <1>3, <1>4 DEF IInv

(* A new frame: the buffer keeps the pixels of the last one, of which none *)
(* is counted as drawn.                                                    *)
LEMMA BeginInvariant == IInv /\ BeginFrame => IInv'
<1> SUFFICES ASSUME IInv, BeginFrame PROVE IInv'
  OBVIOUS
<1>1. /\ spi_pc' = "pixels" /\ led_index' = 0 /\ drawn' = <<>> /\ sent' = <<>>
      /\ whole' = FALSE /\ offset' = offset
      /\ spi_buffer' = [a \in 0 .. Allocated - 1 |->
           IF a < 4 THEN Zero
           ELSE IF a \in Padding .. FrameLength - 1 THEN Ones ELSE spi_buffer[a]]
  BY DEF BeginFrame
<1>2. SpiTypeOK'
  BY <1>1, EmptyIsSequence, FrameFits DEF IInv, SpiTypeOK
<1>3. (\A a \in 0 .. 3 : spi_buffer'[a] = Zero)
      /\ \A a \in Padding .. FrameLength - 1 : spi_buffer'[a] = Ones
  BY <1>1, FrameFits
<1>4. Laid(0)'
  <2>1. \A i \in 0 .. 0 - 1 : FALSE
    OBVIOUS
  <2> QED
    BY <1>1, <1>3, <2>1, EmptyIsSequence DEF Laid
<1>5. SpiInv'
  BY <1>1, <1>4, FrameFits DEF SpiInv
<1>6. ShownInv'
  BY <1>1, EmptyIsSequence DEF ShownInv
<1> QED
  BY <1>2, <1>5, <1>6 DEF IInv

(* A pixel is drawn behind those before it and in front of the padding.    *)
LEMMA PixelLaid ==
  ASSUME IInv, NEW b, NEW g, NEW r, WritePixel(b, g, r)
  PROVE  /\ Laid(led_index)'
         /\ IsSequence(drawn') /\ DOMAIN spi_buffer' = 0 .. Allocated - 1
         /\ drawn'[led_index + 1] = <<b, g, r>>
         /\ led_index > 0 => drawn'[1] = drawn[1]
<1> DEFINE p == 4 + 4 * led_index
<1>1. /\ spi_pc = "pixels" /\ led_index \in Nat /\ led_index < LedsPerStrip
      /\ Laid(led_index) /\ IsSequence(drawn) /\ Len(drawn) = led_index
  BY DEF WritePixel, IInv, SpiTypeOK, SpiInv, Laid
<1>2. /\ spi_buffer' = [spi_buffer EXCEPT ![p] = Ones, ![p+1] = b, ![p+2] = g, ![p+3] = r]
      /\ drawn' = Append(drawn, <<b, g, r>>)
  BY DEF WritePixel, PixelAt
<1>3. /\ Padding = 4 + 4 * LedsPerStrip /\ Padding < FrameLength /\ FrameLength <= Allocated
      /\ LedsPerStrip \in Nat /\ FrameLength \in Nat /\ Allocated \in Nat
  BY FrameFits
<1>4. DOMAIN spi_buffer = 0 .. Allocated - 1
  BY DEF IInv, SpiTypeOK
<1>5. p \in Nat /\ p >= 4 /\ p + 3 < Padding
  BY <1>1, <1>3
<1> HIDE DEF p
<1>6. /\ DOMAIN spi_buffer' = 0 .. Allocated - 1
      /\ spi_buffer'[p] = Ones /\ spi_buffer'[p+1] = b
      /\ spi_buffer'[p+2] = g /\ spi_buffer'[p+3] = r
  BY <1>2, <1>3, <1>4, <1>5
<1>7. \A a \in 0 .. Allocated - 1 : a \notin p .. p + 3 => spi_buffer'[a] = spi_buffer[a]
  BY <1>2, <1>4, <1>5
<1>8. /\ IsSequence(drawn') /\ Len(drawn') = led_index + 1
      /\ \A k \in 1 .. led_index : drawn'[k] = drawn[k]
      /\ drawn'[led_index + 1] = <<b, g, r>>
  BY <1>1, <1>2, AppendSequence
<1>9. \A a \in 0 .. 3 : spi_buffer'[a] = Zero
  <2>1. \A a \in 0 .. 3 : a \in 0 .. Allocated - 1 /\ a \notin p .. p + 3
    BY <1>3, <1>5
  <2> QED
    BY <1>1, <1>7, <2>1 DEF Laid
<1>10. \A a \in Padding .. FrameLength - 1 : spi_buffer'[a] = Ones
  <2>1. \A a \in Padding .. FrameLength - 1 : a \in 0 .. Allocated - 1 /\ a \notin p .. p + 3
    BY <1>3, <1>5
  <2> QED
    BY <1>1, <1>7, <2>1 DEF Laid
<1>11. ASSUME NEW i \in 0 .. led_index
       PROVE  /\ spi_buffer'[PixelAt(i)] = Ones
              /\ spi_buffer'[PixelAt(i) + 1] = drawn'[i + 1][1]
              /\ spi_buffer'[PixelAt(i) + 2] = drawn'[i + 1][2]
              /\ spi_buffer'[PixelAt(i) + 3] = drawn'[i + 1][3]
  <2>1. CASE i = led_index
    <3>1. PixelAt(i) = p
      BY <2>1 DEF PixelAt, p
    <3>2. drawn'[i + 1] = <<b, g, r>>
      BY <1>8, <2>1
    <3> QED
      BY <1>6, <3>1, <3>2
  <2>2. CASE i # led_index
    <3> DEFINE q == PixelAt(i)
    <3>1. i \in 0 .. led_index - 1 /\ i + 1 \in 1 .. led_index
      BY <1>1, <2>2
    <3>2. q \in Nat /\ q + 3 < p
      BY <1>1, <3>1 DEF PixelAt, p
    <3>3. drawn'[i + 1] = drawn[i + 1]
      BY <1>8, <3>1
    <3>4. /\ spi_buffer[q] = Ones
          /\ spi_buffer[q + 1] = drawn[i + 1][1]
          /\ spi_buffer[q + 2] = drawn[i + 1][2]
          /\ spi_buffer[q + 3] = drawn[i + 1][3]
      BY <1>1, <3>1 DEF Laid
    <3> HIDE DEF q
    <3>5. /\ spi_buffer'[q] = spi_buffer[q] /\ spi_buffer'[q + 1] = spi_buffer[q + 1]
          /\ spi_buffer'[q + 2] = spi_buffer[q + 2] /\ spi_buffer'[q + 3] = spi_buffer[q + 3]
      <4>1. \A c \in 0 .. 3 : q + c \in 0 .. Allocated - 1 /\ q + c \notin p .. p + 3
        BY <1>3, <1>5, <3>2
      <4>2. \A c \in 0 .. 3 : spi_buffer'[q + c] = spi_buffer[q + c]
        BY <1>7, <4>1
      <4>3. q + 0 = q
        BY <3>2
      <4> QED
        BY <4>2, <4>3
    <3> QED
      BY <3>3, <3>4, <3>5 DEF q
  <2> QED
    BY <2>1, <2>2
<1>12. led_index' = led_index + 1 /\ 0 .. led_index' - 1 = 0 .. led_index
  BY <1>1 DEF WritePixel
<1>13. Laid(led_index)'
  BY <1>8, <1>9, <1>10, <1>11, <1>12 DEF Laid
<1>14. led_index > 0 => drawn'[1] = drawn[1]
  BY <1>1, <1>8
<1> QED
  BY <1>6, <1>8, <1>13, <1>14

LEMMA PixelInvariant ==
  ASSUME IInv, NEW b, NEW g, NEW r, Drawing(b, g, r)
  PROVE  IInv'
<1>1. /\ Laid(led_index)'
      /\ IsSequence(drawn') /\ DOMAIN spi_buffer' = 0 .. Allocated - 1
      /\ drawn'[led_index + 1] = <<b, g, r>>
      /\ led_index > 0 => drawn'[1] = drawn[1]
  BY PixelLaid DEF Drawing
<1>2. /\ spi_pc = "pixels" /\ led_index \in Nat /\ led_index < LedsPerStrip
      /\ Len(drawn) = led_index /\ sent = <<>> /\ LedsPerStrip \in Nat
      /\ FrameLength \in Nat /\ FrameLength > 0
  BY FrameFits DEF Drawing, WritePixel, IInv, SpiTypeOK, SpiInv, Laid
<1>3. led_index' = led_index + 1 /\ led_index' \in 0 .. LedsPerStrip
  BY <1>2 DEF Drawing, WritePixel
<1>4. ShownInv'
  <2>1. CASE led_index = 0
    <3>1. r = <<"r", 0, out'>> /\ drawn'[1] = <<b, g, r>>
      BY <1>1, <2>1 DEF Drawing
    <3> QED
      BY <3>1 DEF ShownInv
  <2>2. CASE led_index > 0
    <3>1. out' = out /\ drawn'[1] = drawn[1] /\ Len(drawn) > 0
      BY <1>1, <1>2, <2>2 DEF Drawing
    <3> QED
      BY <3>1 DEF IInv, ShownInv
  <2> QED
    BY <1>2, <2>1, <2>2
<1>5. CASE led_index' < LedsPerStrip
  <2>1. spi_pc' = "pixels" /\ sent' = <<>> /\ offset' = offset
    BY <1>2, <1>5 DEF Drawing, WritePixel
  <2>2. SpiTypeOK'
    BY <1>1, <1>3, <2>1, EmptyIsSequence DEF IInv, SpiTypeOK
  <2>3. SpiInv'
    BY <1>1, <1>5, <2>1 DEF SpiInv
  <2> QED
    BY <1>4, <2>2, <2>3 DEF IInv
<1>6. CASE ~(led_index' < LedsPerStrip)
  <2>1. spi_pc' = "write" /\ sent' = <<>> /\ offset' = 0
    BY <1>2, <1>6 DEF Drawing, WritePixel
  <2>2. led_index' = LedsPerStrip
    BY <1>2, <1>3, <1>6
  <2>3. SpiTypeOK'
    BY <1>1, <1>3, <2>1, EmptyIsSequence DEF IInv, SpiTypeOK
  <2>4. Laid(LedsPerStrip)'
    BY <1>1, <2>2 DEF Laid
  <2>5. Copied(offset)'
    <3>1. \A k \in 1 .. 0 : FALSE
      OBVIOUS
    <3> QED
      BY <2>1, <3>1, EmptyIsSequence DEF Copied
  <2>6. SpiInv'
    BY <1>2, <2>1, <2>4, <2>5 DEF SpiInv
  <2> QED
    BY <1>4, <2>3, <2>6 DEF IInv
<1> QED
  BY <1>5, <1>6

(* A packet continues what was written before it; the last one is shorter. *)
LEMMA PacketInvariant == IInv /\ WritePacket /\ out' = out => IInv'
<1> SUFFICES ASSUME IInv, WritePacket, out' = out PROVE IInv'
  OBVIOUS
<1>1. /\ spi_pc = "write" /\ Laid(LedsPerStrip) /\ offset \in Nat /\ offset < FrameLength
      /\ whole => Copied(offset)
      /\ IsSequence(sent)
  BY DEF WritePacket, IInv, SpiTypeOK, SpiInv
<1>2. /\ offset' = offset + PacketLength
      /\ spi_pc' = IF offset' < FrameLength THEN "write" ELSE "begin"
      /\ led_index' = led_index /\ spi_buffer' = spi_buffer /\ drawn' = drawn
  BY DEF WritePacket
<1>3. /\ PacketLength \in Nat \ {0} /\ FrameLength \in Nat /\ LedsPerStrip \in Nat
  BY FrameFits
<1>4. /\ IsSequence(Packet)
      /\ PacketSize \in 1 .. FrameLength - offset
      /\ Len(Packet) = PacketSize
      /\ \A k \in 1 .. PacketSize : Packet[k] = spi_buffer[offset + k - 1]
  BY <1>1, PacketIsPart DEF IInv
<1>5. Laid(LedsPerStrip)' /\ ShownInv'
  BY <1>1, <1>2 DEF Laid, IInv, ShownInv
<1>6. CASE sent' = sent \o Packet /\ whole' = whole
  <2> DEFINE n == PacketSize
  <2>1. /\ IsSequence(sent')
        /\ Len(sent) \in Nat
        /\ Len(sent') = Len(sent) + n
        /\ \A k \in 1 .. Len(sent) : sent'[k] = sent[k]
        /\ \A k \in Len(sent) + 1 .. Len(sent) + n : sent'[k] = Packet[k - Len(sent)]
    BY <1>1, <1>4, <1>6, ConcatSequences
  <2>2. n \in Nat
    BY <1>1, <1>3, <1>4
  <2>3. ASSUME whole
        PROVE  /\ Len(sent') = offset + n
               /\ \A k \in 1 .. offset + n : sent'[k] = spi_buffer[k - 1]
    <3>1. Len(sent) = offset /\ \A k \in 1 .. offset : sent[k] = spi_buffer[k - 1]
      BY <1>1, <2>3 DEF Copied
    <3> HIDE DEF n
    <3>2. ASSUME NEW k \in 1 .. offset + n
          PROVE  sent'[k] = spi_buffer[k - 1]
      <4>1. CASE k \in 1 .. offset
        BY <2>1, <3>1, <4>1
      <4>2. CASE k \in offset + 1 .. offset + n
        <5>1. sent'[k] = Packet[k - offset]
          BY <2>1, <3>1, <4>2
        <5>2. k - offset \in 1 .. n /\ offset + (k - offset) - 1 = k - 1
          BY <1>1, <2>2, <4>2
        <5>3. Packet[k - offset] = spi_buffer[offset + (k - offset) - 1]
          BY <1>4, <5>2 DEF n
        <5> QED
          BY <5>1, <5>2, <5>3
      <4> QED
        BY <1>1, <2>2, <4>1, <4>2
    <3> QED
      BY <2>1, <3>1, <3>2
  <2>4. CASE offset' < FrameLength
    <3>1. offset + n = offset' /\ spi_pc' = "write"
      BY <1>1, <1>2, <1>3, <2>4 DEF PacketSize
    <3>2. whole' => Copied(offset)'
      BY <1>2, <1>6, <2>3, <3>1 DEF Copied
    <3>3. SpiInv'
      BY <1>5, <2>4, <3>1, <3>2 DEF SpiInv
    <3> QED
      BY <1>2, <1>3, <1>5, <2>1, <3>1, <3>3 DEF IInv, SpiTypeOK
  <2>5. CASE ~(offset' < FrameLength)
    <3>1. offset + n = FrameLength /\ spi_pc' = "begin"
      BY <1>1, <1>2, <1>3, <2>5 DEF PacketSize
    <3>2. whole' => Copied(FrameLength)'
      BY <1>2, <1>6, <2>3, <3>1 DEF Copied
    <3>3. SpiInv'
      BY <1>5, <3>1, <3>2 DEF SpiInv
    <3> QED
      BY <1>2, <1>3, <1>5, <2>1, <3>1, <3>3 DEF IInv, SpiTypeOK
  <2> QED
    BY <2>4, <2>5
<1>7. CASE whole' = FALSE /\ sent' = sent
  <2>1. SpiTypeOK'
    BY <1>1, <1>2, <1>3, <1>7 DEF IInv, SpiTypeOK
  <2>2. SpiInv'
    BY <1>2, <1>5, <1>7 DEF SpiInv
  <2> QED
    BY <1>5, <2>1, <2>2 DEF IInv
<1> QED
  BY <1>6, <1>7 DEF WritePacket

LEMMA NextInvariant == IInv /\ [FrameNext]_<<pixelVars, spiVars>> => IInv'
<1> SUFFICES ASSUME IInv, [FrameNext]_<<pixelVars, spiVars>> PROVE IInv'
  OBVIOUS
<1>1. CASE FirstPixel \/ OtherPixel
  <2>1. CASE FirstPixel
    <3>1. Drawing(Colour("b"), Colour("g"), <<"r", 0, out'>>)
      BY <2>1 DEF FirstPixel, Drawing
    <3> QED
      BY <3>1, PixelInvariant
  <2>2. CASE OtherPixel
    <3>1. out' = out /\ led_index > 0 /\ WritePixel(Colour("b"), Colour("g"), Colour("r"))
      BY <2>2 DEF OtherPixel, pixelVars, vars
    <3>2. Drawing(Colour("b"), Colour("g"), Colour("r"))
      BY <3>1 DEF Drawing
    <3> QED
      BY <3>2, PixelInvariant
  <2> QED
    BY <1>1, <2>1, <2>2
<1>2. CASE UNCHANGED <<pixelVars, spiVars>>
  BY <1>2 DEF pixelVars, vars, spiVars, IInv, SpiTypeOK, SpiInv, ShownInv, Laid, Copied
<1>3. CASE (BeginFrame \/ WritePacket) /\ UNCHANGED pixelVars
  <2>1. out' = out
    BY <1>3 DEF pixelVars, vars
  <2> QED
    BY <1>3, <2>1, BeginInvariant, PacketInvariant
<1> QED
  BY <1>1, <1>2, <1>3 DEF FrameNext

LEMMA Invariance == FrameSpec => []IInv
  BY InitInvariant, NextInvariant, PTL DEF FrameSpec

-----------------------------------------------------------------------------
(* The bytes of every frame of which no write failed are those the LEDs    *)
(* count on, for every length of the strip and every size of a packet.     *)
THEOREM WireIsRight == FrameSpec => []FrameSent
<1>1. IInv => FrameSent
  <2> SUFFICES ASSUME IInv, spi_pc = "begin", whole
               PROVE  /\ Len(sent) = FrameLength
                      /\ \A a \in 1 .. 4 : sent[a] = Zero
                      /\ \A i \in 0 .. LedsPerStrip - 1 :
                           /\ sent[PixelAt(i) + 1] = Ones
                           /\ \A c \in 1 .. 3 : sent[PixelAt(i) + 1 + c] = drawn[i + 1][c]
                      /\ \A a \in Padding + 1 .. Len(sent) : sent[a] = Ones
                      /\ 2 * 8 * (Len(sent) - Padding) >= LedsPerStrip
    BY DEF FrameSent
  <2>1. Laid(LedsPerStrip) /\ Copied(FrameLength)
    BY DEF IInv, SpiInv
  <2>2. /\ Padding = 4 + 4 * LedsPerStrip /\ LedsPerStrip \in Nat /\ FrameLength \in Nat
        /\ Padding < FrameLength /\ LedsPerStrip <= 16 * (FrameLength - Padding)
    BY FrameFits
  <2>3. Len(sent) = FrameLength /\ \A k \in 1 .. FrameLength : sent[k] = spi_buffer[k - 1]
    BY <2>1 DEF Copied
  <2>4. \A a \in 1 .. 4 : sent[a] = Zero
    <3>1. \A a \in 1 .. 4 : a \in 1 .. FrameLength /\ a - 1 \in 0 .. 3
      BY <2>2
    <3> QED
      BY <2>1, <2>3, <3>1 DEF Laid
  <2>5. ASSUME NEW i \in 0 .. LedsPerStrip - 1, NEW c \in 1 .. 3
        PROVE  sent[PixelAt(i) + 1] = Ones /\ sent[PixelAt(i) + 1 + c] = drawn[i + 1][c]
    <3> DEFINE q == PixelAt(i)
    <3>1. q \in Nat /\ q + 4 <= FrameLength
      BY <2>2 DEF PixelAt
    <3>2. /\ spi_buffer[q] = Ones
          /\ spi_buffer[q + 1] = drawn[i + 1][1]
          /\ spi_buffer[q + 2] = drawn[i + 1][2]
          /\ spi_buffer[q + 3] = drawn[i + 1][3]
      BY <2>1 DEF Laid
    <3> HIDE DEF q
    <3>3. /\ q + 1 \in 1 .. FrameLength /\ (q + 1) - 1 = q
          /\ q + 1 + c \in 1 .. FrameLength /\ (q + 1 + c) - 1 = q + c
      BY <2>2, <3>1
    <3>4. spi_buffer[q + c] = drawn[i + 1][c]
      <4>1. c \in {1, 2, 3}
        OBVIOUS
      <4> QED
        BY <3>2, <4>1
    <3>5. sent[q + 1] = spi_buffer[q] /\ sent[q + 1 + c] = spi_buffer[q + c]
      BY <2>3, <3>3
    <3> QED
      BY <3>2, <3>4, <3>5 DEF q
  <2>6. \A i \in 0 .. LedsPerStrip - 1 :
          /\ sent[PixelAt(i) + 1] = Ones
          /\ \A c \in 1 .. 3 : sent[PixelAt(i) + 1 + c] = drawn[i + 1][c]
    <3>1. 1 \in 1 .. 3
      OBVIOUS
    <3> QED
      BY <2>5, <3>1
  <2>7. \A a \in Padding + 1 .. Len(sent) : sent[a] = Ones
    <3>1. \A a \in Padding + 1 .. FrameLength :
            a \in 1 .. FrameLength /\ a - 1 \in Padding .. FrameLength - 1
      BY <2>2
    <3> QED
      BY <2>1, <2>3, <3>1 DEF Laid
  <2>8. 2 * 8 * (Len(sent) - Padding) >= LedsPerStrip
    BY <2>2, <2>3
  <2> QED
    BY <2>3, <2>4, <2>6, <2>7, <2>8
<1> QED
  BY <1>1, Invariance, PTL

(* The level the dithering counts on is the one the LED gets.              *)
THEOREM DitheredIsSent == FrameSpec => []LedShowsOut
<1>1. IInv => LedShowsOut
  <2> SUFFICES ASSUME IInv, spi_pc = "begin", whole
               PROVE  sent[8] = <<"r", 0, out>>
    BY DEF LedShowsOut
  <2>1. Laid(LedsPerStrip) /\ Copied(FrameLength) /\ ShownInv
    BY DEF IInv, SpiInv
  <2>2. LedsPerStrip \in Nat \ {0} /\ FrameLength \in Nat /\ 8 <= FrameLength
    BY FrameFits
  <2>3. sent[8] = spi_buffer[7]
    <3>1. 8 \in 1 .. FrameLength /\ 8 - 1 = 7
      BY <2>2
    <3> QED
      BY <2>1, <3>1 DEF Copied
  <2>4. spi_buffer[7] = drawn[1][3]
    <3>1. 0 \in 0 .. LedsPerStrip - 1 /\ PixelAt(0) + 3 = 7 /\ 0 + 1 = 1
      BY <2>2 DEF PixelAt
    <3>2. spi_buffer[PixelAt(0) + 3] = drawn[0 + 1][3]
      BY <2>1, <3>1 DEF Laid
    <3> QED
      BY <3>1, <3>2
  <2>5. Len(drawn) > 0
    BY <2>1, <2>2 DEF Laid
  <2> QED
    BY <2>1, <2>3, <2>4, <2>5 DEF ShownInv
<1> QED
  BY <1>1, Invariance, PTL
=============================================================================
