------------------------- MODULE DemoSourcesProofs --------------------------
(***************************************************************************)
(* The proofs about who feeds the LEDs, for any length of the silence the  *)
(* demo waits for and any datagrams: remote data takes over from the demo, *)
(* what a datagram makes a frame of is its own, and the pictures of the    *)
(* fade differ by no more than the wheel turns and the brightness changes. *)
(***************************************************************************)
EXTENDS DemoSources, SequenceTheorems, TLAPS

DemoTypeOK ==
  /\ silence \in 0 .. LongAgo
  /\ demo_pc \in {"check", "send"}
  /\ demo_enabled \in BOOLEAN
  /\ late \in 0 .. MaxLate

(* Only one decision for the demo can be outstanding when remote data      *)
(* arrives, and no other one is made before LongAgo.                       *)
LateInv ==
  /\ late <= 1
  /\ demo_pc = "send" => late = 0 \/ silence = LongAgo

(* The demo is enabled in silence, or the silence has just been broken.    *)
EnabledInv == demo_enabled => silence = LongAgo \/ newest = "remote" \/ late > 0

UdpInv ==
  /\ buf \in [1 .. BufferSize -> Nat]
  /\ FrameIsOfOneDatagram

DemoInv == DemoTypeOK /\ LateInv /\ EnabledInv

-----------------------------------------------------------------------------
(* Division rounds down.                                                   *)
LEMMA DivBounds ==
  ASSUME NEW a \in Nat, NEW m \in Nat \ {0}
  PROVE  a \div m \in Nat /\ m * (a \div m) <= a /\ a < m * (a \div m) + m
  BY Z3

LEMMA LongAgoIsNat == LongAgo \in Nat
  BY DemoAssumption, Z3 DEF LongAgo

(* The demo is due only when the silence is as long as it is counted.      *)
LEMMA IdleIsLongAgo ==
  ASSUME DemoTypeOK, Idle
  PROVE  silence = LongAgo
<1> DEFINE q == silence \div Second
<1>1. Second \in Nat \ {0} /\ IdleSeconds \in Nat /\ silence \in Nat /\ LongAgo \in Nat
  BY DemoAssumption, LongAgoIsNat DEF DemoTypeOK
<1>2. q \in Nat /\ Second * q <= silence /\ q >= IdleSeconds + 1
  BY <1>1, DivBounds DEF Idle
<1> HIDE DEF q
<1>3. (IdleSeconds + 1) * Second <= Second * q
  BY <1>1, <1>2, Z3
<1>4. Second * q \in Nat
  BY <1>1, <1>2
<1> QED
  BY <1>1, <1>2, <1>3, <1>4 DEF DemoTypeOK, LongAgo

-----------------------------------------------------------------------------
LEMMA RemoteInvariant == DemoInv /\ RemoteFrame => DemoInv'
  BY LongAgoIsNat
     DEF DemoInv, DemoTypeOK, LateInv, EnabledInv, RemoteFrame, SetNextFrameData, MaxLate

LEMMA CheckInvariant == DemoInv /\ DemoChecks => DemoInv'
<1> SUFFICES ASSUME DemoInv, DemoChecks PROVE DemoInv'
  OBVIOUS
<1>1. demo_enabled' => silence = LongAgo
  BY IdleIsLongAgo DEF DemoChecks, DemoInv
<1>2. demo_enabled' \in BOOLEAN /\ demo_pc' \in {"check", "send"}
      /\ (demo_pc' = "send" => demo_enabled')
  BY DEF DemoChecks, Idle
<1>3. UNCHANGED <<silence, newest, late>>
  BY DEF DemoChecks
<1> QED
  BY <1>1, <1>2, <1>3 DEF DemoInv, DemoTypeOK, LateInv, EnabledInv

LEMMA SendInvariant == DemoInv /\ DemoSends => DemoInv'
<1> SUFFICES ASSUME DemoInv, DemoSends PROVE DemoInv'
  OBVIOUS
<1>1. demo_pc = "send" /\ demo_pc' = "check" /\ silence' = silence
      /\ demo_enabled' = demo_enabled
  BY DEF DemoSends, SetNextFrameData
<1>2. CASE silence = LongAgo
  <2>1. late' = 0
    BY <1>2 DEF DemoSends, CountLate
  <2> QED
    BY <1>1, <1>2, <2>1 DEF DemoInv, DemoTypeOK, LateInv, EnabledInv, MaxLate
<1>3. CASE silence # LongAgo
  <2>1. late = 0
    BY <1>1, <1>3 DEF DemoInv, LateInv
  <2>2. late' = 1
    BY <1>3, <2>1 DEF DemoSends, CountLate, MaxLate
  <2> QED
    BY <1>1, <2>2 DEF DemoInv, DemoTypeOK, LateInv, EnabledInv, MaxLate
<1> QED
  BY <1>2, <1>3

LEMMA TickInvariant == DemoInv /\ Tick => DemoInv'
  BY LongAgoIsNat DEF DemoInv, DemoTypeOK, LateInv, EnabledInv, Tick

LEMMA DemoInvInit == SourcesInit => DemoInv
<1> SUFFICES ASSUME SourcesInit PROVE DemoInv
  OBVIOUS
<1>1. silence = LongAgo /\ demo_pc = "check" /\ demo_enabled = FALSE /\ late = 0
  BY DEF SourcesInit, Init
<1>2. silence \in 0 .. LongAgo /\ late \in 0 .. MaxLate /\ late <= 1
  BY <1>1, LongAgoIsNat DEF MaxLate
<1> QED
  BY <1>1, <1>2 DEF DemoInv, DemoTypeOK, LateInv, EnabledInv

(* A step of the sources is one of DemoIdle, or does not concern it.       *)
LEMMA SourcesStep == [SourcesNext]_sourceVars => [Next]_vars
  BY DEF SourcesNext, UdpReceives, OthersReceive, DemoTurn, TimePasses,
         Next, sourceVars

LEMMA DemoInvNext == DemoInv /\ [Next]_vars => DemoInv'
<1>1. DemoInv /\ UNCHANGED vars => DemoInv'
  BY DEF vars, DemoInv, DemoTypeOK, LateInv, EnabledInv
<1> QED
  BY <1>1, RemoteInvariant, CheckInvariant, SendInvariant, TickInvariant DEF Next, Demo

LEMMA DemoInvariance == SourcesSpec => []DemoInv
<1>1. DemoInv /\ [SourcesNext]_sourceVars => DemoInv'
  BY SourcesStep, DemoInvNext
<1> QED
  BY <1>1, DemoInvInit, PTL DEF SourcesSpec

-----------------------------------------------------------------------------
(* What comes after a header, up to n.                                     *)
LEMMA AfterHeader ==
  ASSUME NEW s, NEW n \in Nat, n >= 2, \A k \in 3 .. n : s[k] \in Nat
  PROVE  /\ SubSeq(s, 3, n) \in Seq(Nat)
         /\ Len(SubSeq(s, 3, n)) = n - 2
         /\ \A i \in 1 .. n - 2 : SubSeq(s, 3, n)[i] = s[i + 2]
<1>1. 3 \in Int /\ n \in Int
  OBVIOUS
<1>2. /\ SubSeq(s, 3, n) \in Seq(Nat)
      /\ Len(SubSeq(s, 3, n)) = IF 3 <= n THEN n - 3 + 1 ELSE 0
      /\ \A i \in 1 .. n - 3 + 1 : SubSeq(s, 3, n)[i] = s[3 + i - 1]
  BY <1>1, SubSeqProperties
<1>3. (IF 3 <= n THEN n - 3 + 1 ELSE 0) = n - 2
  OBVIOUS
<1>4. \A i \in 1 .. n - 2 : i \in 1 .. n - 3 + 1 /\ 3 + i - 1 = i + 2
  OBVIOUS
<1> QED
  BY <1>2, <1>3, <1>4

(* What a complete datagram carries is a part of it alone.                 *)
LEMMA PayloadOfDatagram ==
  ASSUME UdpInv, NEW d \in Datagrams, Carries(d)
  PROVE  LET payload == Payload(Received(d))
         IN  /\ Len(d) >= HeaderSize /\ d[1] = SetPixels
             /\ Len(payload) = d[2]
             /\ IsPrefix(payload, SubSeq(d, 3, Len(d)))
             /\ payload # NoFrame => Len(d) > HeaderSize
<1> DEFINE received == Received(d)
           payload == Payload(received)
           rest == SubSeq(d, 3, Len(d))
<1>1. BufferSize \in Nat /\ d \in Seq(Nat) /\ Len(d) \in Nat /\ Len(d) <= BufferSize
  BY UdpAssumption
<1>2. \A k \in 1 .. Len(d) : received[k] = d[k] /\ d[k] \in Nat
  BY <1>1, ElementOfSeq DEF Received
<1>3. Len(d) >= 2 /\ Len(d) >= 2 + received[2] /\ received[1] = SetPixels
  BY DEF Carries, Complete, HeaderSize
<1> HIDE DEF received, payload
<1>4. received[2] = d[2] /\ d[2] \in Nat /\ d[1] = SetPixels
  <2>1. 1 \in 1 .. Len(d) /\ 2 \in 1 .. Len(d)
    BY <1>1, <1>3
  <2> QED
    BY <1>2, <1>3, <2>1
<1>5. payload = SubSeq(received, 3, 2 + d[2])
  BY <1>4 DEF Payload, HeaderSize, payload
<1>6. \A k \in 3 .. 2 + d[2] : received[k] \in Nat /\ received[k] = d[k]
  BY <1>1, <1>2, <1>3, <1>4
<1>7. /\ payload \in Seq(Nat)
      /\ Len(payload) = d[2]
      /\ \A i \in 1 .. d[2] : payload[i] = d[i + 2]
  <2>1. 2 + d[2] \in Nat /\ 2 + d[2] >= 2 /\ (2 + d[2]) - 2 = d[2]
    BY <1>4
  <2>2. \A k \in 3 .. 2 + d[2] : received[k] \in Nat
    BY <1>6
  <2>3. \A i \in 1 .. d[2] : i + 2 \in 3 .. 2 + d[2]
    BY <1>4
  <2>4. /\ payload \in Seq(Nat)
        /\ Len(payload) = d[2]
        /\ \A i \in 1 .. d[2] : payload[i] = received[i + 2]
    BY <1>5, <2>1, <2>2, AfterHeader
  <2> QED
    BY <1>6, <2>3, <2>4
<1>8. /\ rest \in Seq(Nat)
      /\ Len(rest) = Len(d) - 2
      /\ \A i \in 1 .. Len(d) - 2 : rest[i] = d[i + 2]
  <2>1. Len(d) \in Nat /\ Len(d) >= 2 /\ \A k \in 3 .. Len(d) : d[k] \in Nat
    <3>1. Len(d) >= 2
      BY <1>3
    <3>2. \A k \in 3 .. Len(d) : k \in 1 .. Len(d)
      BY <1>1
    <3> QED
      BY <1>1, <1>2, <3>1, <3>2
  <2> QED
    BY <2>1, AfterHeader
<1> HIDE DEF rest
<1>9. SubSeq(payload, 1, Len(payload)) = SubSeq(rest, 1, Len(payload))
  <2>1. Len(payload) \in 0 .. Len(rest) /\ Len(payload) \in Int /\ 1 \in Int
    BY <1>1, <1>3, <1>4, <1>7, <1>8
  <2>2. \A i \in 1 .. Len(payload) : payload[i] \in Nat /\ rest[i] \in Nat /\ payload[i] = rest[i]
    <3>1. \A i \in 1 .. Len(payload) : i \in 1 .. d[2] /\ i \in 1 .. Len(d) - 2
      BY <1>1, <1>3, <1>4, <1>7
    <3>2. \A i \in 1 .. Len(payload) : payload[i] \in Nat
      BY <1>7, ElementOfSeq
    <3> QED
      BY <1>7, <1>8, <3>1, <3>2
  <2>3. /\ SubSeq(payload, 1, Len(payload)) \in Seq(Nat)
        /\ Len(SubSeq(payload, 1, Len(payload)))
             = IF 1 <= Len(payload) THEN Len(payload) - 1 + 1 ELSE 0
        /\ \A i \in 1 .. Len(payload) - 1 + 1 :
             SubSeq(payload, 1, Len(payload))[i] = payload[1 + i - 1]
    BY <2>1, <2>2, SubSeqProperties
  <2>4. /\ SubSeq(rest, 1, Len(payload)) \in Seq(Nat)
        /\ Len(SubSeq(rest, 1, Len(payload)))
             = IF 1 <= Len(payload) THEN Len(payload) - 1 + 1 ELSE 0
        /\ \A i \in 1 .. Len(payload) - 1 + 1 :
             SubSeq(rest, 1, Len(payload))[i] = rest[1 + i - 1]
    BY <2>1, <2>2, SubSeqProperties
  <2>5. (IF 1 <= Len(payload) THEN Len(payload) - 1 + 1 ELSE 0) = Len(payload)
        /\ \A i \in 1 .. Len(payload) : i \in 1 .. Len(payload) - 1 + 1 /\ 1 + i - 1 = i
    BY <2>1
  <2>6. \A i \in 1 .. Len(payload) :
          SubSeq(payload, 1, Len(payload))[i] = SubSeq(rest, 1, Len(payload))[i]
    BY <2>2, <2>3, <2>4, <2>5
  <2> QED
    BY <2>3, <2>4, <2>5, <2>6, SeqEqual
<1>10. IsPrefix(payload, rest)
  <2>1. Len(payload) <= Len(rest)
    BY <1>1, <1>3, <1>4, <1>7, <1>8
  <2> QED
    BY <1>9, <2>1 DEF IsPrefix
<1>11. payload # NoFrame => Len(d) > 2
  <2>1. payload # << >> => Len(payload) \in Nat \ {0}
    BY <1>7, EmptySeq
  <2> QED
    BY <1>1, <1>3, <1>4, <1>7, <2>1 DEF NoFrame
<1> QED
  BY <1>1, <1>3, <1>4, <1>7, <1>10, <1>11 DEF received, payload, rest, HeaderSize

LEMMA UdpInvInit == SourcesInit => UdpInv
  BY UdpAssumption DEF SourcesInit, UdpInit, UdpInv, FrameIsOfOneDatagram

LEMMA UdpInvRecv ==
  ASSUME UdpInv, NEW d \in Datagrams, Recv(d)
  PROVE  UdpInv'
<1>1. BufferSize \in Nat /\ d \in Seq(Nat)
  BY UdpAssumption
<1>2. buf' \in [1 .. BufferSize -> Nat]
  BY <1>1, ElementOfSeq DEF Recv, Received, UdpInv
<1>3. CASE Carries(d)
  BY <1>2, <1>3, PayloadOfDatagram DEF Recv, UdpInv, FrameIsOfOneDatagram
<1>4. CASE ~Carries(d)
  BY <1>2, <1>4 DEF Recv, UdpInv, FrameIsOfOneDatagram
<1> QED
  BY <1>3, <1>4

LEMMA UdpInvNext == UdpInv /\ [SourcesNext]_sourceVars => UdpInv'
<1> SUFFICES ASSUME UdpInv, [SourcesNext]_sourceVars PROVE UdpInv'
  OBVIOUS
<1>1. CASE UNCHANGED udpVars
  BY <1>1 DEF udpVars, UdpInv, FrameIsOfOneDatagram
<1>2. CASE UdpReceives
  BY <1>2, UdpInvRecv DEF UdpReceives
<1> QED
  BY <1>1, <1>2 DEF SourcesNext, OthersReceive, DemoTurn, TimePasses, sourceVars

-----------------------------------------------------------------------------
(* Of the demo frames decided on before remote data arrived, at most one   *)
(* is stored after it.                                                     *)
THEOREM RemoteTakesOver == SourcesSpec => []OneLateDemoFrame
<1>1. DemoInv => OneLateDemoFrame
  BY DEF DemoInv, LateInv, OneLateDemoFrame
<1> QED
  BY <1>1, DemoInvariance, PTL

(* The demo ends for remote data only, and never by its own frames.        *)
THEOREM DemoEndsForRemote == SourcesSpec => DemoStopsForRemote
<1>1. DemoInv /\ [SourcesNext]_sourceVars
        => [demo_enabled /\ ~demo_enabled' => newest = "remote" \/ late > 0]_vars
  <2> SUFFICES ASSUME DemoInv, Next, demo_enabled, ~demo_enabled'
               PROVE  newest = "remote" \/ late > 0
    BY SourcesStep
  <2>1. DemoChecks /\ ~Idle
    <3>1. ~RemoteFrame /\ ~DemoSends /\ ~Tick
      BY DEF RemoteFrame, DemoSends, Tick
    <3>2. DemoChecks
      BY <3>1 DEF Next, Demo
    <3> QED
      BY <3>2 DEF DemoChecks
  <2>2. silence # LongAgo
    <3>1. LongAgo \div Second = IdleSeconds + 1
      BY DemoAssumption, Z3 DEF LongAgo
    <3> QED
      BY <2>1, <3>1, DemoAssumption DEF Idle
  <2> QED
    BY <2>2 DEF DemoInv, EnabledInv
<1> QED
  BY <1>1, DemoInvariance, PTL DEF SourcesSpec, DemoStopsForRemote

(* What is stored as a frame is what one datagram carried for it.          *)
THEOREM FramesOfDatagrams == SourcesSpec => []FrameIsOfOneDatagram
<1>1. UdpInv => FrameIsOfOneDatagram
  BY DEF UdpInv
<1> QED
  BY <1>1, UdpInvInit, UdpInvNext, PTL DEF SourcesSpec
-----------------------------------------------------------------------------
(* The fade. A channel that goes up or down a sector, n steps of the way.  *)
Rise(val, n) == (val * n) \div Sector

(* The colours of the wheel, n steps into sector s.                        *)
ColourAt(s, n, val) ==
  CASE s = 0 -> <<val, Rise(val, n), 0>>
    [] s = 1 -> <<Rise(val, Sector - n), val, 0>>
    [] s = 2 -> <<0, val, Rise(val, n)>>
    [] s = 3 -> <<0, Rise(val, Sector - n), val>>
    [] s = 4 -> <<Rise(val, n), 0, val>>
    [] s = 5 -> <<val, 0, Rise(val, Sector - n)>>

(* The same as one line around the wheel for each channel: how many of the *)
(* steps of a ramp it is up at each hue.                                   *)
Red(hue) ==
  IF hue < Sector THEN Sector ELSE IF hue < 2 * Sector THEN 2 * Sector - hue
  ELSE IF hue < 4 * Sector THEN 0 ELSE IF hue < 5 * Sector THEN hue - 4 * Sector ELSE Sector
Green(hue) ==
  IF hue < Sector THEN hue ELSE IF hue < 3 * Sector THEN Sector
  ELSE IF hue < 4 * Sector THEN 4 * Sector - hue ELSE 0
Blue(hue) ==
  IF hue < 2 * Sector THEN 0 ELSE IF hue < 3 * Sector THEN hue - 2 * Sector
  ELSE IF hue < 5 * Sector THEN Sector ELSE 6 * Sector - hue
Height(hue) == <<Red(hue), Green(hue), Blue(hue)>>

(* Two hues are within d degrees, one way round the wheel or the other.    *)
Within(hue, other, d) == Distance(hue, other) <= d \/ Wheel - Distance(hue, other) <= d

LEMMA SectorIsNat == Sector \in Nat \ {0} /\ Wheel \in Nat \ {0} /\ Wheel = 6 * Sector
  BY PictureAssumption DEF Wheel

LEMMA Cancel ==
  ASSUME NEW m \in Nat \ {0}, NEW a \in Int, NEW b \in Int, m * a < m * b
  PROVE  a < b
  BY Z3

(* A ramp begins dark, ends at the full value and stays between.           *)
LEMMA RiseBounds ==
  ASSUME NEW val \in Nat, NEW n \in 0 .. Sector
  PROVE  Rise(val, n) \in 0 .. val
<1> DEFINE d == Rise(val, n)
<1>1. Sector \in Nat \ {0} /\ n \in Nat /\ val * n \in Nat
  BY SectorIsNat
<1>2. d \in Nat /\ Sector * d <= val * n
  BY <1>1, DivBounds DEF Rise
<1> HIDE DEF d
<1>3. val * n <= Sector * val
  BY <1>1, Z3
<1>4. Sector * (val + 1) = Sector * val + Sector /\ Sector * val \in Int /\ Sector * d \in Int
  BY <1>1, <1>2, Z3
<1>5. d < val + 1
  BY <1>1, <1>2, <1>3, <1>4, Cancel
<1> QED
  BY <1>2, <1>5 DEF d

LEMMA RiseEnds ==
  ASSUME NEW val \in Nat
  PROVE  Rise(val, 0) = 0 /\ Rise(val, Sector) = val
<1>1. Sector \in Nat \ {0}
  BY SectorIsNat
<1>2. val * 0 = 0 /\ 0 \div Sector = 0
  BY <1>1, Z3
<1>3. (val * Sector) \div Sector = val
  <2> DEFINE d == (val * Sector) \div Sector
  <2>1. val * Sector \in Nat /\ Sector * val = val * Sector
    BY <1>1, Z3
  <2>2. d \in Nat /\ Sector * d <= Sector * val /\ Sector * val < Sector * d + Sector
    BY <1>1, <2>1, DivBounds
  <2> HIDE DEF d
  <2>3. /\ Sector * (val + 1) = Sector * val + Sector
        /\ Sector * (d + 1) = Sector * d + Sector
        /\ Sector * val \in Int /\ Sector * d \in Int
    BY <1>1, <2>2, Z3
  <2>4. d < val + 1
    BY <1>1, <2>2, <2>3, Cancel
  <2>5. val < d + 1
    BY <1>1, <2>2, <2>3, Cancel
  <2> QED
    BY <2>2, <2>4, <2>5 DEF d
<1> QED
  BY <1>2, <1>3 DEF Rise

(* Every hue is a number of steps into a sector.                           *)
LEMMA HueInSector ==
  ASSUME NEW hue \in 0 .. Wheel - 1
  PROVE  /\ hue \div Sector \in 0 .. 5
         /\ hue % Sector \in 0 .. Sector - 1
         /\ hue = Sector * (hue \div Sector) + (hue % Sector)
         /\ hue % Wheel = hue
<1> DEFINE s == hue \div Sector
<1>1. Sector \in Nat \ {0} /\ hue \in Nat /\ Wheel = 6 * Sector /\ Wheel \in Nat \ {0} /\ hue < Wheel
  BY SectorIsNat
<1>2. s \in Nat /\ Sector * s <= hue
  BY <1>1, DivBounds
<1>3. hue % Sector \in 0 .. Sector - 1 /\ hue = Sector * s + (hue % Sector)
  BY <1>1, Z3
<1> HIDE DEF s
<1>4. Sector * 6 = 6 * Sector /\ Sector * s \in Int
  BY <1>1, <1>2, Z3
<1>5. s < 6
  BY <1>1, <1>2, <1>4, Cancel
<1>6. hue % Wheel = hue
  BY <1>1, Z3
<1> QED
  BY <1>2, <1>3, <1>5, <1>6 DEF s

(* No ramp is cut down to a byte.                                          *)
LEMMA RampIsRise ==
  ASSUME NEW val \in 0 .. 255, NEW n \in 0 .. Sector
  PROVE  Ramp(n, 0, val) = Rise(val, n)
<1> DEFINE d == Rise(val, n)
<1>1. d \in 0 .. val
  BY RiseBounds
<1>2. val - 0 = val
  OBVIOUS
<1>3. Ramp(n, 0, val) = (d + 0) % 256
  BY <1>2 DEF Ramp, Byte, Rise
<1> HIDE DEF d
<1> QED
  BY <1>1, <1>3 DEF d

LEMMA HSBtoRGBIs ==
  ASSUME NEW hue \in 0 .. Wheel - 1, NEW val \in 0 .. 255
  PROVE  HSBtoRGB(hue, 255, val) = ColourAt(hue \div Sector, hue % Sector, val)
<1> DEFINE s == hue \div Sector
           r == hue % Sector
<1>1. /\ s \in 0 .. 5 /\ r \in 0 .. Sector - 1 /\ hue = Sector * s + r
      /\ (hue % Wheel) \div Sector = s
  BY HueInSector
<1>2. ((255 - 255) * val) \div 256 = 0
  OBVIOUS
<1> HIDE DEF s, r
<1>3. r \in 0 .. Sector /\ Sector - r \in 0 .. Sector /\ (s = 0 => hue = r)
  BY <1>1, SectorIsNat
<1>4. Ramp(r, 0, val) = Rise(val, r) /\ Ramp(Sector - r, 0, val) = Rise(val, Sector - r)
  BY <1>3, RampIsRise
<1>5. s = 0 => Ramp(hue, 0, val) = Rise(val, r)
  BY <1>3, <1>4
<1>6. s = 0 \/ s = 1 \/ s = 2 \/ s = 3 \/ s = 4 \/ s = 5
  BY <1>1
<1>7. HSBtoRGB(hue, 255, val) =
        CASE s = 0 -> <<val, Ramp(hue, 0, val), 0>>
          [] s = 1 -> <<Ramp(Sector - r, 0, val), val, 0>>
          [] s = 2 -> <<0, val, Ramp(r, 0, val)>>
          [] s = 3 -> <<0, Ramp(Sector - r, 0, val), val>>
          [] s = 4 -> <<Ramp(r, 0, val), 0, val>>
          [] s = 5 -> <<val, 0, Ramp(Sector - r, 0, val)>>
  BY <1>1, <1>2 DEF HSBtoRGB, r
<1> QED
  BY <1>4, <1>5, <1>6, <1>7 DEF ColourAt, s, r

LEMMA HeightIs ==
  ASSUME NEW s \in 0 .. 5, NEW r \in 0 .. Sector - 1, NEW hue \in Nat, hue = Sector * s + r
  PROVE  Height(hue) = CASE s = 0 -> <<Sector, r, 0>>
                         [] s = 1 -> <<Sector - r, Sector, 0>>
                         [] s = 2 -> <<0, Sector, r>>
                         [] s = 3 -> <<0, Sector - r, Sector>>
                         [] s = 4 -> <<r, 0, Sector>>
                         [] s = 5 -> <<Sector, 0, Sector - r>>
<1>1. Sector \in Nat \ {0} /\ r \in Nat /\ r < Sector
  BY SectorIsNat
<1>2. /\ Sector * 0 = 0 /\ Sector * 1 = Sector /\ Sector * 2 = 2 * Sector
      /\ Sector * 3 = 3 * Sector /\ Sector * 4 = 4 * Sector /\ Sector * 5 = 5 * Sector
  BY <1>1, Z3
<1>3. CASE s = 0
  <2>1. Red(hue) = Sector /\ Green(hue) = r /\ Blue(hue) = 0
    BY <1>1, <1>2, <1>3 DEF Red, Green, Blue
  <2> QED
    BY <1>3, <2>1 DEF Height
<1>4. CASE s = 1
  <2>1. Red(hue) = Sector - r /\ Green(hue) = Sector /\ Blue(hue) = 0
    BY <1>1, <1>2, <1>4 DEF Red, Green, Blue
  <2> QED
    BY <1>4, <2>1 DEF Height
<1>5. CASE s = 2
  <2>1. Red(hue) = 0 /\ Green(hue) = Sector /\ Blue(hue) = r
    BY <1>1, <1>2, <1>5 DEF Red, Green, Blue
  <2> QED
    BY <1>5, <2>1 DEF Height
<1>6. CASE s = 3
  <2>1. Red(hue) = 0 /\ Green(hue) = Sector - r /\ Blue(hue) = Sector
    BY <1>1, <1>2, <1>6 DEF Red, Green, Blue
  <2> QED
    BY <1>6, <2>1 DEF Height
<1>7. CASE s = 4
  <2>1. Red(hue) = r /\ Green(hue) = 0 /\ Blue(hue) = Sector
    BY <1>1, <1>2, <1>7 DEF Red, Green, Blue
  <2> QED
    BY <1>7, <2>1 DEF Height
<1>8. CASE s = 5
  <2>1. Red(hue) = Sector /\ Green(hue) = 0 /\ Blue(hue) = Sector - r
    BY <1>1, <1>2, <1>8 DEF Red, Green, Blue
  <2> QED
    BY <1>8, <2>1 DEF Height
<1> QED
  BY <1>3, <1>4, <1>5, <1>6, <1>7, <1>8

(* A channel goes up and down the wheel by at most a step of the ramp per  *)
(* degree, over the joints of the sectors and where the wheel closes.      *)
LEMMA HeightIsSteady ==
  ASSUME NEW hue \in 0 .. Wheel - 1, NEW other \in 0 .. Wheel - 1, NEW c \in 1 .. 3,
         NEW d \in Nat, Within(hue, other, d)
  PROVE  /\ Height(hue)[c] \in 0 .. Sector /\ Height(other)[c] \in 0 .. Sector
         /\ Distance(Height(hue)[c], Height(other)[c]) <= d
<1>1. /\ Sector \in Nat \ {0} /\ hue \in Nat /\ other \in Nat
      /\ hue < 6 * Sector /\ other < 6 * Sector
  BY SectorIsNat
<1>2. Distance(hue, other) <= d \/ 6 * Sector - Distance(hue, other) <= d
  BY SectorIsNat DEF Within
<1>3. /\ Red(hue) \in 0 .. Sector /\ Red(other) \in 0 .. Sector
      /\ Distance(Red(hue), Red(other)) <= d
  BY <1>1, <1>2 DEF Red, Distance
<1>4. /\ Green(hue) \in 0 .. Sector /\ Green(other) \in 0 .. Sector
      /\ Distance(Green(hue), Green(other)) <= d
  BY <1>1, <1>2 DEF Green, Distance
<1>5. /\ Blue(hue) \in 0 .. Sector /\ Blue(other) \in 0 .. Sector
      /\ Distance(Blue(hue), Blue(other)) <= d
  BY <1>1, <1>2 DEF Blue, Distance
<1>6. c = 1 \/ c = 2 \/ c = 3
  OBVIOUS
<1> QED
  BY <1>3, <1>4, <1>5, <1>6 DEF Height

(* Two points of a ramp, at two brightnesses, are no further apart than    *)
(* the steps between them and the brightness account for.                  *)
LEMMA RiseMoves ==
  ASSUME NEW val \in Nat, NEW new \in Nat, NEW m \in 0 .. Sector, NEW n \in 0 .. Sector,
         NEW d \in Nat, Distance(m, n) <= d
  PROVE  Distance(Rise(val, m), Rise(new, n)) <= (d * val) \div Sector + Distance(val, new) + 1
<1> DEFINE a == Rise(val, m)
           b == Rise(new, n)
           q == (d * val) \div Sector
           e == Distance(val, new)
<1>1. Sector \in Nat \ {0} /\ m \in Nat /\ n \in Nat /\ m <= n + d /\ n <= m + d /\ n <= Sector
  BY SectorIsNat DEF Distance
<1>2. e \in Nat /\ val <= new + e /\ new <= val + e
  BY DEF Distance
<1>3. val * m \in Nat /\ new * n \in Nat /\ d * val \in Nat /\ val * n \in Nat
  BY <1>1, Z3
<1>4. a \in Nat /\ Sector * a <= val * m /\ val * m < Sector * a + Sector
  BY <1>1, <1>3, DivBounds DEF Rise
<1>5. b \in Nat /\ Sector * b <= new * n /\ new * n < Sector * b + Sector
  BY <1>1, <1>3, DivBounds DEF Rise
<1>6. q \in Nat /\ d * val < Sector * q + Sector
  BY <1>1, <1>3, DivBounds
<1> HIDE DEF a, b, q, e
<1>7. e * n <= Sector * e /\ Sector * e \in Nat /\ e * n \in Nat
  BY <1>1, <1>2, Z3
<1>8. val * m <= val * n + d * val /\ val * n <= val * m + d * val
  <2>1. val * m <= val * (n + d) /\ val * n <= val * (m + d)
    BY <1>1, Z3
  <2>2. val * (n + d) = val * n + d * val /\ val * (m + d) = val * m + d * val
    BY <1>1, Z3
  <2> QED
    BY <2>1, <2>2
<1>9. val * n <= new * n + e * n /\ new * n <= val * n + e * n
  <2>1. val * n <= (new + e) * n /\ new * n <= (val + e) * n
    BY <1>1, <1>2, Z3
  <2>2. (new + e) * n = new * n + e * n /\ (val + e) * n = val * n + e * n
    BY <1>1, <1>2, Z3
  <2> QED
    BY <2>1, <2>2
<1>10. /\ Sector * a \in Int /\ Sector * b \in Int /\ Sector * q \in Int
       /\ Sector * (b + e + q + 2) = Sector * b + Sector * e + Sector * q + Sector + Sector
       /\ Sector * (a + e + q + 2) = Sector * a + Sector * e + Sector * q + Sector + Sector
  BY <1>1, <1>2, <1>4, <1>5, <1>6, Z3
<1>11. Sector * a < Sector * (b + e + q + 2)
  BY <1>1, <1>3, <1>4, <1>5, <1>6, <1>7, <1>8, <1>9, <1>10
<1>12. Sector * b < Sector * (a + e + q + 2)
  BY <1>1, <1>3, <1>4, <1>5, <1>6, <1>7, <1>8, <1>9, <1>10
<1>13. a < b + e + q + 2
  <2>1. b + e + q + 2 \in Int
    BY <1>2, <1>5, <1>6
  <2> QED
    BY <1>1, <1>4, <1>11, <2>1, Cancel
<1>14. b < a + e + q + 2
  <2>1. a + e + q + 2 \in Int
    BY <1>2, <1>4, <1>6
  <2> QED
    BY <1>1, <1>5, <1>12, <2>1, Cancel
<1>15. Distance(a, b) <= q + e + 1
  BY <1>2, <1>4, <1>5, <1>6, <1>13, <1>14 DEF Distance
<1> QED
  BY <1>15 DEF a, b, q, e

(* Every channel of a colour is a ramp, up to the height at its hue.       *)
LEMMA ChannelIsRise ==
  ASSUME NEW hue \in 0 .. Wheel - 1, NEW val \in 0 .. 255, NEW c \in 1 .. 3
  PROVE  HSBtoRGB(hue, 255, val)[c] = Rise(val, Height(hue)[c])
<1> DEFINE s == hue \div Sector
           r == hue % Sector
<1>1. s \in 0 .. 5 /\ r \in 0 .. Sector - 1 /\ hue = Sector * s + r
  BY HueInSector
<1>2. HSBtoRGB(hue, 255, val) = ColourAt(s, r, val)
  BY HSBtoRGBIs
<1>3. hue \in Nat /\ val \in Nat
  BY SectorIsNat
<1> HIDE DEF s, r
<1>4. Rise(val, 0) = 0 /\ Rise(val, Sector) = val
  BY <1>3, RiseEnds
<1>5. Height(hue) = CASE s = 0 -> <<Sector, r, 0>>
                      [] s = 1 -> <<Sector - r, Sector, 0>>
                      [] s = 2 -> <<0, Sector, r>>
                      [] s = 3 -> <<0, Sector - r, Sector>>
                      [] s = 4 -> <<r, 0, Sector>>
                      [] s = 5 -> <<Sector, 0, Sector - r>>
  BY <1>1, <1>3, HeightIs
<1>6. s = 0 \/ s = 1 \/ s = 2 \/ s = 3 \/ s = 4 \/ s = 5
  BY <1>1
<1>7. c = 1 \/ c = 2 \/ c = 3
  OBVIOUS
<1> QED
  BY <1>2, <1>4, <1>5, <1>6, <1>7 DEF ColourAt

(* No colour moves further than d degrees of the wheel and the change of   *)
(* the brightness move it.                                                 *)
MovesLittle(hue, other, d, val, new) ==
  \A c \in 1 .. 3 :
    Distance(HSBtoRGB(hue, 255, val)[c], HSBtoRGB(other, 255, new)[c])
      <= (d * val) \div Sector + Distance(val, new) + 1

LEMMA ColoursMove ==
  ASSUME NEW hue \in 0 .. Wheel - 1, NEW other \in 0 .. Wheel - 1, NEW d \in Nat,
         Within(hue, other, d), NEW val \in 0 .. 255, NEW new \in 0 .. 255
  PROVE  MovesLittle(hue, other, d, val, new)
<1> SUFFICES ASSUME NEW c \in 1 .. 3
             PROVE  Distance(HSBtoRGB(hue, 255, val)[c], HSBtoRGB(other, 255, new)[c])
                      <= (d * val) \div Sector + Distance(val, new) + 1
  BY DEF MovesLittle
<1>1. HSBtoRGB(hue, 255, val)[c] = Rise(val, Height(hue)[c])
  BY ChannelIsRise
<1>2. HSBtoRGB(other, 255, new)[c] = Rise(new, Height(other)[c])
  BY ChannelIsRise
<1> DEFINE m == Height(hue)[c]
           n == Height(other)[c]
<1>3. m \in 0 .. Sector /\ n \in 0 .. Sector /\ Distance(m, n) <= d
  BY HeightIsSteady
<1>4. val \in Nat /\ new \in Nat
  OBVIOUS
<1> HIDE DEF m, n
<1>5. Distance(Rise(val, m), Rise(new, n)) <= (d * val) \div Sector + Distance(val, new) + 1
  BY <1>3, <1>4, RiseMoves
<1> QED
  BY <1>1, <1>2, <1>5 DEF m, n

-----------------------------------------------------------------------------
(* The hue and the brightness of a pixel at an index.                      *)
HueAt(i, p, strip) == (i + ((p + strip * PictureLeds) * Wheel) \div (PictureLeds * 10)) % Wheel
BrightnessAt(i, p, strip) ==
  BaseBrightness -
    ((i \div 10 + (p * BrightnessChange) \div PictureLeds + strip * 10) % BrightnessChange)

LEMMA PixelOffsets ==
  ASSUME NEW p \in 0 .. PictureLeds - 1, NEW strip \in 0 .. PictureStrips - 1
  PROVE  /\ ((p + strip * PictureLeds) * Wheel) \div (PictureLeds * 10) \in Nat
         /\ (p * BrightnessChange) \div PictureLeds + strip * 10 \in Nat
<1>1. /\ PictureLeds \in Nat \ {0} /\ p \in Nat /\ strip \in Nat /\ Wheel \in Nat \ {0}
      /\ BrightnessChange \in Nat
  BY PictureAssumption, SectorIsNat
<1>2. /\ (p + strip * PictureLeds) * Wheel \in Nat /\ PictureLeds * 10 \in Nat \ {0}
      /\ p * BrightnessChange \in Nat
  BY <1>1, Z3
<1>3. ((p + strip * PictureLeds) * Wheel) \div (PictureLeds * 10) \in Nat
  BY <1>2, DivBounds
<1>4. (p * BrightnessChange) \div PictureLeds \in Nat
  BY <1>1, <1>2, DivBounds
<1> QED
  BY <1>1, <1>3, <1>4

(* A number of degrees further on the wheel, as near as to a whole turn.   *)
LEMMA TurnedBy ==
  ASSUME NEW x \in Nat, NEW t \in Nat
  PROVE  /\ x % Wheel \in 0 .. Wheel - 1 /\ (x + t) % Wheel \in 0 .. Wheel - 1
         /\ FromZero(t) \in Nat
         /\ Within(x % Wheel, (x + t) % Wheel, FromZero(t))
         /\ Within((x + t) % Wheel, x % Wheel, FromZero(t))
<1> DEFINE u == x % Wheel
           v == (x + t) % Wheel
           g == t % Wheel
           a == x \div Wheel
           b == (x + t) \div Wheel
           e == t \div Wheel
<1>1. Wheel \in Nat \ {0}
  BY SectorIsNat
<1>2. u \in 0 .. Wheel - 1 /\ a \in Nat /\ x = Wheel * a + u
  BY <1>1, Z3
<1>3. v \in 0 .. Wheel - 1 /\ b \in Nat /\ x + t = Wheel * b + v
  BY <1>1, Z3
<1>4. g \in 0 .. Wheel - 1 /\ e \in Nat /\ t = Wheel * e + g
  BY <1>1, Z3
<1>5. FromZero(t) = IF 2 * g <= Wheel THEN g ELSE Wheel - g
  BY DEF FromZero
<1> HIDE DEF u, v, g, a, b, e
<1>6. /\ Wheel * (a + e - b) = Wheel * a + Wheel * e - Wheel * b
      /\ Wheel * a \in Int /\ Wheel * b \in Int /\ Wheel * e \in Int
      /\ Wheel * (-2) = -(Wheel + Wheel) /\ Wheel * 1 = Wheel
  BY <1>1, <1>2, <1>3, <1>4, Z3
<1>7. Wheel * (a + e - b) = v - u - g
  BY <1>1, <1>2, <1>3, <1>4, <1>6
<1>8. a + e - b \in Int /\ -2 \in Int /\ 1 \in Int
  BY <1>2, <1>3, <1>4
<1>9. Wheel * (-2) < Wheel * (a + e - b) /\ Wheel * (a + e - b) < Wheel * 1
  BY <1>1, <1>2, <1>3, <1>4, <1>6, <1>7
<1>10. -2 < a + e - b
  BY <1>1, <1>8, <1>9, Cancel
<1>11. a + e - b < 1
  BY <1>1, <1>8, <1>9, Cancel
<1>12. a + e - b = 0 \/ a + e - b = -1
  BY <1>8, <1>10, <1>11
<1>13. v - u = g \/ v - u = g - Wheel
  <2>1. Wheel * 0 = 0 /\ Wheel * (-1) = -Wheel
    BY <1>1, Z3
  <2> QED
    BY <1>1, <1>2, <1>3, <1>4, <1>7, <1>12, <2>1
<1>14. Within(u, v, FromZero(t)) /\ Within(v, u, FromZero(t)) /\ FromZero(t) \in Nat
  BY <1>1, <1>2, <1>3, <1>4, <1>5, <1>13 DEF Within, Distance
<1> QED
  BY <1>2, <1>3, <1>14 DEF u, v

LEMMA Successor ==
  ASSUME NEW x \in Nat, NEW n \in Nat \ {0}
  PROVE  (x + 1) % n = (x % n) + 1 \/ (x + 1) % n = 0
<1>1. x % n \in 0 .. n - 1 /\ x = n * (x \div n) + (x % n) /\ x \div n \in Nat
  BY Z3
<1> DEFINE a == x \div n
           u == x % n
<1> HIDE DEF a, u
<1>2. u \in 0 .. n - 1 /\ x = n * a + u /\ a \in Nat
  BY <1>1 DEF a, u
<1>3. CASE u + 1 < n
  <2>1. (n * a + (u + 1)) % n = u + 1
    BY <1>2, <1>3, Z3
  <2>2. n * a \in Nat /\ x + 1 = n * a + (u + 1)
    BY <1>2
  <2> QED
    BY <2>1, <2>2 DEF u
<1>4. CASE u + 1 = n
  <2>1. (n * (a + 1)) % n = 0 /\ n * (a + 1) = n * a + n /\ n * a \in Nat
    BY <1>2, Z3
  <2>2. x + 1 = n * (a + 1)
    BY <1>2, <1>4, <2>1
  <2> QED
    BY <2>1, <2>2
<1> QED
  BY <1>2, <1>3, <1>4

(* The brightness falls by at most a level, or starts anew.                *)
LEMMA BrightnessSteps ==
  ASSUME NEW i \in Nat, NEW j \in Nat,
         NEW p \in 0 .. PictureLeds - 1, NEW strip \in 0 .. PictureStrips - 1
  PROVE  /\ BrightnessAt(i, p, strip) \in 0 .. 255
         /\ j = i + 3 /\ BrightnessAt(j, p, strip) <= BrightnessAt(i, p, strip)
              => Distance(BrightnessAt(i, p, strip), BrightnessAt(j, p, strip)) <= 1
<1> DEFINE k == (p * BrightnessChange) \div PictureLeds + strip * 10
           x == i \div 10 + k
           y == j \div 10 + k
           m == x % BrightnessChange
           n == y % BrightnessChange
<1>1. /\ BrightnessChange \in Nat \ {0} /\ BaseBrightness \in Nat
      /\ BrightnessChange <= BaseBrightness /\ BaseBrightness <= 255
  BY PictureAssumption
<1>2. k \in Nat
  BY PixelOffsets
<1>3. i \div 10 \in Nat /\ j \div 10 \in Nat
  BY DivBounds
<1>4. (i \div 10 + (p * BrightnessChange) \div PictureLeds + strip * 10) = x
      /\ (j \div 10 + (p * BrightnessChange) \div PictureLeds + strip * 10) = y
  <2> DEFINE f == (p * BrightnessChange) \div PictureLeds
  <2>1. f \in Nat /\ strip \in Nat
    <3>1. PictureLeds \in Nat \ {0} /\ p * BrightnessChange \in Nat /\ strip \in Nat
      BY <1>1, PictureAssumption, Z3
    <3> QED
      BY <3>1, DivBounds
  <2> HIDE DEF f
  <2>2. i \div 10 + f + strip * 10 = i \div 10 + (f + strip * 10)
        /\ j \div 10 + f + strip * 10 = j \div 10 + (f + strip * 10)
    BY <1>3, <2>1
  <2> QED
    BY <2>2 DEF f
<1>5. BrightnessAt(i, p, strip) = BaseBrightness - m /\ BrightnessAt(j, p, strip) = BaseBrightness - n
  BY <1>4 DEF BrightnessAt
<1> HIDE DEF k
<1>6. j = i + 3 => y = x \/ y = x + 1
  <2>1. j = i + 3 => j \div 10 = i \div 10 \/ j \div 10 = i \div 10 + 1
    BY Z3
  <2> QED
    BY <1>2, <1>3, <2>1
<1>7. x \in Nat /\ y \in Nat
  BY <1>2, <1>3
<1> HIDE DEF x, y
<1>8. m \in 0 .. BrightnessChange - 1 /\ n \in 0 .. BrightnessChange - 1
  BY <1>1, <1>7, Z3
<1>9. y = x + 1 => n = m + 1 \/ n = 0
  BY <1>1, <1>7, Successor DEF m, n
<1>10. j = i + 3 => n = m \/ n = m + 1 \/ n = 0
  BY <1>6, <1>9
<1> HIDE DEF m, n
<1> QED
  BY <1>1, <1>5, <1>8, <1>10 DEF Distance

(* The index goes on by three or wraps, the wheel with it.                 *)
LEMMA HueSteps ==
  ASSUME NEW i \in 0 .. IndexMod - 1, NEW j \in 0 .. IndexMod - 1, j = (i + 3) % IndexMod,
         NEW p \in 0 .. PictureLeds - 1, NEW strip \in 0 .. PictureStrips - 1,
         NEW turned, turned = IF j < i THEN FromZero(IndexMod - 3) ELSE 3
  PROVE  /\ HueAt(i, p, strip) \in 0 .. Wheel - 1 /\ HueAt(j, p, strip) \in 0 .. Wheel - 1
         /\ turned \in Nat
         /\ Within(HueAt(i, p, strip), HueAt(j, p, strip), turned)
         /\ j = i + 3 \/ j < i
<1> DEFINE q == ((p + strip * PictureLeds) * Wheel) \div (PictureLeds * 10)
<1>1. q \in Nat
  BY PixelOffsets
<1>2. HueAt(i, p, strip) = (i + q) % Wheel /\ HueAt(j, p, strip) = (j + q) % Wheel
  BY DEF HueAt
<1> HIDE DEF q
<1>3. IndexMod \in Nat /\ IndexMod > 3 /\ i \in Nat /\ j \in Nat /\ i < IndexMod
  BY PictureAssumption
<1>4. j = i + 3 \/ j = i + 3 - IndexMod
  BY <1>3, Z3
<1>5. CASE j = i + 3
  <2>1. turned = 3 /\ i + q \in Nat /\ j + q = (i + q) + 3
    BY <1>1, <1>3, <1>5
  <2>2. FromZero(3) <= 3 /\ FromZero(3) \in Nat
    <3>1. 3 % Wheel = 3 /\ Wheel \in Nat /\ Wheel >= 6
      <4>1. Wheel \in Nat /\ Wheel >= 6
        BY SectorIsNat
      <4> QED
        BY <4>1, Z3
    <3> QED
      BY <3>1 DEF FromZero
  <2>3. /\ (i + q) % Wheel \in 0 .. Wheel - 1 /\ (j + q) % Wheel \in 0 .. Wheel - 1
        /\ Within((i + q) % Wheel, (j + q) % Wheel, FromZero(3))
    BY <2>1, TurnedBy
  <2> DEFINE u == (i + q) % Wheel
             v == (j + q) % Wheel
  <2> HIDE DEF u, v
  <2>4. Within(u, v, 3)
    <3>1. u \in 0 .. Wheel - 1 /\ v \in 0 .. Wheel - 1 /\ Within(u, v, FromZero(3))
      BY <2>3 DEF u, v
    <3> QED
      BY <2>2, <3>1, SectorIsNat DEF Within, Distance
  <2> QED
    BY <1>2, <1>5, <2>1, <2>3, <2>4 DEF u, v
<1>6. CASE j = i + 3 - IndexMod
  <2>1. j < i /\ turned = FromZero(IndexMod - 3) /\ IndexMod - 3 \in Nat /\ j + q \in Nat
        /\ i + q = (j + q) + (IndexMod - 3)
    BY <1>1, <1>3, <1>6
  <2>2. /\ (i + q) % Wheel \in 0 .. Wheel - 1 /\ (j + q) % Wheel \in 0 .. Wheel - 1
        /\ FromZero(IndexMod - 3) \in Nat
        /\ Within((i + q) % Wheel, (j + q) % Wheel, FromZero(IndexMod - 3))
    BY <2>1, TurnedBy
  <2> QED
    BY <1>2, <2>1, <2>2
<1> QED
  BY <1>4, <1>5, <1>6

(* What FadeStepsAreSmall says of a step of the index.                     *)
SmallStep(i, j, p, strip) ==
  LET turned == IF j < i THEN FromZero(IndexMod - 3) ELSE 3
      bright == BrightnessAt(i, p, strip)
      new == BrightnessAt(j, p, strip)
      change == Distance(bright, new)
      now == HSBtoRGB(HueAt(i, p, strip), 255, bright)
      next == HSBtoRGB(HueAt(j, p, strip), 255, new)
  IN  /\ j < i \/ new > bright \/ change <= 1
      /\ \A c \in 1 .. 3 : Distance(now[c], next[c]) <= (turned * bright) \div Sector + change + 1

LEMMA StepIsSmall ==
  ASSUME NEW i \in 0 .. IndexMod - 1, NEW j \in 0 .. IndexMod - 1, j = (i + 3) % IndexMod,
         NEW p \in 0 .. PictureLeds - 1, NEW strip \in 0 .. PictureStrips - 1
  PROVE  SmallStep(i, j, p, strip)
<1> DEFINE turned == IF j < i THEN FromZero(IndexMod - 3) ELSE 3
           bright == BrightnessAt(i, p, strip)
           new == BrightnessAt(j, p, strip)
           hue == HueAt(i, p, strip)
           other == HueAt(j, p, strip)
<1>1. /\ hue \in 0 .. Wheel - 1 /\ other \in 0 .. Wheel - 1 /\ turned \in Nat
      /\ Within(hue, other, turned) /\ (j = i + 3 \/ j < i)
  BY HueSteps
<1>2. i \in Nat /\ j \in Nat
  OBVIOUS
<1>3. bright \in 0 .. 255 /\ new \in 0 .. 255
      /\ (j = i + 3 /\ new <= bright => Distance(bright, new) <= 1)
  BY <1>2, BrightnessSteps
<1> HIDE DEF turned, bright, new, hue, other
<1>4. j < i \/ new > bright \/ Distance(bright, new) <= 1
  BY <1>1, <1>3
<1>5. MovesLittle(hue, other, turned, bright, new)
  BY <1>1, <1>3, ColoursMove
<1> QED
  BY <1>4, <1>5 DEF SmallStep, MovesLittle, turned, bright, new, hue, other

-----------------------------------------------------------------------------
IndexInv == frame_index \in 0 .. IndexMod - 1

LEMMA IndexNext == [SourcesNext]_sourceVars => frame_index' = frame_index \/ NextIndex
  BY DEF SourcesNext, UdpReceives, OthersReceive, DemoTurn, TimePasses, sourceVars

LEMMA IndexInvariance == SourcesSpec => []IndexInv
<1>1. SourcesInit => IndexInv
  BY PictureAssumption DEF SourcesInit, IndexInv
<1>2. IndexInv /\ [SourcesNext]_sourceVars => IndexInv'
  <2> SUFFICES ASSUME IndexInv, [SourcesNext]_sourceVars PROVE frame_index' \in 0 .. IndexMod - 1
    BY DEF IndexInv
  <2>1. CASE frame_index' = frame_index
    BY <2>1 DEF IndexInv
  <2>2. CASE NextIndex
    BY <2>2, PictureAssumption, Z3 DEF NextIndex, IndexInv
  <2> QED
    BY <2>1, <2>2, IndexNext
<1> QED
  BY <1>1, <1>2, PTL DEF SourcesSpec

(* From one picture of the fade to the next no colour moves by more than   *)
(* the wheel turns and the brightness changes, for every length of a       *)
(* sector, range of the brightness, size of the strips and width of the    *)
(* index; but where the brightness starts anew or the index wraps that is  *)
(* three steps of the ramp and one of the brightness.                      *)
THEOREM FadeStepsStaySmall == SourcesSpec => FadeStepsAreSmall
<1>1. ASSUME IndexInv, IndexInv', [SourcesNext]_sourceVars, frame_index' # frame_index,
             NEW p \in 0 .. PictureLeds - 1, NEW strip \in 0 .. PictureStrips - 1
      PROVE  SmallStep(frame_index, frame_index', p, strip)
  <2>1. frame_index' = (frame_index + 3) % IndexMod
    BY <1>1, IndexNext DEF NextIndex
  <2> QED
    BY <1>1, <2>1, StepIsSmall DEF IndexInv
<1>2. ASSUME NEW p \in 0 .. PictureLeds - 1, NEW strip \in 0 .. PictureStrips - 1
      PROVE  /\ Brightness(p, strip) = BrightnessAt(frame_index, p, strip)
             /\ Brightness(p, strip)' = BrightnessAt(frame_index', p, strip)
             /\ Picture("fade")[<<p, strip>>]
                  = HSBtoRGB(HueAt(frame_index, p, strip), 255, BrightnessAt(frame_index, p, strip))
             /\ Picture("fade")'[<<p, strip>>]
                  = HSBtoRGB(HueAt(frame_index', p, strip), 255, BrightnessAt(frame_index', p, strip))
  <2>1. /\ Brightness(p, strip) = BrightnessAt(frame_index, p, strip)
        /\ Brightness(p, strip)' = BrightnessAt(frame_index', p, strip)
        /\ Hue(p, strip) = HueAt(frame_index, p, strip)
        /\ Hue(p, strip)' = HueAt(frame_index', p, strip)
    BY DEF Brightness, BrightnessAt, Hue, HueAt
  <2>2. <<p, strip>> \in Pixels
    BY DEF Pixels
  <2>3. Picture("fade")[<<p, strip>>] = Fade(p, strip) /\ Picture("fade")'[<<p, strip>>] = Fade(p, strip)'
    BY <2>2 DEF Picture
  <2> QED
    BY <2>1, <2>3 DEF Fade
<1>3. IndexInv /\ IndexInv' /\ [SourcesNext]_sourceVars => [frame_index' # frame_index =>
        LET now == Picture("fade")
            next == Picture("fade")'
            wraps == frame_index' < frame_index
            turned == IF wraps THEN FromZero(IndexMod - 3) ELSE 3
        IN  \A p \in 0 .. PictureLeds - 1, strip \in 0 .. PictureStrips - 1 :
              LET bright == Brightness(p, strip)
                  change == Distance(bright, Brightness(p, strip)')
                  most == (turned * bright) \div Sector + change + 1
              IN  /\ wraps \/ Brightness(p, strip)' > bright \/ change <= 1
                  /\ \A c \in 1 .. 3 : Distance(now[<<p, strip>>][c], next[<<p, strip>>][c]) <= most]_sourceVars
  <2> SUFFICES ASSUME IndexInv, IndexInv', [SourcesNext]_sourceVars, frame_index' # frame_index,
                      NEW p \in 0 .. PictureLeds - 1, NEW strip \in 0 .. PictureStrips - 1
               PROVE  LET wraps == frame_index' < frame_index
                          turned == IF wraps THEN FromZero(IndexMod - 3) ELSE 3
                          bright == Brightness(p, strip)
                          change == Distance(bright, Brightness(p, strip)')
                          most == (turned * bright) \div Sector + change + 1
                      IN  /\ wraps \/ Brightness(p, strip)' > bright \/ change <= 1
                          /\ \A c \in 1 .. 3 :
                               Distance(Picture("fade")[<<p, strip>>][c], Picture("fade")'[<<p, strip>>][c])
                                 <= most
    OBVIOUS
  <2>1. SmallStep(frame_index, frame_index', p, strip)
    BY <1>1
  <2>2. /\ Brightness(p, strip) = BrightnessAt(frame_index, p, strip)
        /\ Brightness(p, strip)' = BrightnessAt(frame_index', p, strip)
        /\ Picture("fade")[<<p, strip>>]
             = HSBtoRGB(HueAt(frame_index, p, strip), 255, BrightnessAt(frame_index, p, strip))
        /\ Picture("fade")'[<<p, strip>>]
             = HSBtoRGB(HueAt(frame_index', p, strip), 255, BrightnessAt(frame_index', p, strip))
    BY <1>2
  <2> QED
    BY <2>1, <2>2 DEF SmallStep
<1> QED
  BY <1>3, IndexInvariance, PTL DEF SourcesSpec, FadeStepsAreSmall
=============================================================================
