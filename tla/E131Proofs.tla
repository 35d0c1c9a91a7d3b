----------------------------- MODULE E131Proofs -----------------------------
(***************************************************************************)
(* The proofs about the E1.31 thread, for every width of the sequence      *)
(* number, every window and every delay of the network.                    *)
(*                                                                         *)
(* A fresh packet is accepted: the packet accepted last was sent at most   *)
(* MaxDelay before the newest accepted one, so a fresh packet is less than *)
(* SeqMod - Window ahead of it, and wrapping around cannot make it look    *)
(* older.  A sender that starts anew is heard: while its packets are       *)
(* refused each has another of the Window numbers that look old.  And the  *)
(* thread never runs further ahead of the render thread than a strip and a *)
(* packet, for every number of strips and every width of the counters,     *)
(* which both wrap.                                                        *)
(***************************************************************************)
EXTENDS E131, E131Pace, FiniteSetTheorems, TLAPS

Packet == [seq : 0 .. SeqMod - 1, kind : Kinds, age : 0 .. MaxDelay]

TypeOK ==
  /\ seq \in 0 .. SeqMod - 1
  /\ network \subseteq Packet
  /\ last_seq_num \in -1 .. SeqMod - 1
  /\ accepted_age \in 0 .. SeqMod

(* Whether n is the number of the packet sent so many packets ago, when    *)
(* the next one gets the number next.                                      *)
Numbered(n, age, next) == \E k \in Int : n = next - 1 - age + k * SeqMod

LastInv ==
  accepted_age < NoneYet =>
    /\ last_seq_num # -1
    /\ \E age \in accepted_age .. accepted_age + MaxDelay : Numbered(last_seq_num, age, seq)

IInv ==
  /\ TypeOK
  /\ \A p \in network : Numbered(p.seq, p.age, seq)
  /\ LastInv

-----------------------------------------------------------------------------
(* Another packet is sent, and the number of the next one may wrap.        *)
LEMMA NumberedLater ==
  ASSUME NEW n \in Int, NEW age \in Nat, NEW next \in 0 .. SeqMod - 1,
         Numbered(n, age, next)
  PROVE  Numbered(n, age + 1, (next + 1) % SeqMod)
<1>1. SeqMod \in Nat \ {0}
  BY E131Assumption
<1>2. PICK k \in Int : n = next - 1 - age + k * SeqMod
  BY DEF Numbered
<1>3. CASE next + 1 < SeqMod
  <2>1. (next + 1) % SeqMod = next + 1
    BY <1>1, <1>3
  <2>2. k * SeqMod \in Int
    BY <1>1
  <2>3. n = (next + 1) - 1 - (age + 1) + k * SeqMod
    BY <1>2, <2>2
  <2> QED
    BY <2>1, <2>3 DEF Numbered
<1>4. CASE ~(next + 1 < SeqMod)
  <2>1. next + 1 = SeqMod /\ (next + 1) % SeqMod = 0
    BY <1>1, <1>4
  <2>2. (k + 1) * SeqMod = k * SeqMod + SeqMod /\ k * SeqMod \in Int /\ k + 1 \in Int
    BY <1>1, Z3
  <2>3. n = 0 - 1 - (age + 1) + (k + 1) * SeqMod
    BY <1>1, <1>2, <2>1, <2>2
  <2> QED
    BY <2>1, <2>2, <2>3 DEF Numbered
<1> QED
  BY <1>3, <1>4

(* The latest packet sent has the number before the next.                  *)
LEMMA NumberedLatest ==
  ASSUME NEW next \in 0 .. SeqMod - 1
  PROVE  Numbered(next, 0, (next + 1) % SeqMod)
<1>1. SeqMod \in Nat \ {0}
  BY E131Assumption
<1>2. CASE next + 1 < SeqMod
  <2>1. (next + 1) % SeqMod = next + 1 /\ next = (next + 1) - 1 - 0 + 0 * SeqMod
    BY <1>1, <1>2
  <2> QED
    BY <2>1 DEF Numbered
<1>3. CASE ~(next + 1 < SeqMod)
  <2>1. (next + 1) % SeqMod = 0 /\ next = 0 - 1 - 0 + 1 * SeqMod
    BY <1>1, <1>3
  <2> QED
    BY <2>1 DEF Numbered
<1> QED
  BY <1>2, <1>3

(* A number that is ahead by less than the others leave room for looks     *)
(* ahead, wrapped or not.                                                  *)
LEMMA AheadIsInSequence ==
  ASSUME NEW n \in 0 .. SeqMod - 1, NEW last \in 0 .. SeqMod - 1,
         NEW next \in Int, NEW age \in Nat, NEW old \in Nat,
         Numbered(n, age, next), Numbered(last, old, next),
         age < old, old - age < SeqMod - Window
  PROVE  n >= last \/ last - n > Window
<1>1. SeqMod \in Nat \ {0} /\ Window \in 0 .. SeqMod - 1
  BY E131Assumption
<1>2. PICK k \in Int : n = next - 1 - age + k * SeqMod
  BY DEF Numbered
<1>3. PICK j \in Int : last = next - 1 - old + j * SeqMod
  BY DEF Numbered
<1> DEFINE m == k - j
<1>4. m \in Int /\ m * SeqMod = k * SeqMod - j * SeqMod
      /\ k * SeqMod \in Int /\ j * SeqMod \in Int /\ m * SeqMod \in Int
  BY <1>1, Z3
<1>5. n - last = (old - age) + m * SeqMod
  BY <1>2, <1>3, <1>4
<1> HIDE DEF m
<1>6. m < 1
  <2>1. m >= 1 => m * SeqMod >= SeqMod
    BY <1>1, <1>4, Z3
  <2> QED
    BY <1>1, <1>4, <1>5, <2>1
<1>7. CASE m = 0
  <2>1. m * SeqMod = 0
    BY <1>1, <1>7
  <2> QED
    BY <1>1, <1>5, <2>1
<1>8. CASE m <= -1
  <2>1. m * SeqMod <= -SeqMod
    BY <1>1, <1>4, <1>8, Z3
  <2> QED
    BY <1>1, <1>4, <1>5, <2>1
<1> QED
  BY <1>4, <1>6, <1>7, <1>8

-----------------------------------------------------------------------------
LEMMA InitInvariant == Init => IInv
  BY E131Assumption DEF Init, IInv, TypeOK, LastInv, NoneYet

LEMMA SendInvariant == IInv /\ Send => IInv'
<1> SUFFICES ASSUME IInv, Send PROVE IInv'
  OBVIOUS
<1>1. SeqMod \in Nat \ {0} /\ MaxDelay \in Nat
  BY E131Assumption
<1>2. seq \in 0 .. SeqMod - 1 /\ network \subseteq Packet /\ accepted_age \in 0 .. SeqMod
      /\ last_seq_num \in -1 .. SeqMod - 1
  BY DEF IInv, TypeOK
<1>3. /\ seq' = (seq + 1) % SeqMod /\ last_seq_num' = last_seq_num
      /\ accepted_age' = Older(accepted_age)
      /\ \A p \in network : p.age < MaxDelay
  BY DEF Send
<1>4. PICK kind \in Kinds :
        network' = {[p EXCEPT !.age = @ + 1] : p \in network}
                     \cup {[seq |-> seq, kind |-> kind, age |-> 0]}
  BY DEF Send
<1>5. seq' \in 0 .. SeqMod - 1
  BY <1>1, <1>2, <1>3
<1>6. ASSUME NEW p \in network'
      PROVE  p \in Packet /\ Numbered(p.seq, p.age, seq')
  <2>1. CASE p = [seq |-> seq, kind |-> kind, age |-> 0]
    <3>1. p \in Packet /\ p.seq = seq /\ p.age = 0
      BY <1>1, <1>2, <2>1 DEF Packet
    <3>2. Numbered(seq, 0, seq')
      BY <1>2, <1>3, NumberedLatest
    <3> QED
      BY <3>1, <3>2
  <2>2. ASSUME NEW q \in network, p = [q EXCEPT !.age = @ + 1]
        PROVE  p \in Packet /\ Numbered(p.seq, p.age, seq')
    <3>1. q \in Packet /\ q.age < MaxDelay /\ Numbered(q.seq, q.age, seq)
      BY <1>2, <1>3 DEF IInv
    <3>2. q.seq \in 0 .. SeqMod - 1 /\ q.age \in 0 .. MaxDelay
      BY <3>1 DEF Packet
    <3>3. p.seq = q.seq /\ p.age = q.age + 1 /\ p \in Packet
      BY <1>1, <2>2, <3>1, <3>2 DEF Packet
    <3>4. q.seq \in Int /\ q.age \in Nat
      BY <1>1, <3>2
    <3>5. Numbered(q.seq, q.age + 1, seq')
      BY <1>2, <1>3, <3>1, <3>4, NumberedLater
    <3> QED
      BY <3>3, <3>5
  <2> QED
    BY <1>4, <2>1, <2>2
<1>7. accepted_age' \in 0 .. SeqMod
      /\ (accepted_age' < NoneYet => accepted_age < NoneYet /\ accepted_age' = accepted_age + 1)
  BY <1>1, <1>2, <1>3 DEF Older, NoneYet
<1>8. LastInv'
  <2> SUFFICES ASSUME accepted_age' < NoneYet
               PROVE  /\ last_seq_num # -1
                      /\ \E age \in accepted_age' .. accepted_age' + MaxDelay :
                           Numbered(last_seq_num, age, seq')
    BY <1>3 DEF LastInv, NoneYet
  <2>1. last_seq_num # -1 /\ accepted_age' = accepted_age + 1
    BY <1>7 DEF IInv, LastInv
  <2>2. PICK age \in accepted_age .. accepted_age + MaxDelay : Numbered(last_seq_num, age, seq)
    BY <1>7 DEF IInv, LastInv
  <2>3. age \in Nat /\ age + 1 \in accepted_age' .. accepted_age' + MaxDelay
    BY <1>1, <1>2, <2>1
  <2>4. last_seq_num \in Int
    BY <1>1, <1>2
  <2>5. Numbered(last_seq_num, age + 1, seq')
    BY <1>2, <1>3, <2>2, <2>3, <2>4, NumberedLater
  <2> QED
    BY <2>1, <2>3, <2>5
<1> QED
  BY <1>2, <1>3, <1>5, <1>6, <1>7, <1>8 DEF IInv, TypeOK

LEMMA ReceiveInvariant == IInv /\ Receive => IInv'
<1> SUFFICES ASSUME IInv, Receive PROVE IInv'
  OBVIOUS
<1>1. PICK p \in network :
        /\ network' = network \ {p}
        /\ ReceivePacket(p)
        /\ accepted_age' = IF Accepts(p) /\ Fresh(p) THEN p.age ELSE accepted_age
        /\ seq' = seq
  BY DEF Receive
<1>2. /\ SeqMod \in Nat \ {0} /\ MaxDelay \in Nat
      /\ accepted_age \in 0 .. SeqMod
      /\ p.seq \in 0 .. SeqMod - 1 /\ p.age \in 0 .. MaxDelay
      /\ Numbered(p.seq, p.age, seq)
  BY E131Assumption DEF IInv, TypeOK, Packet
<1>3. last_seq_num' = IF Accepts(p) THEN p.seq ELSE last_seq_num
  <2>1. CASE (p.kind = "tiny" \/ ~InSequence(p.seq)) /\ UNCHANGED <<last_seq_num, frame>>
    BY <2>1 DEF Accepts
  <2>2. CASE p.kind \in {"outside", "all", "some"} /\ InSequence(p.seq) /\ last_seq_num' = p.seq
    <3>1. p.kind # "tiny"
      BY <2>2
    <3> QED
      BY <2>2, <3>1 DEF Accepts
  <2>3. ReceivePacket(p)
    BY <1>1
  <2> QED
    BY <2>1, <2>2, <2>3 DEF ReceivePacket
<1>4. accepted_age' \in 0 .. SeqMod
  BY <1>1, <1>2 DEF Fresh
<1>5. TypeOK'
  BY <1>1, <1>2, <1>3, <1>4 DEF IInv, TypeOK
<1>6. CASE Accepts(p)
  <2>1. last_seq_num' = p.seq /\ p.seq # -1 /\ Numbered(p.seq, p.age, seq')
    BY <1>1, <1>2, <1>3, <1>6
  <2>2. p.age \in accepted_age' .. accepted_age' + MaxDelay
    BY <1>1, <1>2, <1>6 DEF Fresh
  <2>3. LastInv'
    BY <2>1, <2>2 DEF LastInv, NoneYet
  <2> QED
    BY <1>1, <1>5, <2>3 DEF IInv
<1>7. CASE ~Accepts(p)
  <2>1. last_seq_num' = last_seq_num /\ accepted_age' = accepted_age
    BY <1>1, <1>3, <1>7
  <2>2. LastInv'
    BY <1>1, <2>1 DEF IInv, LastInv, NoneYet
  <2> QED
    BY <1>1, <1>5, <2>2 DEF IInv
<1> QED
  BY <1>6, <1>7

LEMMA NextInvariant == IInv /\ [Next]_vars => IInv'
<1> SUFFICES ASSUME IInv, [Next]_vars PROVE IInv'
  OBVIOUS
<1>1. CASE Lose
  BY <1>1 DEF Lose, IInv, TypeOK, LastInv, NoneYet
<1>2. CASE SenderRestarts
  BY <1>2, E131Assumption DEF SenderRestarts, IInv, TypeOK, LastInv, NoneYet
<1>3. CASE UNCHANGED vars
  BY <1>3 DEF vars, IInv, TypeOK, LastInv, NoneYet
<1> QED
  BY <1>1, <1>2, <1>3, SendInvariant, ReceiveInvariant DEF Next

-----------------------------------------------------------------------------
(* Wherever the sequence numbers wrap and whatever arrived out of order, a *)
(* packet newer than everything accepted from its sender is accepted.      *)
THEOREM FreshIsAccepted == Spec => []FreshAccepted
<1>1. IInv => FreshAccepted
  <2> SUFFICES ASSUME IInv, NEW p \in network, Fresh(p), accepted_age < NoneYet,
                      accepted_age - p.age < SeqMod - Window - MaxDelay
               PROVE  InSequence(p.seq)
    BY DEF FreshAccepted
  <2>1. /\ SeqMod \in Nat \ {0} /\ MaxDelay \in Nat /\ Window \in 0 .. SeqMod - 1
        /\ accepted_age \in 0 .. SeqMod /\ seq \in Int
        /\ p.seq \in 0 .. SeqMod - 1 /\ p.age \in 0 .. MaxDelay
        /\ Numbered(p.seq, p.age, seq)
    BY E131Assumption DEF IInv, TypeOK, Packet
  <2>2. last_seq_num \in 0 .. SeqMod - 1
    BY <2>1 DEF IInv, TypeOK, LastInv
  <2>3. PICK old \in accepted_age .. accepted_age + MaxDelay : Numbered(last_seq_num, old, seq)
    BY DEF IInv, LastInv
  <2>4. old \in Nat /\ p.age \in Nat /\ p.age < old /\ old - p.age < SeqMod - Window
    BY <2>1 DEF Fresh
  <2>5. p.seq >= last_seq_num \/ last_seq_num - p.seq > Window
    BY <2>1, <2>2, <2>3, <2>4, AheadIsInSequence
  <2> QED
    BY <2>5 DEF InSequence
<1> QED
  BY <1>1, InitInvariant, NextInvariant, PTL DEF Spec

-----------------------------------------------------------------------------
(* That a sender is heard after Window packets holds only if the network   *)
(* does not delay a packet by about half a round of numbers: else the same *)
(* numbers are refused in one round and in the next, while the packets     *)
(* that would end it are still underway.                                   *)
DelayIsShort == Window + 2 * MaxDelay + 1 < SeqMod

(* The numbers that look old.                                              *)
Zone == {q \in 0 .. SeqMod - 1 : q < last_seq_num /\ last_seq_num - q <= Window}

(* The numbers Q have been refused since t packets were sent: no packet    *)
(* that is still underway was among them, and a packet sent since then is  *)
(* underway or was refused.                                                *)
RefusedOf(t, Q) ==
  /\ Cardinality(Q) = refused
  /\ \A q \in Q : \E age \in 0 .. t + MaxDelay :
       Numbered(q, age, seq) /\ \A p \in network : p.age # age
  /\ \A age \in 0 .. t - 1 :
       (\E p \in network : p.age = age) \/ (\E q \in Q : Numbered(q, age, seq))

AgesDiffer == \A p, q \in network : p.age = q.age => p = q

(* While packets are refused none underway is older than one accepted.     *)
RefusedInv ==
  /\ refused \in Nat
  /\ refused > 0 => /\ accepted_age > MaxDelay
                    /\ \E t \in Nat, Q \in SUBSET Zone : RefusedOf(t, Q)

-----------------------------------------------------------------------------
(* Of packets sent within a round each has a number of its own.            *)
LEMMA OneAge ==
  ASSUME NEW n \in Int, NEW next \in Int, NEW r \in Int, NEW s \in Int,
         Numbered(n, r, next), Numbered(n, s, next), r - s < SeqMod, s - r < SeqMod
  PROVE  r = s
<1>1. SeqMod \in Nat \ {0}
  BY E131Assumption
<1>2. PICK k \in Int : n = next - 1 - r + k * SeqMod
  BY DEF Numbered
<1>3. PICK j \in Int : n = next - 1 - s + j * SeqMod
  BY DEF Numbered
<1> DEFINE m == k - j
<1>4. m \in Int /\ m * SeqMod = k * SeqMod - j * SeqMod
      /\ k * SeqMod \in Int /\ j * SeqMod \in Int /\ m * SeqMod \in Int
  BY <1>1, Z3
<1>5. r - s = m * SeqMod
  BY <1>2, <1>3, <1>4
<1> HIDE DEF m
<1>6. m >= 1 => m * SeqMod >= SeqMod
  BY <1>1, <1>4, Z3
<1>7. m <= -1 => m * SeqMod <= -SeqMod
  BY <1>1, <1>4, Z3
<1>8. m = 0
  BY <1>1, <1>4, <1>5, <1>6, <1>7
<1>9. m * SeqMod = 0
  BY <1>1, <1>8
<1> QED
  BY <1>5, <1>9

(* A packet has one number.                                                *)
LEMMA OneNumber ==
  ASSUME NEW a \in 0 .. SeqMod - 1, NEW b \in 0 .. SeqMod - 1, NEW next \in Int,
         NEW age \in Int, Numbered(a, age, next), Numbered(b, age, next)
  PROVE  a = b
<1>1. SeqMod \in Nat \ {0}
  BY E131Assumption
<1>2. PICK k \in Int : a = next - 1 - age + k * SeqMod
  BY DEF Numbered
<1>3. PICK j \in Int : b = next - 1 - age + j * SeqMod
  BY DEF Numbered
<1> DEFINE m == k - j
<1>4. m \in Int /\ m * SeqMod = k * SeqMod - j * SeqMod
      /\ k * SeqMod \in Int /\ j * SeqMod \in Int /\ m * SeqMod \in Int
  BY <1>1, Z3
<1>5. a - b = m * SeqMod
  BY <1>2, <1>3, <1>4
<1> HIDE DEF m
<1>6. m >= 1 => m * SeqMod >= SeqMod
  BY <1>1, <1>4, Z3
<1>7. m <= -1 => m * SeqMod <= -SeqMod
  BY <1>1, <1>4, Z3
<1>8. m = 0
  BY <1>1, <1>4, <1>5, <1>6, <1>7
<1>9. m * SeqMod = 0
  BY <1>1, <1>8
<1> QED
  BY <1>5, <1>9

(* The packets before one have the numbers before its.                     *)
LEMMA NumberBefore ==
  ASSUME NEW n \in Int, NEW next \in Int, NEW age \in Int, NEW d \in Int,
         Numbered(n, age, next)
  PROVE  Numbered(n - d, age + d, next) /\ Numbered(n - d + SeqMod, age + d, next)
<1>1. SeqMod \in Nat \ {0}
  BY E131Assumption
<1>2. PICK k \in Int : n = next - 1 - age + k * SeqMod
  BY DEF Numbered
<1>3. k + 1 \in Int /\ (k + 1) * SeqMod = k * SeqMod + SeqMod /\ k * SeqMod \in Int
  BY <1>1, Z3
<1>4. n - d = next - 1 - (age + d) + k * SeqMod
  BY <1>2, <1>3
<1>5. n - d + SeqMod = next - 1 - (age + d) + (k + 1) * SeqMod
  BY <1>1, <1>2, <1>3
<1> QED
  BY <1>3, <1>4, <1>5 DEF Numbered

LEMMA ZoneIsSmall ==
  ASSUME last_seq_num \in -1 .. SeqMod - 1, NEW Q \in SUBSET Zone
  PROVE  IsFiniteSet(Q) /\ Cardinality(Q) \in Nat /\ Cardinality(Q) <= Window
<1>1. SeqMod \in Nat \ {0} /\ Window \in Nat
  BY E131Assumption
<1> DEFINE wide == last_seq_num - Window .. last_seq_num - 1
<1>2. Q \subseteq wide
  BY <1>1 DEF Zone
<1>3. IsFiniteSet(wide) /\ Cardinality(wide) = Window
  <2>1. last_seq_num - Window \in Int /\ last_seq_num - 1 \in Int
    BY <1>1
  <2> QED
    BY <1>1, <2>1, FS_Interval
<1> HIDE DEF wide
<1> QED
  BY <1>2, <1>3, FS_Subset, FS_CardinalityType

(* In at most Window packets that were all refused, and none of which is   *)
(* underway, the numbers leave the zone: so not many were sent since then. *)
LEMMA NotManySent ==
  ASSUME IInv, NEW t \in Nat, NEW Q \in SUBSET Zone, RefusedOf(t, Q)
  PROVE  t <= MaxDelay + 1 + Window
<1>1. /\ SeqMod \in Nat \ {0} /\ Window \in 0 .. SeqMod - 1 /\ MaxDelay \in Nat
      /\ seq \in Int /\ last_seq_num \in -1 .. SeqMod - 1
  BY E131Assumption DEF IInv, TypeOK
<1> SUFFICES ASSUME t > MaxDelay + 1 + Window PROVE FALSE
  BY <1>1
<1>2. ASSUME NEW age \in MaxDelay + 1 .. t - 1
      PROVE  \E q \in Zone : Numbered(q, age, seq)
  <2>1. \A p \in network : p.age # age
    BY <1>1 DEF IInv, TypeOK, Packet
  <2>2. age \in 0 .. t - 1
    BY <1>1
  <2> QED
    BY <2>1, <2>2 DEF RefusedOf
<1>3. PICK q \in Zone : Numbered(q, MaxDelay + 1, seq)
  <2>1. MaxDelay + 1 \in MaxDelay + 1 .. t - 1
    BY <1>1
  <2> QED
    BY <1>2, <2>1
<1>4. q \in 0 .. SeqMod - 1 /\ q < last_seq_num /\ last_seq_num - q <= Window
  BY DEF Zone
<1> DEFINE d == IF last_seq_num - Window > 0 THEN q - (last_seq_num - Window) + 1 ELSE q + 1
           old == MaxDelay + 1 + d
<1>5. d \in 1 .. Window /\ old \in MaxDelay + 1 .. t - 1 /\ MaxDelay + 1 \in Int
  BY <1>1, <1>4
<1>6. PICK r \in Zone : Numbered(r, old, seq)
  BY <1>2, <1>5
<1>7. r \in 0 .. SeqMod - 1 /\ r < last_seq_num /\ last_seq_num - r <= Window
  BY DEF Zone
<1>8. Numbered(q - d, old, seq) /\ Numbered(q - d + SeqMod, old, seq)
  <2>1. q \in Int /\ d \in Int
    BY <1>1, <1>4, <1>5
  <2> HIDE DEF d
  <2> QED
    BY <1>1, <1>3, <1>5, <2>1, NumberBefore
<1>9. CASE last_seq_num - Window > 0
  <2>1. q - d = last_seq_num - Window - 1 /\ q - d \in 0 .. SeqMod - 1 /\ old \in Int
    BY <1>1, <1>4, <1>5, <1>9
  <2> HIDE DEF d, old
  <2>2. r = q - d
    BY <1>1, <1>6, <1>7, <1>8, <2>1, OneNumber
  <2> QED
    BY <1>1, <1>7, <2>1, <2>2
<1>10. CASE ~(last_seq_num - Window > 0)
  <2>1. q - d + SeqMod = SeqMod - 1 /\ q - d + SeqMod \in 0 .. SeqMod - 1 /\ old \in Int
    BY <1>1, <1>4, <1>5, <1>10
  <2> HIDE DEF d, old
  <2>2. r = q - d + SeqMod
    BY <1>1, <1>6, <1>7, <1>8, <2>1, OneNumber
  <2> QED
    BY <1>1, <1>7, <2>1, <2>2
<1> QED
  BY <1>9, <1>10

-----------------------------------------------------------------------------
(* A packet more makes every packet underway one older.                    *)
LEMMA SendAges ==
  ASSUME IInv, Send
  PROVE  /\ \A p \in network' : p.age = 0 \/ \E q \in network : p.age = q.age + 1
         /\ \A q \in network : \E p \in network' : p.age = q.age + 1
         /\ \E p \in network' : p.age = 0
         /\ AgesDiffer => AgesDiffer'
<1>1. PICK kind \in Kinds :
        network' = {[p EXCEPT !.age = @ + 1] : p \in network}
                     \cup {[seq |-> seq, kind |-> kind, age |-> 0]}
  BY DEF Send
<1> DEFINE new == [seq |-> seq, kind |-> kind, age |-> 0]
           Aged(q) == [q EXCEPT !.age = @ + 1]
<1>2. new \in network' /\ new.age = 0
  BY <1>1
<1>3. ASSUME NEW q \in network
      PROVE  /\ q.age \in Nat /\ Aged(q) \in network'
             /\ Aged(q).age = q.age + 1
  <2>1. q \in Packet /\ MaxDelay \in Nat
    BY E131Assumption DEF IInv, TypeOK
  <2>2. q.age \in Nat /\ Aged(q).age = q.age + 1
    BY <2>1 DEF Packet
  <2> QED
    BY <1>1, <2>2
<1>4. ASSUME NEW p \in network'
      PROVE  p = new \/ \E q \in network : p = Aged(q)
  BY <1>1
<1> HIDE DEF new, Aged
<1>5. ASSUME AgesDiffer, NEW p \in network', NEW r \in network', p.age = r.age
      PROVE  p = r
  <2>1. CASE p = new
    <3>1. ASSUME NEW q \in network, r = Aged(q) PROVE FALSE
      <4>1. q.age + 1 = 0 /\ q.age \in Nat
        BY <1>2, <1>3, <1>5, <2>1, <3>1
      <4> QED
        BY <4>1
    <3> QED
      BY <1>4, <2>1, <3>1
  <2>2. CASE p # new
    <3>1. PICK q \in network : p = Aged(q)
      BY <1>4, <2>2
    <3>2. r # new
      BY <1>2, <1>3, <1>5, <3>1
    <3>3. PICK s \in network : r = Aged(s)
      BY <1>4, <3>2
    <3>4. q.age = s.age
      BY <1>3, <1>5, <3>1, <3>3
    <3> QED
      BY <1>5, <3>1, <3>3, <3>4 DEF AgesDiffer
  <2> QED
    BY <2>1, <2>2
<1>6. ASSUME NEW p \in network'
      PROVE  p.age = 0 \/ \E q \in network : p.age = q.age + 1
  <2>1. CASE p = new
    BY <1>2, <2>1
  <2>2. ASSUME NEW q \in network, p = Aged(q) PROVE p.age = q.age + 1
    BY <1>3, <2>2
  <2> QED
    BY <1>4, <2>1, <2>2
<1>7. \A q \in network : \E p \in network' : p.age = q.age + 1
  BY <1>3
<1> QED
  BY <1>2, <1>5, <1>6, <1>7 DEF AgesDiffer

LEMMA SendRefused ==
  ASSUME IInv, AgesDiffer, RefusedInv, DelayIsShort, Send
  PROVE  RefusedInv'
<1>1. /\ SeqMod \in Nat \ {0} /\ MaxDelay \in Nat /\ Window \in Nat
      /\ seq \in 0 .. SeqMod - 1 /\ accepted_age \in 0 .. SeqMod
      /\ last_seq_num \in -1 .. SeqMod - 1
  BY E131Assumption DEF IInv, TypeOK
<1>2. /\ seq' = (seq + 1) % SeqMod /\ last_seq_num' = last_seq_num /\ refused' = refused
      /\ accepted_age' = Older(accepted_age)
  BY DEF Send
<1> SUFFICES ASSUME refused > 0
             PROVE  accepted_age' > MaxDelay /\ \E t \in Nat, Q \in SUBSET Zone' : RefusedOf(t, Q)'
  BY <1>2 DEF RefusedInv
<1>3. accepted_age' > MaxDelay
  BY <1>1, <1>2 DEF RefusedInv, Older, DelayIsShort
<1>4. PICK t \in Nat, Q \in SUBSET Zone : RefusedOf(t, Q)
  BY DEF RefusedInv
<1>5. Q \in SUBSET Zone' /\ t + 1 \in Nat
  BY <1>2 DEF Zone
<1>6. ASSUME NEW n \in Int, NEW age \in Nat, Numbered(n, age, seq)
      PROVE  Numbered(n, age + 1, seq')
  BY <1>1, <1>2, <1>6, NumberedLater
<1>7. Q \subseteq Int
  BY <1>1 DEF Zone
<1>8. \A p \in network : p.age \in Nat
  BY <1>1 DEF IInv, TypeOK, Packet
<1>9. ASSUME NEW q \in Q
      PROVE  \E age \in 0 .. t + 1 + MaxDelay :
               Numbered(q, age, seq') /\ \A p \in network' : p.age # age
  <2>1. PICK age \in 0 .. t + MaxDelay : Numbered(q, age, seq) /\ \A p \in network : p.age # age
    BY <1>4 DEF RefusedOf
  <2>2. age \in Nat /\ age + 1 \in 0 .. t + 1 + MaxDelay
    BY <1>1
  <2>3. Numbered(q, age + 1, seq')
    BY <1>6, <1>7, <2>1, <2>2
  <2>4. \A p \in network' : p.age # age + 1
    BY <1>8, <2>1, <2>2, SendAges
  <2> QED
    BY <2>2, <2>3, <2>4
<1>10. ASSUME NEW age \in 0 .. t + 1 - 1
       PROVE  (\E p \in network' : p.age = age) \/ (\E q \in Q : Numbered(q, age, seq'))
  <2>1. CASE age = 0
    BY <2>1, SendAges
  <2>2. CASE age # 0
    <3>1. age - 1 \in 0 .. t - 1 /\ age - 1 \in Nat /\ (age - 1) + 1 = age
      BY <2>2
    <3>2. CASE \E p \in network : p.age = age - 1
      BY <3>1, <3>2, SendAges
    <3>3. CASE \E q \in Q : Numbered(q, age - 1, seq)
      <4>1. PICK q \in Q : Numbered(q, age - 1, seq)
        BY <3>3
      <4>2. Numbered(q, (age - 1) + 1, seq')
        BY <1>6, <1>7, <3>1, <4>1
      <4> QED
        BY <3>1, <4>2
    <3> QED
      BY <1>4, <3>1, <3>2, <3>3 DEF RefusedOf
  <2> QED
    BY <2>1, <2>2
<1>11. Cardinality(Q) = refused'
  BY <1>2, <1>4 DEF RefusedOf
<1>12. RefusedOf(t + 1, Q)'
  BY <1>9, <1>10, <1>11 DEF RefusedOf
<1> QED
  BY <1>3, <1>5, <1>12

(* A fresh packet is refused only when everything accepted is older than   *)
(* every packet underway.                                                  *)
LEMMA RefusedIsFarAhead ==
  ASSUME IInv, DelayIsShort, NEW p \in network, Fresh(p), ~InSequence(p.seq)
  PROVE  accepted_age > MaxDelay
<1>1. /\ SeqMod \in Nat \ {0} /\ MaxDelay \in Nat /\ Window \in 0 .. SeqMod - 1
      /\ accepted_age \in 0 .. SeqMod /\ seq \in Int
      /\ p.seq \in 0 .. SeqMod - 1 /\ p.age \in 0 .. MaxDelay
      /\ Numbered(p.seq, p.age, seq)
  BY E131Assumption DEF IInv, TypeOK, Packet
<1>2. CASE accepted_age = SeqMod
  BY <1>1, <1>2 DEF DelayIsShort
<1>3. CASE accepted_age # SeqMod
  <2>1. accepted_age < NoneYet
    BY <1>1, <1>3 DEF NoneYet
  <2>2. last_seq_num \in 0 .. SeqMod - 1
    BY <1>1, <2>1 DEF IInv, TypeOK, LastInv
  <2>3. PICK old \in accepted_age .. accepted_age + MaxDelay : Numbered(last_seq_num, old, seq)
    BY <2>1 DEF IInv, LastInv
  <2>4. old \in Nat /\ p.age \in Nat /\ p.age < old
    BY <1>1 DEF Fresh
  <2>5. ~(p.seq >= last_seq_num \/ last_seq_num - p.seq > Window)
    BY DEF InSequence
  <2>6. ~(old - p.age < SeqMod - Window)
    BY <1>1, <2>2, <2>3, <2>4, <2>5, AheadIsInSequence
  <2> QED
    BY <1>1, <2>3, <2>4, <2>6 DEF DelayIsShort
<1> QED
  BY <1>2, <1>3

(* One more fresh packet is refused: its number is a new one.              *)
LEMMA OneMoreRefused ==
  ASSUME IInv, AgesDiffer, DelayIsShort,
         NEW t \in Nat, NEW Q \in SUBSET Zone, RefusedOf(t, Q),
         NEW p \in network, ~InSequence(p.seq),
         network' = network \ {p}, seq' = seq, last_seq_num' = last_seq_num,
         refused' = refused + 1
  PROVE  RefusedOf(t, Q \cup {p.seq})' /\ Q \cup {p.seq} \in SUBSET Zone
<1>1. /\ SeqMod \in Nat \ {0} /\ MaxDelay \in Nat /\ Window \in 0 .. SeqMod - 1
      /\ seq \in Int /\ last_seq_num \in -1 .. SeqMod - 1
      /\ p.seq \in 0 .. SeqMod - 1 /\ p.age \in 0 .. MaxDelay
      /\ Numbered(p.seq, p.age, seq)
  BY E131Assumption DEF IInv, TypeOK, Packet
<1>2. p.seq \in Zone
  BY <1>1 DEF Zone, InSequence
<1>3. IsFiniteSet(Q) /\ Cardinality(Q) \in Nat
  BY <1>1, ZoneIsSmall
<1>4. t <= MaxDelay + 1 + Window
  BY NotManySent
<1>5. p.seq \notin Q
  <2> SUFFICES ASSUME p.seq \in Q PROVE FALSE
    OBVIOUS
  <2>1. PICK age \in 0 .. t + MaxDelay :
          Numbered(p.seq, age, seq) /\ \A r \in network : r.age # age
    BY DEF RefusedOf
  <2>2. age \in Int /\ p.age \in Int /\ p.seq \in Int
        /\ age - p.age < SeqMod /\ p.age - age < SeqMod
    BY <1>1, <1>4 DEF DelayIsShort
  <2>3. age = p.age
    BY <1>1, <2>1, <2>2, OneAge
  <2> QED
    BY <2>1, <2>3
<1>6. Cardinality(Q \cup {p.seq}) = refused'
  BY <1>3, <1>5, FS_AddElement DEF RefusedOf
<1>7. ASSUME NEW q \in Q \cup {p.seq}
      PROVE  \E age \in 0 .. t + MaxDelay :
               Numbered(q, age, seq') /\ \A r \in network' : r.age # age
  <2>1. CASE q \in Q
    BY <2>1 DEF RefusedOf
  <2>2. CASE q = p.seq
    <3>1. p.age \in 0 .. t + MaxDelay
      BY <1>1
    <3>2. \A r \in network' : r.age # p.age
      BY DEF AgesDiffer
    <3> QED
      BY <1>1, <2>2, <3>1, <3>2
  <2> QED
    BY <2>1, <2>2
<1>8. ASSUME NEW age \in 0 .. t - 1
      PROVE  \/ \E r \in network' : r.age = age
             \/ \E q \in Q \cup {p.seq} : Numbered(q, age, seq')
  <2>1. CASE \E q \in Q : Numbered(q, age, seq)
    BY <2>1
  <2>2. CASE \E r \in network : r.age = age
    <3>1. PICK r \in network : r.age = age
      BY <2>2
    <3>2. CASE r = p
      BY <1>1, <3>1, <3>2
    <3>3. CASE r # p
      BY <3>1, <3>3
    <3> QED
      BY <3>2, <3>3
  <2> QED
    BY <2>1, <2>2 DEF RefusedOf
<1>9. RefusedOf(t, Q \cup {p.seq})'
  BY <1>6, <1>7, <1>8 DEF RefusedOf
<1> QED
  BY <1>2, <1>9

LEMMA ReceiveRefused ==
  ASSUME IInv, AgesDiffer, RefusedInv, DelayIsShort, Receive
  PROVE  AgesDiffer' /\ RefusedInv'
<1>1. PICK p \in network :
        /\ network' = network \ {p}
        /\ ReceivePacket(p)
        /\ accepted_age' = IF Accepts(p) /\ Fresh(p) THEN p.age ELSE accepted_age
        /\ refused' = IF p.kind = "tiny" THEN 0
                      ELSE IF ~Fresh(p) THEN refused
                      ELSE IF InSequence(p.seq) THEN 0
                      ELSE IF refused <= Window THEN refused + 1 ELSE refused
        /\ seq' = seq
  BY DEF Receive
<1>2. /\ SeqMod \in Nat \ {0} /\ MaxDelay \in Nat /\ Window \in Nat
      /\ accepted_age \in 0 .. SeqMod /\ last_seq_num \in -1 .. SeqMod - 1
      /\ p.age \in 0 .. MaxDelay /\ refused \in Nat
  BY E131Assumption DEF IInv, TypeOK, Packet, RefusedInv
<1>3. AgesDiffer'
  BY <1>1 DEF AgesDiffer
<1>4. CASE p.kind = "tiny" \/ (Fresh(p) /\ InSequence(p.seq))
  <2>1. refused' = 0
    BY <1>1, <1>4
  <2> QED
    BY <1>3, <2>1 DEF RefusedInv
<1>5. CASE p.kind # "tiny" /\ ~Fresh(p)
  <2>1. refused = 0
    BY <1>2, <1>5 DEF RefusedInv, Fresh
  <2>2. refused' = 0
    BY <1>1, <1>5, <2>1
  <2> QED
    BY <1>3, <2>2 DEF RefusedInv
<1>6. CASE p.kind # "tiny" /\ Fresh(p) /\ ~InSequence(p.seq)
  <2>1. last_seq_num' = last_seq_num /\ accepted_age' = accepted_age
    BY <1>1, <1>6 DEF ReceivePacket, Accepts
  <2>2. accepted_age > MaxDelay
    BY <1>6, RefusedIsFarAhead
  <2>3. PICK t \in Nat, Q \in SUBSET Zone : RefusedOf(t, Q)
    <3>1. CASE refused > 0
      BY <3>1 DEF RefusedInv
    <3>2. CASE refused = 0
      <4>1. RefusedOf(0, {})
        BY <3>2, FS_EmptySet DEF RefusedOf
      <4> QED
        BY <4>1
    <3> QED
      BY <1>2, <3>1, <3>2
  <2>4. refused <= Window
    BY <1>2, <2>3, ZoneIsSmall DEF RefusedOf
  <2>5. refused' = refused + 1
    BY <1>1, <1>6, <2>4
  <2>6. RefusedOf(t, Q \cup {p.seq})' /\ Q \cup {p.seq} \in SUBSET Zone
    BY <1>1, <1>6, <2>1, <2>3, <2>5, OneMoreRefused
  <2>7. Zone' = Zone
    BY <2>1 DEF Zone
  <2>8. \E u \in Nat, R \in SUBSET Zone' : RefusedOf(u, R)'
    BY <2>6, <2>7
  <2> QED
    BY <1>2, <1>3, <2>1, <2>2, <2>5, <2>8 DEF RefusedInv
<1> QED
  BY <1>4, <1>5, <1>6

LEMMA RefusedInvariant ==
  ASSUME DelayIsShort
  PROVE  /\ Init => AgesDiffer /\ RefusedInv
         /\ IInv /\ AgesDiffer /\ RefusedInv /\ [Next]_vars => (AgesDiffer /\ RefusedInv)'
<1>1. Init => AgesDiffer /\ RefusedInv
  BY DEF Init, AgesDiffer, RefusedInv
<1>2. ASSUME IInv, AgesDiffer, RefusedInv, [Next]_vars
      PROVE  (AgesDiffer /\ RefusedInv)'
  <2>1. CASE Send
    BY <1>2, <2>1, SendAges, SendRefused
  <2>2. CASE Lose
    BY <1>2, <2>2 DEF Lose, AgesDiffer, RefusedInv
  <2>3. CASE SenderRestarts
    BY <1>2, <2>3 DEF SenderRestarts, AgesDiffer, RefusedInv
  <2>4. CASE Receive
    BY <1>2, <2>4, ReceiveRefused
  <2>5. CASE UNCHANGED vars
    BY <1>2, <2>5 DEF vars, AgesDiffer, RefusedInv, RefusedOf, Zone
  <2> QED
    BY <1>2, <2>1, <2>2, <2>3, <2>4, <2>5 DEF Next
<1> QED
  BY <1>1, <1>2

(* A sender that starts anew is not locked out: its first fresh packet     *)
(* past Window is accepted, unless packets are lost or too small, as long  *)
(* as the network delays none by almost a round of the sequence numbers.   *)
THEOREM RestartIsHeard ==
  ASSUME DelayIsShort
  PROVE  Spec => []RestartHeard
<1>1. IInv /\ RefusedInv => RestartHeard
  <2> SUFFICES ASSUME IInv, RefusedInv PROVE refused <= Window
    BY DEF RestartHeard
  <2>1. refused \in Nat /\ Window \in Nat
    BY E131Assumption DEF RefusedInv
  <2>2. CASE refused > 0
    <3>1. PICK t \in Nat, Q \in SUBSET Zone : RefusedOf(t, Q)
      BY <2>2 DEF RefusedInv
    <3>2. last_seq_num \in -1 .. SeqMod - 1
      BY DEF IInv, TypeOK
    <3> QED
      BY <3>1, <3>2, ZoneIsSmall DEF RefusedOf
  <2> QED
    BY <2>1, <2>2
<1>2. Init => IInv /\ AgesDiffer /\ RefusedInv
  BY InitInvariant, RefusedInvariant
<1>3. IInv /\ AgesDiffer /\ RefusedInv /\ [Next]_vars => (IInv /\ AgesDiffer /\ RefusedInv)'
  BY NextInvariant, RefusedInvariant
<1> QED
  BY <1>1, <1>2, <1>3, PTL DEF Spec

-----------------------------------------------------------------------------
(* How the thread paces itself.                                            *)
PaceTypeOK ==
  /\ pc \in {"recv", "compare", "update", "test", "wait"}
  /\ packets_since_update \in Nat
  /\ frame_counter \in 0 .. CounterMod - 1
  /\ frame_counter_at_last_update \in 0 .. CounterMod - 1
  /\ render_idle \in BOOLEAN
  /\ burst \in Nat

Level == frame_counter = frame_counter_at_last_update

(* The packets counted are all of the burst but one, the packet with which *)
(* the count was started.                                                  *)
Counted == burst <= packets_since_update + 1 /\ burst <= MaxStrips + 1

(* When the thread sees that the counter has moved on, nothing was counted *)
(* since.  That the counter looks unmoved because it has gone round once   *)
(* does no harm: the count then only comes out too high.                   *)
BurstInv ==
  /\ pc = "recv" =>
       \/ burst = 0
       \/ Level /\ burst <= packets_since_update + 1 /\ packets_since_update < MaxStrips
  /\ pc = "compare" => IF Level THEN Counted ELSE burst <= 1
  /\ pc = "update" => packets_since_update = 0 /\ burst <= 1
  /\ pc \in {"test", "wait"} => burst = 0 \/ (Level /\ Counted)

PaceInv == PaceTypeOK /\ BurstInv

-----------------------------------------------------------------------------
LEMMA PaceInitInvariant == PaceInit => PaceInv
  BY PaceAssumption DEF PaceInit, PaceInv, PaceTypeOK, BurstInv

(* A turn of the render thread starts a new burst, whatever the counter    *)
(* becomes.                                                                *)
LEMMA TurnInvariant == PaceInv /\ RenderTurn => PaceInv'
<1> SUFFICES ASSUME PaceInv, RenderTurn PROVE PaceInv'
  OBVIOUS
<1>1. burst' = 0 /\ pc' = pc /\ packets_since_update' = packets_since_update
  BY DEF RenderTurn
<1>2. frame_counter' \in 0 .. CounterMod - 1
  <2>1. CounterMod \in Nat \ {0} /\ frame_counter + 1 \in Nat
    BY PaceAssumption DEF PaceInv, PaceTypeOK
  <2> QED
    BY <2>1 DEF RenderTurn
<1>3. PaceTypeOK'
  BY <1>1, <1>2 DEF RenderTurn, PaceInv, PaceTypeOK
<1>4. BurstInv'
  BY <1>1, PaceAssumption DEF PaceInv, PaceTypeOK, BurstInv, Counted
<1> QED
  BY <1>3, <1>4 DEF PaceInv

(* The count wraps only when it is far above the burst.                    *)
LEMMA CountInvariant == PaceInv /\ CountPacket => PaceInv'
<1> SUFFICES ASSUME PaceInv, CountPacket PROVE PaceInv'
  OBVIOUS
<1> DEFINE n == packets_since_update + 1
<1>1. CounterMod \in Nat \ {0} /\ MaxStrips \in Nat \ {0} /\ MaxStrips < CounterMod
      /\ n \in Nat /\ burst \in Nat
  BY PaceAssumption DEF PaceInv, PaceTypeOK
<1>2. pc = "recv" /\ pc' = "compare" /\ burst' = burst + 1 /\ packets_since_update' = n % CounterMod
      /\ Level' = Level
  BY DEF CountPacket, Level
<1>3. PaceTypeOK'
  BY <1>1, <1>2 DEF CountPacket, PaceInv, PaceTypeOK
<1>4. CASE burst = 0
  <2>1. packets_since_update' \in Nat /\ burst' = 1
    BY <1>2, <1>3, <1>4 DEF PaceTypeOK
  <2>2. MaxStrips \in Nat /\ Counted'
    <3>1. MaxStrips \in Nat
      BY PaceAssumption
    <3>2. burst' <= packets_since_update' + 1
      <4>1. \A k \in Nat : 1 <= k + 1
        OBVIOUS
      <4> QED
        BY <2>1, <4>1
    <3>3. burst' <= MaxStrips + 1
      BY <2>1, <3>1
    <3> QED
      BY <3>1, <3>2, <3>3 DEF Counted
  <2> QED
    BY <1>2, <1>3, <2>1, <2>2 DEF PaceInv, BurstInv
<1>5. CASE Level /\ burst <= n /\ packets_since_update < MaxStrips
  <2>1. n <= MaxStrips /\ n % CounterMod = n
    BY <1>1, <1>5 DEF PaceInv, PaceTypeOK
  <2> QED
    BY <1>1, <1>2, <1>3, <1>5, <2>1 DEF PaceInv, BurstInv, Counted
<1>6. BurstInv'
  BY <1>2, <1>3, <1>4, <1>5 DEF PaceInv, BurstInv
<1> QED
  BY <1>3, <1>6 DEF PaceInv

LEMMA PacingInvariant == PaceInv /\ (Pacing \/ Wait) => PaceInv'
<1> SUFFICES ASSUME PaceInv, Pacing \/ Wait PROVE PaceInv'
  OBVIOUS
<1>1. MaxStrips \in Nat \ {0}
  BY PaceAssumption
<1>2. CASE Compare
  BY <1>1, <1>2 DEF Compare, PaceInv, PaceTypeOK, BurstInv, Level, Counted
<1>3. CASE Update
  BY <1>1, <1>3 DEF Update, PaceInv, PaceTypeOK, BurstInv, Level, Counted
<1>4. CASE Test
  BY <1>1, <1>4 DEF Test, PaceInv, PaceTypeOK, BurstInv, Level, Counted
<1>5. CASE Wait
  <2>1. burst = 0 /\ burst' = 0 /\ pc' = "recv"
    BY <1>5 DEF Wait, PaceInv, BurstInv, Level
  <2>2. PaceTypeOK'
    BY <1>5 DEF Wait, PaceInv, PaceTypeOK
  <2>3. BurstInv'
    BY <2>1 DEF BurstInv
  <2> QED
    BY <2>2, <2>3 DEF PaceInv
<1> QED
  BY <1>2, <1>3, <1>4, <1>5 DEF Pacing

LEMMA PaceNextInvariant == PaceInv /\ [PaceNext]_paceVars => PaceInv'
<1>1. PaceInv /\ (RenderChanges \/ UNCHANGED paceVars) => PaceInv'
  BY DEF RenderChanges, paceVars, PaceInv, PaceTypeOK, BurstInv, Level, Counted
<1> QED
  BY <1>1, TurnInvariant, CountInvariant, PacingInvariant DEF PaceNext

-----------------------------------------------------------------------------
(* However the threads interleave and the counters wrap, no more than a    *)
(* strip and one packet are taken in without a turn of the render thread.  *)
THEOREM NeverFurtherAhead == PaceSpec => []AtMostAStripAhead
<1>1. PaceInv => AtMostAStripAhead
  BY PaceAssumption DEF PaceInv, PaceTypeOK, BurstInv, Counted, AtMostAStripAhead
<1> QED
  BY <1>1, PaceInitInvariant, PaceNextInvariant, PTL DEF PaceSpec
=============================================================================
