-------------------------------- MODULE E131 --------------------------------
(***************************************************************************)
(* What e131_server_thread does with a packet: the check of its 8-bit      *)
(* sequence number, against a network that may lose packets and deliver    *)
(* them out of order and a sender that may start anew, and the buffer it   *)
(* assembles a frame in.  How the thread paces itself is in E131Pace.      *)
(***************************************************************************)
EXTENDS Integers, FiniteSets

CONSTANTS
  SeqMod,      \* 256: a sequence number is a byte
  Window,      \* 64
  LedCount,    \* leds_per_strip * SPISCAPE_MAX_STRIPS
  Kinds,       \* the kinds of packet, see below
  InFlight,    \* bound: packets underway at once
  MaxDelay     \* bound: packets sent before one underway arrives

(* A packet is too small for its header, or names a universe outside 1-48, *)
(* or carries pixels of the first universe for all the LEDs or for some.   *)
ASSUME E131Assumption ==
  /\ SeqMod \in Nat \ {0} /\ Window \in 0 .. SeqMod - 1
  /\ LedCount \in Nat \ {0}
  /\ Kinds \subseteq {"tiny", "outside", "all", "some"}
  /\ InFlight \in Nat /\ MaxDelay \in Nat

VARIABLES
  seq,             \* the sequence number the sender uses next
  network,         \* the packets underway, with their age in packets sent since
  last_seq_num,    \* -1 before the first packet
  dmx_buffer_size,
  dmx_buffer,      \* "none", or what it holds: "set", or "unset" in some pixels
  frame,           \* what set_next_frame_data was given last
  accepted_age,    \* ghost: packets sent since the newest accepted one, up to SeqMod
  refused          \* ghost: fresh packets refused in a row, none lost between them

vars == <<seq, network, last_seq_num, dmx_buffer_size, dmx_buffer, frame,
          accepted_age, refused>>

PixelBytes == 3
NoneYet == SeqMod          \* accepted_age when nothing of this sender was accepted

Init ==
  /\ seq = 0
  /\ network = {}
  /\ last_seq_num = -1
  /\ dmx_buffer_size = 0 /\ dmx_buffer = "none"
  /\ frame = "nothing"
  /\ accepted_age = NoneYet /\ refused = 0

-----------------------------------------------------------------------------
(* The sender and the network.                                             *)

Older(age) == IF age < SeqMod THEN age + 1 ELSE age

Send ==
  /\ Cardinality(network) < InFlight
  /\ \A p \in network : p.age < MaxDelay
  /\ \E kind \in Kinds :
       network' = {[p EXCEPT !.age = @ + 1] : p \in network}
                    \cup {[seq |-> seq, kind |-> kind, age |-> 0]}
  /\ seq' = (seq + 1) % SeqMod
  /\ accepted_age' = Older(accepted_age)
  /\ UNCHANGED <<last_seq_num, dmx_buffer_size, dmx_buffer, frame, refused>>

Lose ==
  /\ \E p \in network : network' = network \ {p}
  /\ refused' = 0
  /\ UNCHANGED <<seq, last_seq_num, dmx_buffer_size, dmx_buffer, frame, accepted_age>>

(* The packets of the sender before it are gone when the new one begins.  *)
SenderRestarts ==
  /\ seq' \in 0 .. SeqMod - 1
  /\ network' = {}
  /\ accepted_age' = NoneYet /\ refused' = 0
  /\ UNCHANGED <<last_seq_num, dmx_buffer_size, dmx_buffer, frame>>

-----------------------------------------------------------------------------
(* e131_server_thread.                                                     *)

InSequenceNoWrap(s) == last_seq_num = -1 \/ s >= last_seq_num       \* mutants of
InSequenceNoEqual(s) ==                                             \* InSequence
  last_seq_num = -1 \/ s > last_seq_num \/ last_seq_num - s > Window

InSequence(s) ==
  \/ last_seq_num = -1
  \/ s >= last_seq_num
  \/ last_seq_num - s > Window

(* The buffer is allocated anew whenever its size in bytes is not the      *)
(* number of LEDs.                                                         *)
Reallocated == dmx_buffer = "none" \/ dmx_buffer_size # LedCount
EnsuredBuffer == IF Reallocated THEN "unset" ELSE dmx_buffer

ReceivePacket(p) ==
  /\ dmx_buffer_size' = IF Reallocated THEN LedCount * PixelBytes ELSE dmx_buffer_size
  /\ \/ /\ p.kind = "tiny" \/ ~InSequence(p.seq)
        /\ dmx_buffer' = EnsuredBuffer
        /\ UNCHANGED <<last_seq_num, frame>>
     \/ /\ p.kind = "outside" /\ InSequence(p.seq)
        /\ last_seq_num' = p.seq
        /\ dmx_buffer' = EnsuredBuffer
        /\ UNCHANGED frame
     \/ /\ p.kind \in {"all", "some"} /\ InSequence(p.seq)
        /\ last_seq_num' = p.seq
        /\ dmx_buffer' = IF p.kind = "all" THEN "set" ELSE EnsuredBuffer
        /\ frame' = dmx_buffer'

Fresh(p) == p.age < accepted_age
Accepts(p) == p.kind # "tiny" /\ InSequence(p.seq)

Receive ==
  \E p \in network :
    /\ network' = network \ {p}
    /\ ReceivePacket(p)
    /\ accepted_age' = IF Accepts(p) /\ Fresh(p) THEN p.age ELSE accepted_age
    /\ refused' = IF p.kind = "tiny" THEN 0
                  ELSE IF ~Fresh(p) THEN refused
                  ELSE IF InSequence(p.seq) THEN 0
                  ELSE IF refused <= Window THEN refused + 1 ELSE refused
    /\ UNCHANGED seq

Next == Send \/ Lose \/ SenderRestarts \/ Receive

Spec == Init /\ [][Next]_vars

-----------------------------------------------------------------------------
(* A packet newer than everything accepted from this sender is accepted,   *)
(* wherever the sequence numbers wrap and whatever arrived out of order    *)
(* before, unless so many were lost before it that it looks old.           *)
FreshAccepted ==
  \A p \in network :
    /\ p.kind # "tiny" /\ Fresh(p)
    /\ accepted_age < NoneYet
    /\ accepted_age - p.age < SeqMod - Window - MaxDelay
    => InSequence(p.seq)

(* A sender that starts anew is not locked out: at most Window packets of  *)
(* the new one are refused in a row, unless packets are lost or too small, *)
(* or the network holds a packet back for almost half a round of numbers.  *)
RestartHeard == refused <= Window

-----------------------------------------------------------------------------
(* What comments say and the code does not do.                             *)

(* "Out of order sequence packet": what is applied to the LEDs after a     *)
(* packet of the same sender was sent after it.                            *)
OutOfOrderRefused ==
  [][\A p \in network :
       p \notin network' /\ Accepts(p) /\ last_seq_num' # last_seq_num
         => accepted_age = NoneYet \/ Fresh(p)]_vars

(* "Zero out any pixels not set by the new frame": no pixel of a frame is  *)
(* what malloc happened to return.                                         *)
FramesAreSet == frame # "unset"
=============================================================================
