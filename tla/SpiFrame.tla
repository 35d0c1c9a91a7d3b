------------------------------ MODULE SpiFrame ------------------------------
(***************************************************************************)
(* A frame on its way to the LEDs: render_thread lays it out in            *)
(* spi_buffer, a pixel at a time, and spio_write writes the buffer to the  *)
(* device in packets, whatever write returns.  The wire carries bytes and  *)
(* no more: where a pixel begins, the LEDs know by counting from the four  *)
(* zeros of the start.  Only one strip may be used.                        *)
(***************************************************************************)
EXTENDS Naturals, Sequences

CONSTANTS
  LedsPerStrip,   \* leds_per_strip
  Strips,         \* SPISCAPE_MAX_STRIPS
  PacketLength    \* SPI_BUFFER_SIZE

ASSUME SpiAssumption ==
  LedsPerStrip \in Nat \ {0} /\ Strips \in Nat \ {0} /\ PacketLength \in Nat \ {0}

VARIABLES
  spi_pc,      \* "begin", "pixels" or "write"
  led_index,
  spi_buffer,
  offset,      \* i of spio_write
  sent,        \* what of this frame the device got
  whole,       \* ghost: no write of this frame failed
  drawn        \* ghost: the pixels of this frame, as <<b, g, r>>

spiVars == <<spi_pc, led_index, spi_buffer, offset, sent, whole, drawn>>

LedCount == LedsPerStrip * Strips
Allocated == 4 + 4 * LedCount + LedCount \div 16 + 1
Padding == 4 + 4 * LedsPerStrip                       \* where it begins
FrameLength == Padding + LedsPerStrip \div 16 + 1
PixelAt(i) == 4 + 4 * i

Zero == <<"byte", 0>>
Ones == <<"byte", 255>>
Junk == <<"byte", "junk">>                            \* what malloc returns

SpiInit ==
  /\ spi_pc = "begin"
  /\ led_index = 0
  /\ spi_buffer = [a \in 0 .. Allocated - 1 |-> Junk]
  /\ offset = 0 /\ sent = <<>> /\ whole = FALSE
  /\ drawn = <<>>

BeginFrame ==
  /\ spi_pc = "begin"
  /\ spi_buffer' = [a \in 0 .. Allocated - 1 |->
       IF a < 4 THEN Zero ELSE IF a \in Padding .. FrameLength - 1 THEN Ones ELSE spi_buffer[a]]
  /\ spi_pc' = "pixels"
  /\ led_index' = 0 /\ drawn' = <<>>
  /\ sent' = <<>> /\ whole' = FALSE
  /\ UNCHANGED offset

WritePixel(b, g, r) ==
  /\ spi_pc = "pixels"
  /\ LET p == PixelAt(led_index) IN
       spi_buffer' = [spi_buffer EXCEPT ![p] = Ones, ![p+1] = b, ![p+2] = g, ![p+3] = r]
  /\ drawn' = Append(drawn, <<b, g, r>>)
  /\ led_index' = led_index + 1
  /\ IF led_index' < LedsPerStrip
     THEN UNCHANGED <<spi_pc, offset, sent, whole>>
     ELSE spi_pc' = "write" /\ offset' = 0 /\ whole' = TRUE /\ UNCHANGED sent

PacketSize ==
  IF offset + PacketLength > FrameLength THEN FrameLength - offset ELSE PacketLength

(* A mutant of Packet: every packet is taken from the start of the buffer. *)
PacketFromStart == [k \in 1 .. PacketSize |-> spi_buffer[k - 1]]

Packet == [k \in 1 .. PacketSize |-> spi_buffer[offset + k - 1]]

(* write fails or not; after a failure nothing is known of what the LEDs   *)
(* make of the rest of the frame.                                          *)
WritePacket ==
  /\ spi_pc = "write"
  /\ \/ sent' = sent \o Packet /\ UNCHANGED whole
     \/ whole' = FALSE /\ UNCHANGED sent
  /\ offset' = offset + PacketLength
  /\ spi_pc' = IF offset' < FrameLength THEN "write" ELSE "begin"
  /\ UNCHANGED <<led_index, spi_buffer, drawn>>

-----------------------------------------------------------------------------
(* The bytes on the wire, of every frame of which no write failed, are     *)
(* those of the protocol of the LEDs, whatever failed in frames before:    *)
(* the start, the pixels of this frame in their order, and clock for at    *)
(* least half a bit a pixel.                                               *)
FrameSent ==
  spi_pc = "begin" /\ whole =>
    /\ Len(sent) = FrameLength
    /\ \A a \in 1 .. 4 : sent[a] = Zero
    /\ \A i \in 0 .. LedsPerStrip - 1 :
         /\ sent[PixelAt(i) + 1] = Ones
         /\ \A c \in 1 .. 3 : sent[PixelAt(i) + 1 + c] = drawn[i + 1][c]
    /\ \A a \in Padding + 1 .. Len(sent) : sent[a] = Ones
    /\ 2 * 8 * (Len(sent) - Padding) >= LedsPerStrip
=============================================================================
