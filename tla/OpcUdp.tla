------------------------------- MODULE OpcUdp -------------------------------
(***************************************************************************)
(* udp_server_thread: one datagram, one command.  The network loses,       *)
(* repeats and reorders datagrams and anybody may send one, so any may     *)
(* come at any time; what it does not overwrite of the buffer is left from *)
(* the ones before it.  The header is the command and the length.          *)
(***************************************************************************)
EXTENDS Naturals, SequencesExt

CONSTANTS
  Datagrams,    \* what may be received: sequences of bytes
  BufferSize    \* of buf; no datagram is longer

ASSUME UdpAssumption ==
  /\ BufferSize \in Nat
  /\ \A d \in Datagrams : d \in Seq(Nat) /\ Len(d) <= BufferSize

VARIABLES
  buf,
  udp_frame     \* what was last given to set_next_frame_data, or NoFrame

udpVars == <<buf, udp_frame>>

HeaderSize == 2                          \* sizeof(opc_cmd_t)
SetPixels == 0
NoFrame == <<>>

UdpInit == buf = [k \in 1 .. BufferSize |-> 0] /\ udp_frame = NoFrame

Received(datagram) ==
  [k \in 1 .. BufferSize |-> IF k <= Len(datagram) THEN datagram[k] ELSE buf[k]]

(* A mutant of Complete: the header is not counted.                        *)
CompleteButHeader(rc, received) == rc >= HeaderSize /\ rc >= received[2]

Complete(rc, received) == rc >= HeaderSize /\ rc >= HeaderSize + received[2]

Payload(received) == SubSeq(received, HeaderSize + 1, HeaderSize + received[2])

(* Nothing is done for a command that is cut off, is one of the system or  *)
(* is not known.                                                           *)
Carries(datagram) ==
  LET received == Received(datagram)
  IN  Complete(Len(datagram), received) /\ received[1] = SetPixels

Recv(datagram) ==
  /\ buf' = Received(datagram)
  /\ udp_frame' = IF Carries(datagram) THEN Payload(Received(datagram)) ELSE udp_frame

-----------------------------------------------------------------------------
(* What is stored as a frame is what one datagram carried for it: nothing  *)
(* left in the buffer by another, no part of one that was cut off, no      *)
(* command for the system.                                                 *)
FrameIsOfOneDatagram ==
  udp_frame # NoFrame =>
    \E d \in Datagrams :
      /\ Len(d) > HeaderSize /\ d[1] = SetPixels
      /\ Len(udp_frame) = d[2] /\ IsPrefix(udp_frame, SubSeq(d, 3, Len(d)))
=============================================================================
