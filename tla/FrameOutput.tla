---------------------------- MODULE FrameOutput ----------------------------
(***************************************************************************)
(* render_thread from a pair of frames to the wire.  The channel that      *)
(* Pixel follows is the red of the first pixel; of the other bytes only    *)
(* the pixel, the channel and the turn they are computed in are known.     *)
(***************************************************************************)
EXTENDS Pixel, SpiFrame

Colour(channel) == <<channel, led_index, ditheringFrame'>>

(* A mutant of FirstPixel: the bytes in the order red, green, blue.        *)
FirstPixelRgb ==
  /\ led_index = 0
  /\ PixelFrame
  /\ WritePixel(<<"r", 0, out'>>, Colour("g"), Colour("b"))

FirstPixel ==
  /\ led_index = 0
  /\ PixelFrame
  /\ WritePixel(Colour("b"), Colour("g"), <<"r", 0, out'>>)

OtherPixel ==
  /\ led_index > 0
  /\ UNCHANGED pixelVars
  /\ WritePixel(Colour("b"), Colour("g"), Colour("r"))

FrameInit == PixelInit /\ SpiInit
FrameNext ==
  \/ BeginFrame /\ UNCHANGED pixelVars
  \/ FirstPixel \/ OtherPixel
  \/ WritePacket /\ UNCHANGED pixelVars
FrameSpec == FrameInit /\ [][FrameNext]_<<pixelVars, spiVars>>

-----------------------------------------------------------------------------
(* What the dithering counts on as shown, and carries the difference to,   *)
(* is what the LED gets in this turn.                                      *)
LedShowsOut == spi_pc = "begin" /\ whole => sent[8] = <<"r", 0, out>>
=============================================================================
