CONSTANTS
  Levels = 4
  FrameMod = 8
  Limits = {1, 2}
  Values = {0, 1, 2, 3, 4, 5, 6, 7, 8, 9, 10, 11, 12, 13, 14, 15}
  Enabled = {TRUE, FALSE}
  Progress = {0, 7}
  LumPowers = {2}
  White = 9
  WhiteUnit = 10
  LedsPerStrip = 2
  Strips = 2
  PacketLength = 5
SPECIFICATION FrameSpec
INVARIANTS NeighbouringLevel DroppedInOneRound BetweenFrames SteadyIsExact FrameSent LedShowsOut
