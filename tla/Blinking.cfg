CONSTANTS
  Levels = 256
  FrameMod = 256
  Limits = {8}
  Values = {20}
  Enabled = {TRUE}
SPECIFICATION BlinkSpec
PROPERTIES BlinksFast
