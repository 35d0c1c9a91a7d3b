CONSTANTS
  Second = 2
  IdleSeconds = 2
  DemoModes = {"none", "black", "fade", "id"}
  Datagrams <- MCDatagrams
  BufferSize = 4
  Sector = 10
  BaseBrightness = 49
  BrightnessChange = 32
  IndexMod = 70
  PictureLeds = 2
  PictureStrips = 4
SPECIFICATION SourcesSpec
INVARIANTS OneLateDemoFrame FrameIsOfOneDatagram
PROPERTIES DemoStopsForRemote DemoTakesOver FadeStepsAreSmall
