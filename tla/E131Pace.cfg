CONSTANTS
  MaxStrips = 2
  CounterMod = 6
SPECIFICATION FairPaceSpec
INVARIANT AtMostAStripAhead
PROPERTY ReturnsToRecv
