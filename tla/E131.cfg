CONSTANTS
  SeqMod = 16
  Window = 4
  LedCount = 2
  Kinds = {"tiny", "outside", "all"}
  InFlight = 2
  MaxDelay = 2
SPECIFICATION Spec
INVARIANTS FreshAccepted RestartHeard
