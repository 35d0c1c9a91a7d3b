SPECIFICATION FairSpec
CONSTANTS
  Worlds <- MCWorlds
  HeaderSize = 1
  MaxDatagram = 10
  Interfaces = 2
INVARIANTS HoldsWhatItTook NoCircularWait DiesForCause
PROPERTIES ComesUp TurnsEnd
CHECK_DEADLOCK FALSE
