CONSTANTS
  HeaderSize = 1
  Lengths = {0, 2}
  RecvSize = 3
  BufLimit = 3
  MaxSent = 4
SPECIFICATION Spec
INVARIANTS TypeOK StreamIntact
PROPERTY CommandsInOrder
