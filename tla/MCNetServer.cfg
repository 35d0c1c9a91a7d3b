SPECIFICATION FairSpec
CONSTANTS
  c1 = c1
  c2 = c2
  c3 = c3
  Client = {c1, c2, c3}
  Deaf = {c2}
  Resetting = {c2, c3}
  Conn = {p1, p2, p3}
  NULL = NULL
  Descriptors = 2
  Commands <- MCCommands
  Room = 0
INVARIANTS ListIntact SetsAreCurrent
PROPERTIES AnswersBeforeClose NoLeak QueuedAccepted
