SPECIFICATION FairSpec
CONSTANTS
  Game = {render}
  Sampler = sampler
  Writer = writer
  Nobody = Nobody
  QueueLimit = 2
  Interval = 2
  MaxLines = 4
  MaxInline = 1
INVARIANTS
  WrittenInOrder
PROPERTIES
  EveryLineWritten
  NobodyStuck
  RequestServed
CHECK_DEADLOCK FALSE
