SPECIFICATION Spec
CONSTANTS
  Game = {render}
  Sampler = sampler
  Writer = writer
  Nobody = Nobody
  QueueLimit = 2
  Interval = 2
  MaxLines = 2
  MaxInline = 1
INVARIANT
  ExitWaitsForNobody
CHECK_DEADLOCK FALSE
