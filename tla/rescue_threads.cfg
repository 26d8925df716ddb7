SPECIFICATION Spec
CONSTANTS
  Config <- Defaults
  Sizes = {3}
  FreeBlocks = {5, 12}
  Threads = {render, loader}
  MaxDepth = 2
  MaxTime = 1
INVARIANT
  LaddersBounded
