SPECIFICATION Spec
CONSTANTS
  Threads = {render, loader}
  Places = {a1, a2}
  Wrappers = {w1, w2}
  Nowhere = Nowhere
  Requests = {"large", "plain", "cube"}
  PreferDefault = TRUE
  FallBackToManaged = TRUE
SYMMETRY Alike
INVARIANTS
  RelocatedIsWrapped
  HeldIsCounted
  CountedExists
  TotalsMatch
  NothingLost
