SPECIFICATION Spec
CONSTANTS
  t1 = t1
  t2 = t2
  a1 = a1
  a2 = a2
  Threads = {t1, t2}
  MaxDepth = 2
  Sizes <- MCSizes
  Addresses = {a1, a2}
  Nowhere = Nowhere
  LogThreshold = 2
  MaxCalls = 4
INVARIANTS
  BytesAccounted
  EntriesMatchHeap
  ScopesMatchStack
SYMMETRY Alike
CHECK_DEADLOCK FALSE
