SPECIFICATION Spec
CONSTANTS
  Samplers = {s1, s2}
  Pages = 4
  Line = 2
  LargeAddressAware = TRUE
  Thresholds <- MCThresholds
  Tracked = 2
  MaxUpsets = 2
  MaxSamples = 2
  Refreshers = {t1, t2}
  Main = main
  Pools = {main, side}
  Words = 6
  MaxBlocks = 2
  MaxRefreshes = 2
  MaxMoves = 1
SYMMETRY Symmetry
INVARIANTS
  ReadsTheSmaller
CHECK_DEADLOCK FALSE
