SPECIFICATION Spec
CONSTANTS
  Threads = {t1, t2}
  MainPlaces = {m1, m2}
  ArenaPlaces = {a1}
  Elsewhere = Elsewhere
  Configs <- Inis
  MaxSize = 2
SYMMETRY Alike
INVARIANTS
  ClaimedOnce
  PublishedWhole
  PaidPoolsFit
CHECK_DEADLOCK FALSE
