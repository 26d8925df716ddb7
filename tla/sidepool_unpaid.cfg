SPECIFICATION Spec
CONSTANTS
  Threads = {t1}
  MainPlaces = {m1}
  ArenaPlaces = {a1}
  Elsewhere = Elsewhere
  Configs <- Inis
  MaxSize = 2
INVARIANT
  PoolsFit
CHECK_DEADLOCK FALSE
