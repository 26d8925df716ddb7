SPECIFICATION FairSpec
CONSTANTS
  Config <- Defaults
  Sizes <- SmallAndLarge
  FreeBlocks <- Blocks
  Threads = {render}
  MaxDepth = 3
  MaxTime = 3
INVARIANTS
  RescuesDoNotNest
  EngineNotReentered
  ResetNotDisturbed
  LaddersBounded
  EpisodeStartsFresh
PROPERTIES
  RetriesEscalate
  CreatesReturn
