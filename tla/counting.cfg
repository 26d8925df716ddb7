SPECIFICATION CountingSpec
CONSTANTS
  Threads = {t1, t2}
  Slots = 2
  MaxModules = 1
  WatchThreshold = 2
  Backtraces <- MCBacktraces
  Sizes <- MCSizes
  MaxNotes = 5
  Uploaders = {u1, u2}
  Handles = {h1, h2, h3}
  NoHandle = NoHandle
  Shapes <- MCShapes
  Budget = 40
  MaxEntries = 2
  MaxWrites = 2
INVARIANTS
  RecordsAccounted
  ReportAddsUp
  StagingOwnedOnce
  ShownUnlessOvertaken
  SectionSound
SYMMETRY Alike
CHECK_DEADLOCK FALSE
