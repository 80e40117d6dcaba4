SPECIFICATION FairSpec
CONSTANTS
  Threads = {t1, t2}
  Level = {1, 2}
  DefaultLevel = 1
  NoLevel = nolevel
  Threshold = 3
  MaxCalls = 3
CHECK_DEADLOCK FALSE
INVARIANTS LinesInOrder StopWritesEverything
PROPERTIES BackendGetsDone
