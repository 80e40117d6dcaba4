SPECIFICATION FairSpec
CONSTANTS
  s1 = s1
  s2 = s2
  Slots <- TwoSlots
  SlotCount = 3
  ChunkCount = 3
  MaxSeq = 4
  Synchronous = FALSE
  CanTimeout = TRUE
  CrashMidRead = FALSE
CHECK_DEADLOCK FALSE
INVARIANTS FreeListComplete
PROPERTIES EveryMessageArrives BlockedPublisherResumes
