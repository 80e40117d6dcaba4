\* Synchronous = FALSE with CanTimeout = TRUE: what either kind of publisher may do.
SPECIFICATION Spec
CONSTANTS
  s1 = s1
  s2 = s2
  Slots <- TwoSlots
  SlotCount = 3
  ChunkCount = 3
  MaxSeq = 4
  Synchronous = FALSE
  CanTimeout = TRUE
  CrashMidRead = TRUE
CHECK_DEADLOCK FALSE
INVARIANTS TypeOK NoLap UnreadIsHeld CountIsZero FreeListSound OnePusher NobodyFails
PROPERTIES ImplementsLog
