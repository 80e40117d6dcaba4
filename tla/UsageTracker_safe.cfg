SPECIFICATION FairSpec
CONSTANTS
  Publisher = publisher
  Subscribers = {s1, s2}
  Chunk = {c1, c2}
  NoProcess = nobody
  NoChunk = nochunk
  MaxMessages = 4
CHECK_DEADLOCK FALSE
INVARIANTS EntryHasOneUser NoFalseAlarm
PROPERTIES NobodyIsStuck
