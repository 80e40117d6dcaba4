SPECIFICATION Spec
CONSTANTS
  Publisher = publisher
  Subscribers = {s1, s2}
  Chunk = {c1, c2}
  NoProcess = nobody
  NoChunk = nochunk
  MaxMessages = 3
INVARIANT MutualExclusion
CHECK_DEADLOCK FALSE
