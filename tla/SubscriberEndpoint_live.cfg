SPECIFICATION FairSpec
CONSTANTS
  Attachments = 2
  MaxMessages = 1
  FdLimit = 10
  MaxEvents = 4
  MaxBatch = 2
  Modes <- Both
  MaxFaults = 0
  MaxMoves = 1
  BrokerMayEnd = FALSE
CHECK_DEADLOCK FALSE
PROPERTIES EveryAnnouncementIsHandled
