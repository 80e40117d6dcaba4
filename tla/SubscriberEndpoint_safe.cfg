SPECIFICATION Spec
CONSTANTS
  Attachments = 2
  MaxMessages = 2
  FdLimit = 8
  MaxEvents = 2
  MaxBatch = 2
  Modes <- Both
  MaxFaults = 1
  MaxMoves = 1
  BrokerMayEnd = TRUE
CHECK_DEADLOCK FALSE
INVARIANTS TypeOK DescriptorsAreOwned EventsFindTheirSegment NothingIsForgotten NothingEndsByItself MessagesAreDeliveredOnce
PROPERTIES LossIsReported ImplementsSubscription
