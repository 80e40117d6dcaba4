SPECIFICATION FairSpec
CONSTANTS
  small = small
  large = large
  Calls = 4
  Capacity = 2
  MaxPerEvent = 1
  Class <- TwoClasses
  ClassOf <- ThirdSmall
  Chunks = 1
  MaxControl = 1
  MaxMoves = 1
  CanFail = TRUE
CHECK_DEADLOCK FALSE
INVARIANTS TypeOK PayloadPinned PublishedInOrder TicketsTellTheTruth NoTicketIsBroken
PROPERTIES ImplementsQueue EveryTicketCompletes
