SPECIFICATION FairSpec
CONSTANTS
  h1 = h1
  h2 = h2
  k1 = k1
  k2 = k2
  Handlers <- MCHandlers
  NoHandler = NoHandler
  Keys <- MCKeys
  PagedKeys <- MCPagedKeys
  PageLimit = 1
  MaxId = 4
CHECK_DEADLOCK FALSE
INVARIANTS
  TypeOK
  CommitOrderIsIdOrder
  TableMatchesLog
  DeletesHaveVictims
  NotificationsMirrorLog
  PagingMissesNothing
PROPERTIES
  EveryRequestEnds
  ImplementsConfigStore
