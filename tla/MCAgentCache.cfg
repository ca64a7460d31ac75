SPECIFICATION FairSpec
CONSTANTS
  k1 = k1
  k2 = k2
  k3 = k3
  Keys <- MCKeys
  Watched <- MCWatched
  MaxEvents = 4
  MaxFaults = 2
CHECK_DEADLOCK FALSE
INVARIANTS
  TypeOK
  StaleOnlyIfComing
  EntriesAreLabelled
PROPERTIES
  CursorNeverRegresses
  ValuesNeverRegress
  EventuallyConverges
