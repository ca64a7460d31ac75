SPECIFICATION FairSpec
CONSTANTS
  k1 = k1
  k2 = k2
  p1 = p1
  Keys <- MCKeys
  Pollers <- MCPollers
  PollKey <- MCPollKey
  LogLength = 3
  MaxReloads = 2
INVARIANTS
  TypeOK
  OnlyRacesOversleep
PROPERTIES
  EventuallyTold
