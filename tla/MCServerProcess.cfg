SPECIFICATION FairSpec
CONSTANTS
  c1 = c1
  c2 = c2
  Clients <- MCClients
  IamClients <- MCIamClients
  Outages <- MCOutages
  Environments <- MCEnvironments
  TokenTTL = 4
  MintTime = 1
CHECK_DEADLOCK FALSE
INVARIANTS
  TypeOK
  TokenAgeIsExplained
  NothingLeaks
PROPERTIES
  ConnectionsAreRotated
  FanoutStarts
  EveryRequestSettles
  RefresherRecovers
  OnlyStreamsDelayExit
