SPECIFICATION FairSpec
CONSTANTS
  c1 = c1
  c2 = c2
  Clients <- MCClients
  IamClients <- MCIamClients
  Outages = {}
  Environments <- MCEnvironments
  TokenTTL = 4
  MintTime = 1
CHECK_DEADLOCK FALSE
PROPERTIES
  NoConfigurationNeeded
