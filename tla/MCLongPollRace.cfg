SPECIFICATION Spec
CONSTANTS
  k1 = k1
  k2 = k2
  p1 = p1
  Keys <- MCKeys
  Pollers <- MCPollers
  PollKey <- MCPollKey
  LogLength = 1
  MaxReloads = 1
INVARIANTS
  ReturnsWhenPassed
