SPECIFICATION Spec
CONSTANTS
  k1 = k1
  k2 = k2
  k3 = k3
  Keys <- MCKeys
  Watched <- MCWatched
  MaxEvents = 3
  MaxFaults = 0
CHECK_DEADLOCK FALSE
INVARIANTS
  SnapshotIsComplete
