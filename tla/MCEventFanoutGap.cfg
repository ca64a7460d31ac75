SPECIFICATION Spec
CONSTANTS
  r1 = r1
  w1 = w1
  k1 = k1
  k2 = k2
  Replicas <- MCReplicas
  Watchers <- MCWatchers
  Keys <- MCKeys
  Watched <- MCWatched
  RingSize = 2
  MaxEvents = 2
  MaxFaults = 2
PROPERTIES
  GapIsReplayed
