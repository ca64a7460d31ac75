SPECIFICATION FairSpec
CONSTANTS
  r1 = r1
  w1 = w1
  k1 = k1
  k2 = k2
  Replicas <- MCReplicas
  Watchers <- MCWatchers
  Keys <- MCKeys
  Watched <- MCWatched
  RingSize = 1
  MaxEvents = 3
  MaxFaults = 2
INVARIANTS
  TypeOK
  NothingFallsBetween
  EmittedInOrder
  BroadcastInOrder
PROPERTIES
  OwedIsSettled
  ImplementsWatchStream
