SPECIFICATION FairSpec
CONSTANTS
  Events = {added, removed}
  MaxQueued = 2
  MaxEvents = 3
  MaxMoves = 1
CHECK_DEADLOCK FALSE
INVARIANTS
  TypeOK
  Conserved
  NeverSilent
  NoLostChange
PROPERTIES
  EveryChangeDelivered
  WatchThreadStops
  ImplementsDirectoryWatch
