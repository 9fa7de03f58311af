SPECIFICATION FairSpec
CONSTANTS
  Events = {added, removed}
  MaxQueued = 2
  MaxEvents = 1
  MaxMoves = 0
CHECK_DEADLOCK FALSE
PROPERTIES
  DestroyReturns
