SPECIFICATION Spec
CONSTANTS
  Events = {added, removed}
  MaxQueued = 2
  MaxEvents = 2
  MaxMoves = 1
CHECK_DEADLOCK FALSE
INVARIANTS
  EveryChangeNotified
