SPECIFICATION Spec
CONSTANTS
  ImageCounts = {2, 3}
  Sizes = {1, 2}
  Dictated = TRUE
  MaxResizes = 2
CHECK_DEADLOCK FALSE
INVARIANTS
  TypeOK
  AcquiredFree
  RenderedFree
  FenceSignals
  PoolIdle
  BufferFree
  NoStall
  NoTornImage
PROPERTIES
  IndexLeavesRange
