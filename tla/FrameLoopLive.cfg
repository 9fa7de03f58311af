SPECIFICATION FairSpec
CONSTANTS
  ImageCounts = {2}
  Sizes = {1, 2}
  Dictated = TRUE
  MaxResizes = 1
CHECK_DEADLOCK FALSE
PROPERTIES
  LoopRuns
  QuitReleases
  RebuildingEnds
