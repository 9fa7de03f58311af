SPECIFICATION Spec
CONSTANTS
  Instances = {i1, i2, i3}
  PageTypes = {"custom", "resource", "scene"}
  PageNames = {"", "mine"}
  NoFile = NoFile
  Empty = Empty
  Broken = Broken
  MaxTouches = 1
CHECK_DEADLOCK FALSE
INVARIANTS
  TypeOK
  ThrowsExplained
  ExistingKept
  UntouchedShowsExplorer
