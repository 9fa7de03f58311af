SPECIFICATION Spec
CONSTANTS
  Texts = {"sub"}
  MayFail = {}
  Windows = {"reading"}
  MaxInputs = 1
  MaxChanges = 2
  Events = {added}
  MaxQueued = 1
CHECK_DEADLOCK FALSE
PROPERTIES
  ImplementsExplorer
