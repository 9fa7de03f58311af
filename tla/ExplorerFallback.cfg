SPECIFICATION Spec
CONSTANTS
  Texts = {"sub"}
  MayFail = {}
  Windows = {"reading"}
  MaxInputs = 2
  MaxChanges = 2
CHECK_DEADLOCK FALSE
INVARIANTS
  FallbackShowsProject
