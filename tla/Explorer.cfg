SPECIFICATION FairSpec
CONSTANTS
  Texts = {"/", "sub", "file"}
  MayFail = {"project"}
  Windows = {"reading", "narrow"}
  MaxInputs = 2
  MaxChanges = 2
CHECK_DEADLOCK FALSE
INVARIANTS
  TypeOK
  Fresh
  ShowsWatched
  EnterKeepsFlag
  
PROPERTIES
  Settles
  EnterAnswered
