SPECIFICATION FairSpec
CHECK_DEADLOCK FALSE
INVARIANTS
  TypeOK
  NoUseAfterRelease
  LiveOnWhatItNeeds
PROPERTIES
  QuitExits
