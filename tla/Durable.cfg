CONSTANTS
  N = 3
  Plays <- SmallPlays
  MaxSaves = 2
SPECIFICATION FairSpec
INVARIANTS DurableTypeOK NothingStranded DiskAgreesAtRest RunsOnce RecoveredLandFirst
PROPERTIES KeptOnDisk ComesToRest
CHECK_DEADLOCK FALSE
