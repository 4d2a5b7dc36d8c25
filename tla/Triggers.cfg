SPECIFICATION FairSpec
CONSTANTS
  Incident = {i}
  Onset <- Distinct
  NoOnset = NoOnset
  InstantOf <- Instants
  Offset = 0
  MaxRank = 2
  MaxTime = 2
INVARIANTS TimersFollowOnsets LightTellsSeverity
PROPERTIES StartsOnce OnsetReached
