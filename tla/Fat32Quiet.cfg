SPECIFICATION FairSpec
CONSTANTS
  LastCluster = 6
  Backed = {2, 3, 4, 5}
  SlotsPerCluster = 2
  Names = {t, d}
  NoName = none
  TestName = t
  MaxLen = 3
  Lengths = {1, 3}
  Look <- MCLook
  Faults = {}
INVARIANTS NoLeak UniqueNames
PROPERTIES OkMeansDone CommandEnds
