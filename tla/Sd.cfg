SPECIFICATION FairSpec
CONSTANTS
  Lba = {0, 1}
  Value = {0, 1}
  Words = 2
  Kinds = {"none", "v1", "v2", "hc"}
  Faults = {"command", "data"}
  Garbage = 7
  BaseMHz = 51
  MaxPolls = 2
INVARIANTS TypeOK ClockWithinLimit
PROPERTIES InitLeavesReady ReadsRecover WritesRecover ImplementsBlockDevice CallsEnd
CHECK_DEADLOCK FALSE
