CONSTANTS
  Enable = 8
  Depth = 2
  MaxTriggers = 1
  MaxOffset = 5
  MaxWords = 9
  Ids = {"ADC"}
  SampleCounts <- BothCounts
SPECIFICATION Spec
INVARIANTS
  LossIsFlagged
CHECK_DEADLOCK FALSE
