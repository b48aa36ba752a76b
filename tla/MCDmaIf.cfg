CONSTANTS
  Enable = 8
  Depth = 2
  MaxTriggers = 2
  MaxOffset = 5
  MaxWords = 9
  Ids = {"ADC", "DDC"}
  SampleCounts <- BothCounts
SPECIFICATION FairSpec
INVARIANTS
  TypeOK
  CapturesWhatWasAsked
  CountIsExact
  TransferTakesAll
  ShortByAtMostOne
PROPERTIES
  OutSpec
  TransferEnds
CHECK_DEADLOCK FALSE
