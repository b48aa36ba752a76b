CONSTANTS
  Data = {d}
  Depth = 3
  MaxWords = 6
SPECIFICATION FairSpec
INVARIANTS
  TypeOK
  AtMostTwoInFlight
  InOrder
  CompleteCountsLast
PROPERTIES
  OfferedIsStable
  StreamSpec
  EveryWordDelivered
