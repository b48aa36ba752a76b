CONSTANTS
  MaxPulses = 6
SPECIFICATION FairSpec
INVARIANTS
  TypeOK
  NoneSkipped
  OneFront
  PendingIsNew
PROPERTIES
  TransferSpec
  TransferLive
  NeverTwice
