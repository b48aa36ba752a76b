CONSTANTS
  c1 = c1
  c2 = c2
  adc = adc
  ddc = ddc
  Conns <- One
  Chans <- OnlyDdc
  ShortChans <- OnlyDdc
  Ops <- AllOps
  Vals = {0, 1, 3, 4, 8}
  MaxSamples = 3
  MaxPacket = 2
  SampleSize = 2
  MsgSamples = 2
  IntHalf = 16
SPECIFICATION FairSpec
INVARIANTS
  TypeOK
  FreshGetIsExact
  OvershootWithinPacket
PROPERTIES
  CommandEnds
