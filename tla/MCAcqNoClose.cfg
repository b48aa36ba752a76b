CONSTANTS
  c1 = c1
  c2 = c2
  adc = adc
  ddc = ddc
  Conns <- One
  Chans <- OnlyAdc
  ShortChans <- None
  Ops <- Acquisition
  Vals = {1, 4}
  MaxSamples = 3
  MaxPacket = 2
  SampleSize = 2
  MsgSamples = 1
  IntHalf = 16
SPECIFICATION FairSpec
PROPERTIES
  ErrorClosesSocket
