CONSTANTS
  c1 = c1
  c2 = c2
  adc = adc
  ddc = ddc
  Conns <- Two
  Chans <- OnlyAdc
  ShortChans <- None
  Ops = {"GET_SAMPLES"}
  Vals = {2}
  MaxSamples = 2
  MaxPacket = 1
  SampleSize = 2
  MsgSamples = 1
  IntHalf = 16
SYMMETRY Alike
SPECIFICATION Spec
INVARIANTS
  FreshGetIsExact
  SendsSettledCapture
  OverrunIsBounded
PROPERTIES
  SubmitsOnlyWhenIdle
