SPECIFICATION Spec
CONSTANTS
  NChips = 4
  InstBits = 2
  DataBits = 3
  Addrs = {0, 1, 2}
  Values = {1, 2}
  InitMem <- MCInitMem
  LockReg = 2
  cdce72010_reg <- MCcdce72010_reg
  DivReg = 1
  ModeReg = 1
  FastDivs = {1}
  HighSpeed = 1
  LowSpeed = 2
  DelayFor <- MCDelayFor
  MAX_PLL_LOCK_TRIES = 2
  MAX_MMCM_LOCK_TRIES = 2
INVARIANT AdcModeSet
