CONSTANTS
  Digits = 4
  Lengths = {1, 2}
  Keys = {}
  MAXPAIR = 80
  MixInputs = {}
SPECIFICATION HashSpec
INVARIANT SelfTestPasses
CHECK_DEADLOCK FALSE
