CONSTANTS
  Ranks = {r1, r2}
  Traces <- TwoLines
  InputLen = 6
  BatchSize = 2
  BlockSize = 2
  NumDecodingStep = 1
  WireSlots = 2
SPECIFICATION Spec
CHECK_DEADLOCK FALSE
INVARIANT RanksAgree
