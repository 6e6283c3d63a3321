CONSTANTS
  Ranks = {r1}
  Traces <- MCTraces
  InputLen = 6
  BatchSize = 2
  BlockSize = 2
  NumDecodingStep = 1
  WireSlots = 2
SPECIFICATION FairSpec
CHECK_DEADLOCK FALSE
INVARIANTS
  TypeOK
  NothingLost
  NoLostWakeup
  HandoffAgrees
  KvFits
PROPERTY Served
