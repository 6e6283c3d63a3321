CONSTANTS
  BatchSizes = {1, 2, 4}
  InputLens = {1, 2, 3, 4}
  BlockSizes = {1, 2, 3}
  DecodingSteps = {0, 1, 3}
SPECIFICATION FairSpec
CHECK_DEADLOCK FALSE
INVARIANTS
  TypeOK
  RowsFollowRequests
  TokenHasBlock
  CacheHolds
PROPERTY Finishes
