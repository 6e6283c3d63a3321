CONSTANTS
  MaxRequests = 3
  MaxRecvs = 2
  Window = 2
  SendWindow = 4
  GroupSizes = {1, 2}
  Tags = {0, 1}
  Sizes = {1}
  Rooms = {1}
  Mems = {"gpu"}
  ArThreshold = 1
  MayFail = FALSE
  MaxSteps = 4
SPECIFICATION Spec
CHECK_DEADLOCK FALSE
INVARIANTS
  DataInOrder
  RefusalsJust
