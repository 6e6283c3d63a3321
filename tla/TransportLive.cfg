CONSTANTS
  MaxRequests = 3
  MaxRecvs = 1
  Window = 2
  SendWindow = 2
  GroupSizes = {1}
  Tags = {1}
  Sizes = {1, 2}
  Rooms = {1}
  Mems = {"gpu", "host", "page"}
  ArThreshold = 0
  MayFail = TRUE
  MaxSteps = 4
SPECIFICATION FairSpec
CHECK_DEADLOCK FALSE
INVARIANTS
  DataInOrder
  DoneMeansDelivered
  DataQueuesFit
PROPERTIES
  ReceivesComplete
  SendsComplete
