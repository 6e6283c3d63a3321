CONSTANTS
  MaxRequests = 3
  MaxRecvs = 1
  Window = 2
  SendWindow = 2
  GroupSizes = {1}
  Tags = {1, 2}
  Sizes = {1}
  Rooms = {1}
  Mems = {"gpu", "page"}
  ArThreshold = 0
  MayFail = FALSE
  MaxSteps = 5
SPECIFICATION Spec
INVARIANTS
  TypeOK
  AnnouncementKept
  CompletionsLive
  PoolSuffices
  FifoQueueFits
PROPERTIES
  ImplementsChannel
CHECK_DEADLOCK FALSE
