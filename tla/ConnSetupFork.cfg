CONSTANTS
  Procs = {"a", "b", "c"}
  Conns = {"ab", "ac"}
  From <- ForkFrom
  To <- ForkTo
  Dev <- ForkDev
  NNics = 2
  NChannels = 2
  Channel2NIC <- Mapping
  MaxChannel = 3
  Pieces = 2
SPECIFICATION Spec
INVARIANT RowsOwned
CHECK_DEADLOCK FALSE
