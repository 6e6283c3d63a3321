CONSTANTS
  Procs = {"a", "b"}
  Conns = {"ab1", "ab2", "ba"}
  From <- PairFrom
  To <- PairTo
  Dev <- PairDev
  NNics = 2
  NChannels = 2
  Channel2NIC <- Mapping
  MaxChannel = 3
  Pieces = 2
SPECIFICATION Spec
INVARIANTS TypeOK LinksPaired  RowsOwned PdsCounted HandedOutTogether
PROPERTY SetupCompletes
CHECK_DEADLOCK FALSE
