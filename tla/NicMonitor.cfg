CONSTANTS
  NGroups = 2
  NChannels = 2
  PriorityDev = 0
  Timeout = 1
  MaxSweep = 1
SPECIFICATION Spec
INVARIANTS TypeOK IdleMeansQuiet
PROPERTY QuietBecomesIdle
CHECK_DEADLOCK FALSE
