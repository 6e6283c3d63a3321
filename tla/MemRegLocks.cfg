CONSTANTS
  Threads = {t1, t2, t3}
  GpuBases = {g1, g2}
  HostBases = {}
  NDevs = 2
  CtlDevs = {1}
  Serial = FALSE
  MayFail = TRUE
  MaxCalls = 3
SPECIFICATION Spec
PROPERTY CallsReturn
CHECK_DEADLOCK FALSE
