CONSTANTS
  Threads = {t1, t2}
  GpuBases = {g}
  HostBases = {h}
  NDevs = 2
  CtlDevs = {1}
  Serial = FALSE
  MayFail = FALSE
  MaxCalls = 3
SPECIFICATION Spec
PROPERTY FreedAtZero
CHECK_DEADLOCK FALSE
