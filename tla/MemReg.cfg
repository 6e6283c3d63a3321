CONSTANTS
  Threads = {t1, t2, t3}
  GpuBases = {g}
  HostBases = {h}
  NDevs = 2
  CtlDevs = {1, 2}
  Serial = TRUE
  MayFail = TRUE
  MaxCalls = 3
SPECIFICATION Spec
INVARIANTS TypeOK RefsCounted OneRegionPerBase NoMrLeft
 
CHECK_DEADLOCK FALSE
