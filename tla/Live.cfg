\* The freeze: one game thread that keeps running, a VSH thread and a driver. POPS: one correction.
CONSTANTS
  t1 = t1
  t2 = t2
  s1 = s1
  d1 = d1
  None = None
  Game <- OneGameThread
  System <- OneSystem
  Drivers <- NoDriver
  MaxTries = 2
  MaySpawn = TRUE
  Stable = 2
SPECIFICATION LiveSpec

  
PROPERTIES
  FreezeReturns PopsGivesBack
