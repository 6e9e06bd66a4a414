\* Two game threads, a VSH thread and a driver; no thread is born during an operation.
CONSTANTS
  t1 = t1
  t2 = t2
  s1 = s1
  d1 = d1
  None = None
  Game <- TwoGameThreads
  System <- OneSystem
  Drivers <- OneDriver
  MaxTries = 2
  MaySpawn = FALSE
SPECIFICATION Spec
SYMMETRY Symmetry
INVARIANTS
  TypeOK GameStopped PointIsUsable
PROPERTIES
  ResumesItsOwn
