\* One save file, two game states, two load addresses of the plugin.
CONSTANTS
  p1 = p1
  p2 = p2
  g1 = g1
  g2 = g2
  b1 = b1
  b2 = b2
  Paths <- OnePath
  Gens <- TwoGens
  Bases <- TwoBases
  Junk = Junk
  Blob = Blob
  NoFile = NoFile
  Outside = Outside
  Zero = Zero
  SlowResume = FALSE
SPECIFICATION Spec
SYMMETRY Symmetry
INVARIANTS
  TypeOK
  RunningConsistent
  AcceptedIsComplete
  
  
PROPERTIES
  LoadLeavesFiles
  KeepsPromise
