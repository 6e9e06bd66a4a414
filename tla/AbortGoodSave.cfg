\* A save over an existing save gives up before it wrote anything.
CONSTANTS
  p1 = p1
  p2 = p2
  g1 = g1
  g2 = g2
  b1 = b1
  b2 = b2
  Paths <- OnePath
  Gens <- OneGen
  Bases <- OneBase
  Junk = Junk
  Blob = Blob
  NoFile = NoFile
  Outside = Outside
  Zero = Zero
  SlowResume = FALSE
SPECIFICATION Spec
PROPERTY
  AbortKeepsGoodSave
