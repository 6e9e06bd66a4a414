\* Ramp: the code's numbers. Rails: two, of three levels. Settings page: three clock steps, the two
\* lowest limits, of the gamma scale the two values at its end and what lies beyond. HUD: one axis,
\* three values. Curve: the ends and the middles of the ranges. Counter: a second of twelve ticks, a
\* window of three, three places of which the two worst count. Format: a grid of four, eight chunks.
CONSTANTS
  Full = 511
  Step = 18
  Guard = 64
  Freqs <- AllFreqs
  Buses <- AllBuses
  Starts <- Corners
  Rails <- TwoRails
  Builtin <- TwoBuiltin
  MaxLevel = 2
  Groups = {"debug","fps","batt","charge","clock","limit","video","flags","corner","gamma","temp"}
  LimitTop = 21
  GammaTop = 102
  GammaLow = 99
  TempTop = 3
  Neutral = 1
  MahTop = 1200
  MahAccepted = 1400
  LearnMax = 300
  Steps = 3
  Axes = {"temp"}
  HudLow = 0
  HudTop = 2
  GammaSpan = {50, 100, 173}
  TempSpan = {0, 100, 173}
  Samples = {0, 1, 15, 31, 63, 128, 200, 255}
  Offsets = {0, 1540096}
  Strides = {60, 64, 512}
  Heights = {271, 368}
  Floor = 2
  Quiet = 3
  Lull = 2
  Window = 3
  LowEvery = 4
  Second = 12
  Slots = 3
  Worst = 2
  End = 13
  FlipCap = 4
  Grid = 4
  RecordHead = 1
  Bound = 5
  Buffer = 24
  Unit = 12
  Packed = {2}
  Chunks <- SectionChunks
  Contexts = {0, 1}
INIT RoutinesInit
NEXT RoutinesNext
CHECK_DEADLOCK FALSE
INVARIANTS
  RoutineTypesOK PageKeeps UnsavedIsMarked CurveIsDrawn CountsAreTrue SectionsReadBack
PROPERTIES
  RampLands RailsHold
