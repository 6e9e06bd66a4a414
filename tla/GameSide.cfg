\* Gamma: two changes, the second taking back the first, one list ahead. Video: a capture window
\* of four reads. Pads: two readers of a ring of two, a clock of six. Cheats: two options of short
\* texts; two unlocks. Frame limit: two periods, one thread, a clock of sixteen. Menu: two folders,
\* two names of which one may be listed, one press or deletion, two attempts. Overlay: one
\* threshold, one load.
CONSTANTS
  Ahead = 1
  Changes = 2
  Cap = 4
  Reaction = 2
  Grace = 2
  Ring = 2
  Count = 2
  Calls = 4
  Wrap = 6
  MaxOptions = 2
  MaxLines = 3
  MaxCheatLines = 2
  Names = {"a"}
  KeptName <- Whole
  TextLength = 5
  Unlocks <- Apart
  MaxBackup = 2
  Gated = 5
  VBlank = 1
  StopPolls = 6
  Periods = {2, 3}
  CounterWrap = 16
  Overrun = 1
  LatchAt = 2
  ReprobeEvery = 2
  TwoThreads = FALSE
  Horizon = 20
  Games <- TwoGames
  RunningGame <- ThisGame
  SaveSlots <- TwoSlots
  RowCap = 1
  Tries = 2
  Edits = 1
  WakeCap = 1
  Thresholds = {0, 80}
  Charges = {80}
  CreateFails = TRUE
  Preempts = TRUE
INIT GameSideInit
NEXT GameSideNext
\* a race, a torn read, and the game's exit end the run
CHECK_DEADLOCK FALSE
INVARIANTS
  GameSideTypesOK CurveLaidOnce StubsAreOwn PadsAreGames DatabaseOffered CheatsGiveBack PacedRight BrowserAgrees
PROPERTIES
  FilesKept ChargerFollows
