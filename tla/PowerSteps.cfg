\* One step above stock, two voltage levels, one save state.
CONSTANTS
  MaxStep = 1
  Targets <- SyncOnly
  MaxLevel = 1
  Stock = 0
  ChipOk = TRUE
  EarlySleep = FALSE
  PromptFails = FALSE
  SlowExit = FALSE
  LoadVouches = TRUE
  PollCut = FALSE
SPECIFICATION Spec
INVARIANTS
  TypeOK
  ClockIsStep
  ExitLeavesStock
  VoltsOwed
  StockMeansStock
  ClockHasConsent
  
