\* As GameSide.cfg: the game hands over lists on one thread and presents its frames on another.
CONSTANTS
  Periods = {2, 3}
  CounterWrap = 16
  Overrun = 1
  LatchAt = 2
  ReprobeEvery = 2
  TwoThreads = TRUE
  Horizon = 20
INIT PaceInit
NEXT PaceNext
\* the clock's horizon
CHECK_DEADLOCK FALSE
INVARIANT PacedOnce
