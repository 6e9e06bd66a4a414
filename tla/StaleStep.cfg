\* As Routines.cfg: only the frame limit is edited.
CONSTANTS
  Groups = {"limit"}
  LimitTop = 21
  GammaTop = 102
  GammaLow = 99
  TempTop = 3
  Neutral = 1
  MahTop = 1200
  MahAccepted = 1400
  LearnMax = 300
  Steps = 3
INIT PageInit
NEXT PageNext
INVARIANT StaleNeverSteps
