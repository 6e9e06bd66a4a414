\* As GameSide.cfg: picking another folder and closing leaves its frame limit.
CONSTANTS
  Games <- TwoGames
  RunningGame <- ThisGame
  SaveSlots <- TwoSlots
  RowCap = 1
  Tries = 2
  Edits = 1
  WakeCap = 1
SPECIFICATION MenuSpec
INVARIANT LimitIsGames
