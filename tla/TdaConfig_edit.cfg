SPECIFICATION FairSpec
CONSTANTS
  Items = 2
  MaxValue = 0
  Absent = Absent
  Partial = Partial
  DspLen = 1
  Timeout = 0
  MaxPass = 1
  Levels <- SavedLevel
  MayLose = TRUE
  MayRestart = FALSE
INVARIANTS EditsShown SaveNeedsTurn TurnBelongs
PROPERTIES GivenBack
