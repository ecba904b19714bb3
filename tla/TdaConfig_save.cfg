SPECIFICATION Spec
CONSTANTS
  Items = 1
  MaxValue = 1
  Absent = Absent
  Partial = Partial
  DspLen = 1
  Timeout = 0
  MaxPass = 0
  Levels <- SavedLevel
  MayLose = FALSE
  MayRestart = TRUE
INVARIANTS FileOldOrNew
PROPERTIES ChipFollowsFlash
