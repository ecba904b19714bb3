SPECIFICATION Spec
CONSTANTS
  Items = 1
  MaxValue = 1
  Absent = Absent
  Partial = Partial
  DspLen = 1
  Timeout = 1
  MaxPass = 1
  Levels <- MainLevels
  MayLose = FALSE
  MayRestart = TRUE
INVARIANTS SaveAtomic
