SPECIFICATION Spec
CONSTANTS
  Items = 1
  MaxValue = 1
  Absent = Absent
  Partial = Partial
  DspLen = 1
  Timeout = 2
  MaxPass = 1
  Levels <- MainLevels
  MayLose = FALSE
  MayRestart = FALSE
INVARIANTS InactivityExits
