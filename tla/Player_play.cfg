SPECIFICATION FairSpec
CONSTANTS
  web = web
  Tasks <- OneTask
  Scenarios <- AllScenarios
  QueueLen = 1
  Stations = 1
  Word = 3
  SlowPasses = TRUE
  Byte = 2
  Loudest = 1
INVARIANTS StatusTellsAudio SilentOutsideWeb LockHasReason SmartstartTruthful UnsavedHasReason
PROPERTIES SwitchSilences VolumeSettles
