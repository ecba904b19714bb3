SPECIFICATION Spec
CONSTANTS
  web = web
  Tasks <- OneTask
  Scenarios <- PlayOnly
  QueueLen = 1
  Stations = 1
  Word = 3
  SlowPasses = TRUE
  Byte = 1
  Loudest = 0
INVARIANTS StopsOnSwitch
