SPECIFICATION FairSpec
CONSTANTS
  c1 = c1
  c2 = c2
  Clients = {c1, c2}
  Pages = {"p", "q"}
  None = None
  MaxSize = 2
  MaxIndex = 3
  Word = 8
  Minute = 3
  Byte = 8
  Delays <- MCDelays
  DspLen = 2
  Turns = 2
  Scenarios <- MCScenarios
INVARIANTS LockedForDownload PagesWhole OnTime ReturnPending
PROPERTIES ScreenReturns
CHECK_DEADLOCK FALSE
