SPECIFICATION FairSpec
CONSTANTS
  MetaInt = 2
  Unit = 2
  MaxUnits = 1
  Window = 5
  MaxAgain = 4
  Bytes = 4
  Responses <- MCResponses
INVARIANTS TypeOK InOrder TitlesWhole NeverStarved
PROPERTY AllRead
CHECK_DEADLOCK FALSE
