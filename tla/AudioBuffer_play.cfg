SPECIFICATION FairSpec
CONSTANTS
  Main = 4
  Res = 2
  MaxRet = 2
  MaxBlock = 2
  Length = 9
INVARIANTS NoOverrun UnreadInOrder BlockIntact NobodyWaits
PROPERTIES ImplementsFifo PlaysOn
