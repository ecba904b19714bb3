SPECIFICATION FairSpec
CONSTANTS
  Spontaneous <- LineKinds
  AckTimeout = 1
  HeartbeatTimeout = 0
  RxLen = 1
  TxLen = 2
INVARIANTS LinkInv SendBudget PlayingAgrees AnswerUnderWay
PROPERTIES QuietBeforeDrop ImplementsExchange SilenceNoticed
