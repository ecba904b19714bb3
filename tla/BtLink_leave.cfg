SPECIFICATION Spec
CONSTANTS
  Spontaneous <- FewLines
  AckTimeout = 1
  HeartbeatTimeout = 1
  RxLen = 1
  TxLen = 1
PROPERTY LeavingPauses
