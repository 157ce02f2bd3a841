CONSTANTS
  EventCapacity = 1
  CommandCapacity = 2
  SocketCapacity = 1
  HistoryLimit = 1
  ErrorLimit = 1
  MaxTraces = 1
  MaxKeys = 6
  MaxWaiting = 1
SPECIFICATION FairSpec
CHECK_DEADLOCK FALSE
INVARIANTS
  TypeOK
  HistoryShown
PROPERTIES
  SendsReturn
  QuitWhileConnected
