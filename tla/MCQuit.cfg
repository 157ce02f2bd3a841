CONSTANTS
  EventCapacity = 1
  CommandCapacity = 2
  SocketCapacity = 1
  HistoryLimit = 2
  ErrorLimit = 2
  MaxTraces = 1
  MaxKeys = 2
  MaxWaiting = 2
SPECIFICATION FairSpec
CHECK_DEADLOCK FALSE
PROPERTIES
  QuitObeyed
