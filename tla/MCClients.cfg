CONSTANTS
  Client = {tool}
  tool = tool
  Scripts <- ScriptsRun
  ReplyCapacity = 1
  BusCapacity = 1
  SocketCapacity = 2
  MaxCommands = 3
  MaxLog = 2
SPECIFICATION ToolFairSpec
CHECK_DEADLOCK FALSE
INVARIANTS
  ToolTypeOK
  AnswersInOrder
  SnapshotsCatchUp
  NoTraceGaps
  FreshResponse
PROPERTIES
  EveryCommandAnswered
  HandlerEnds
  ScriptCompletes
  ToolEnds
