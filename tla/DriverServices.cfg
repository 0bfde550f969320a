SPECIFICATION ServicesSpec
CONSTANTS
  Services = {"rgp", "uri", "log"}
  oldTool = oldTool
  newTool = newTool
  Tools = {oldTool, newTool}
  NoTool = NoTool
  Versions <- OldAndNew
  Window = 1
  MaxChunks = 2
  MaxCalls = 5
  Links = {k1, k2}
  NoLink = NoLink
  MaxBlocks = 4
  LinkWindow = 1
  MaxSize = 2
  MaxInline = 1
  ResponseSizes = {0, 2}
  Askers = {u1}
  MaxRequests = 2
  MaxLate = 1
  Readers = {l1}
  Levels = {1, 2}
  LogWindow = 1
  MaxCategories = 1
  MaxLogs = 3
  MaxLogCalls = 3
  MaxLogLate = 1
INVARIANTS
  ServicesTypeOK
  TraceHasOwner
  TraceNeedsProfiling
  OnlyOwnerHasChunks
  TraceComplete
  PendingMatchesHolders
  PulledIsStable
  
  
  
  LogsInOrder
  DisabledIsQuiet
  SentinelIsComing
SYMMETRY AnyLink
CHECK_DEADLOCK FALSE
