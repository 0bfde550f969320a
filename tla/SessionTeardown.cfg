\* Every way to end a session, with one fault of any kind.
SPECIFICATION Spec
CONSTANTS
  SessionIds = {c, s1}
  InvalidSessionId = InvalidSessionId
  WindowSize = 2
  MaxRetransmits = 1
  FastRetransmitThreshold = 1
  MaxUnacknowledgedThreshold = 2
  Client = c
  Servers = {s1}
  MaxRequests = 1
  MaxReplies = 0
  MaxQueue = 2
  MaxDupAcks = 2
  MaxFaults = 1
  FaultKinds <- AllFaults
  Teardowns <- AllTeardowns
  Timely = TRUE
INVARIANT
  DestroyedHasNoneEstablished
PROPERTIES
  
  ImplementsStream
\* The owners may stop calling at any time.
CHECK_DEADLOCK FALSE
