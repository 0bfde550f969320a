\* Destroy while the send window is full.
SPECIFICATION FairSpec
CONSTANTS
  SessionIds = {c, s1}
  InvalidSessionId = InvalidSessionId
  WindowSize = 2
  MaxRetransmits = 1
  FastRetransmitThreshold = 1
  MaxUnacknowledgedThreshold = 2
  Client = c
  Servers = {s1}
  MaxRequests = 2
  MaxReplies = 0
  MaxQueue = 6
  MaxDupAcks = 6
  MaxFaults = 0
  FaultKinds = {}
  Teardowns = {"destroyNear"}
  Timely = TRUE
PROPERTY
  DestroyCompletes
\* The owners may stop calling at any time.
CHECK_DEADLOCK FALSE
