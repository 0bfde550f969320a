\* What must happen although the channel loses a datagram.
SPECIFICATION FairSpec
CONSTANTS
  SessionIds = {c, s1}
  InvalidSessionId = InvalidSessionId
  WindowSize = 3
  MaxRetransmits = 1
  FastRetransmitThreshold = 1
  MaxUnacknowledgedThreshold = 2
  Client = c
  Servers = {s1}
  MaxRequests = 2
  MaxReplies = 0
  MaxQueue = 6
  MaxDupAcks = 6
  MaxFaults = 1
  FaultKinds = {"drop"}
  Teardowns = {"disconnect", "destroyNear"}
  Timely = TRUE
PROPERTIES
  HandshakeEnds
  SentIsDelivered
  DisconnectCompletes
  DestroyCompletes
\* The owners may stop calling at any time.
CHECK_DEADLOCK FALSE
