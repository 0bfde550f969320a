\* Connect while the message thread ends, without any fault of the channel.
SPECIFICATION FairSpec
CONSTANTS
  SessionIds = {c, s1}
  InvalidSessionId = InvalidSessionId
  WindowSize = 2
  MaxRetransmits = 1
  FastRetransmitThreshold = 1
  MaxUnacknowledgedThreshold = 2
  Client = c
  Servers = {s1}
  MaxRequests = 1
  MaxReplies = 0
  MaxQueue = 4
  MaxDupAcks = 4
  MaxFaults = 0
  FaultKinds = {}
  Teardowns = {"destroyNear"}
  Timely = TRUE
PROPERTY
  ConnectReturns
\* The owners may stop calling at any time.
CHECK_DEADLOCK FALSE
