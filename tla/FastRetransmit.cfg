\* Duplicate acknowledgements; the thresholds of the code.
SPECIFICATION Spec
CONSTANTS
  SessionIds = {c, s1}
  InvalidSessionId = InvalidSessionId
  WindowSize = 4
  MaxRetransmits = 5
  FastRetransmitThreshold = 3
  MaxUnacknowledgedThreshold = 5
  Client = c
  Servers = {s1}
  MaxRequests = 1
  MaxReplies = 0
  MaxQueue = 4
  MaxDupAcks = 8
  MaxFaults = 1
  FaultKinds = {"drop"}
  Teardowns = {}
  Timely = TRUE
INVARIANT
  RetransmitsMessages
\* The owners may stop calling at any time.
CHECK_DEADLOCK FALSE
