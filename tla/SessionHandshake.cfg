\* Repeated Syns and timers that fire at any time.
SPECIFICATION Spec
CONSTANTS
  SessionIds = {c, s1, s2}
  InvalidSessionId = InvalidSessionId
  WindowSize = 2
  MaxRetransmits = 1
  FastRetransmitThreshold = 1
  MaxUnacknowledgedThreshold = 2
  Client = c
  Servers = {s1, s2}
  MaxRequests = 1
  MaxReplies = 0
  MaxQueue = 2
  MaxDupAcks = 2
  MaxFaults = 2
  FaultKinds = {"duplicate", "drop"}
  Teardowns = {}
  Timely = FALSE
SYMMETRY Symmetry
INVARIANT
  OneSessionEstablished
\* The owners may stop calling at any time.
CHECK_DEADLOCK FALSE
