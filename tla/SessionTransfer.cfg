\* Data both ways over a faulty channel, and an orderly disconnect.
SPECIFICATION Spec
CONSTANTS
  SessionIds = {c, s1}
  InvalidSessionId = InvalidSessionId
  WindowSize = 2
  MaxRetransmits = 1
  FastRetransmitThreshold = 1
  MaxUnacknowledgedThreshold = 2
  Client = c
  Servers = {s1}
  MaxRequests = 3
  MaxReplies = 1
  MaxQueue = 4
  MaxDupAcks = 2
  MaxFaults = 1
  FaultKinds <- AllFaults
  Teardowns = {"disconnect"}
  Timely = TRUE
INVARIANTS
  TypeOK
  TransmitWindowIntact
  ReceiveWindowIntact
  AcknowledgedWasReceived
PROPERTY
  ImplementsStream
\* The owners may stop calling at any time.
CHECK_DEADLOCK FALSE
