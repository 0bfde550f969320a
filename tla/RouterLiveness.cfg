SPECIFICATION Spec
CONSTANTS
  a = a
  b = b
  near = near
  far = far
  Ids = {i1, i2}
  NoId = NoId
  Host = Host
  Conns = {a}
  Transports = {near, far}
  TransportOf <- OneConn
  ClientTimeoutCount = 1
  Plans <- UntilStopped
  MaxData = 1
  MaxInFlight = 1
  MaxUnread = 1
PROPERTIES
  GoneIsForgotten
CHECK_DEADLOCK FALSE
