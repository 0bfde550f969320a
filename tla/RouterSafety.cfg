SPECIFICATION Spec
CONSTANTS
  a = a
  b = b
  near = near
  far = far
  Ids = {i1, i2}
  NoId = NoId
  Host = Host
  Conns = {a, b}
  Transports = {near, far}
  TransportOf <- TwoTransports
  ClientTimeoutCount = 0
  Plans <- DataOrMembership
  MaxData = 2
  MaxInFlight = 1
  MaxUnread = 1
SYMMETRY Symmetry
INVARIANTS
  TypeOK
  AddresseeOnly
  RetriesOnlyUnsent
  
  
  RegisteredOnce
CHECK_DEADLOCK FALSE
