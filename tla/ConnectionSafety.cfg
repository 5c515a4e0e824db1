SPECIFICATION Spec
CONSTANTS
  Payloads = {p1, p2}
  NoPayload = NoPayload
  Bogus = Bogus
  PingInterval = 2
  PongTimeout = 1
  Workers = 3
  Backpressure = TRUE
  PeerSends <- AllDeeds
  MaxInbox = 1
  MaxBacklog = 1
SYMMETRY Symmetry
INVARIANTS
  TypeOK
  LockDiscipline
  TerminationSignalled
  CloseFrameOwed
PROPERTIES
  ImplementsSession
