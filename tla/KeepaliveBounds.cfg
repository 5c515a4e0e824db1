SPECIFICATION Spec
CONSTANTS
  Payloads = {p1, p2, p3, p4, p5}
  NoPayload = NoPayload
  Bogus = Bogus
  PingInterval = 1
  PongTimeout = 2
  Workers = 3
  Backpressure = FALSE
  PeerSends <- Silence
  MaxInbox = 1
  MaxBacklog = 1
SYMMETRY Symmetry
INVARIANTS
  DeadlinesOrdered
  PingQueueBounded
