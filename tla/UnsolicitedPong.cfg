SPECIFICATION TimelySpec
CONSTANTS
  Payloads = {p1, p2}
  NoPayload = NoPayload
  Bogus = Bogus
  PingInterval = 2
  PongTimeout = 1
  Workers = 3
  Backpressure = FALSE
  PeerSends <- Stray
  MaxInbox = 1
  MaxBacklog = 1
PROPERTIES
  OnlyUnresponsiveTerminated
