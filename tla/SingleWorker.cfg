SPECIFICATION FairSpec
CONSTANTS
  Payloads = {p1}
  NoPayload = NoPayload
  Bogus = Bogus
  PingInterval = 2
  PongTimeout = 1
  Workers = 1
  Backpressure = TRUE
  PeerSends <- Silence
  MaxInbox = 0
  MaxBacklog = 0
PROPERTIES
  DropEndsConnection
