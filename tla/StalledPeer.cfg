SPECIFICATION StalledSpec
CONSTANTS
  Payloads = {p1}
  NoPayload = NoPayload
  Bogus = Bogus
  PingInterval = 1
  PongTimeout = 2
  Workers = 3
  Backpressure = TRUE
  PeerSends <- Silence
  MaxInbox = 0
  MaxBacklog = 0
PROPERTIES
  SilentPeerTerminated
