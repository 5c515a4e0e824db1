SPECIFICATION FairSpec
CONSTANTS
  Payloads = {p1, p2}
  NoPayload = NoPayload
  Bogus = Bogus
  PingInterval = 1
  PongTimeout = 1
  Workers = 3
  Backpressure = TRUE
  PeerSends <- Talk
  MaxInbox = 1
  MaxBacklog = 1
PROPERTIES
  DropEndsConnection
  ReportAnswered
  SocketReleased
  SilentPeerTerminated
