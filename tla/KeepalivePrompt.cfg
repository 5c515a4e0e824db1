SPECIFICATION TimelySpec
CONSTANTS
  Payloads = {p1, p2, p3}
  NoPayload = NoPayload
  Bogus = Bogus
  PingInterval = 2
  PongTimeout = 3
  Workers = 3
  Backpressure = TRUE
  PeerSends <- Chatter
  MaxInbox = 2
  MaxBacklog = 3
INVARIANTS
  PongsMatchPings
  SilenceBounded
  PongQueueBounded
PROPERTIES
  OnlyUnresponsiveTerminated
  NoPingForgotten
