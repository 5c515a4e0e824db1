SPECIFICATION FairSpec
CONSTANTS
  Peers = {p1, p2}
  Reports <- LeftOrFailed
INVARIANTS
  TypeOK
  ClientsOwned
PROPERTIES
  OverForGood
  BacklogServed
  ClientsSettled
  UndeliveredClosed
  ClientsCancelled
  RefusalEnds
