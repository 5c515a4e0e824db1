SPECIFICATION FairSpec
CONSTANTS
  Models = {m1, m2}
  IllFormed = IllFormed
  SelfEnds <- AllEnds
  MaxItems = 2
INVARIANTS
  TypeOK
  Delivery
  InnerLock
  HandleAccounted
  ErrorHeard
PROPERTIES
  ErrorReleases
  EndHeard
  AllReleased
