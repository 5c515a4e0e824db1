SPECIFICATION FairEchoSpec
CONSTANTS
  Models = {m1, m2}
  IllFormed = IllFormed
  SelfEnds <- AllEnds
  MaxItems = 3
INVARIANTS
  EchoTypeOK
  Echoes
PROPERTIES
  Answered
  EchoReleased
