SPECIFICATION FairSpec
CONSTANTS
  Models = {m1}
  IllFormed = IllFormed
  SelfEnds <- NoEnds
  MaxItems = 2
PROPERTIES
  ErrorIsGraceful
