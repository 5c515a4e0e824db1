SPECIFICATION FairSpec
CONSTANTS
  Peers = {p1}
  Reports <- NoReports
PROPERTIES
  BindTokenEndsListener
