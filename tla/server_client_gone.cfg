SPECIFICATION FairSpec
CONSTANTS
  c1 = c1
  Other = Other
  All = All
  Conns = {c1}
  MaxMsgs = 2
PROPERTY
  GoneIsCleanedUp
CHECK_DEADLOCK FALSE
