SPECIFICATION FairSpec
CONSTANTS
  c1 = c1
  Other = Other
  All = All
  Conns = {c1}
  MaxMsgs = 2
INVARIANTS
  TypeOK
  ServedIsKnown
  ClosedIsForgotten
  GaugeCountsOpen
PROPERTIES
  CloseEnds
  CleanupEnds
  ShutdownEnds
CHECK_DEADLOCK FALSE
