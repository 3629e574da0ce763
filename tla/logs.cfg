SPECIFICATION FairSpec
CONSTANTS
  l1 = l1
  l2 = l2
  l3 = l3
  i1 = i1
  i2 = i2
  tick = tick
  stop = stop
  None = None
  Lines = {l1, l2, l3}
  Instances = {i1, i2}
  InstanceOf <- OneAndTwo
  Order <- Lexical
  Refused = {i1}
  Dumpers = {tick, stop}
  Ticker = tick
  MaxFailures = 2
INVARIANTS
  TypeOK
  LoggersWriteToTheFile
  SentOnceByEach
PROPERTY
  EveryLineIsSent
CHECK_DEADLOCK FALSE
