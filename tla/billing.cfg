SPECIFICATION FairSpec
CONSTANTS
  f1 = f1
  f2 = f2
  i1 = i1
  tick = tick
  stop = stop
  None = None
  Calls = {f1, f2}
  Instances = {i1}
  InstanceOf <- OneInstance
  Dumpers = {tick, stop}
  Ticker = tick
  MaxFailures = 1
INVARIANTS
  TypeOK
  BilledOnce
  MapIsGuarded
PROPERTY
  EverythingIsBilled
CHECK_DEADLOCK FALSE
