SPECIFICATION Spec
CONSTANTS
  c1 = c1
  x1 = x1
  x2 = x2
  onMessage = onMessage
  None = None
  Conns = {c1}
  Calls = {x1, x2}
  EventType <- OneType
  MaxScrapes = 2
INVARIANTS
  TypeOK
  NoExecutionForgotten
  PageIsConsistent
  CountersGrow
CHECK_DEADLOCK FALSE
