SPECIFICATION FairSpec
CONSTANTS
  c1 = c1
  c2 = c2
  c3 = c3
  k1 = k1
  k2 = k2
  None = None
  Conns = {c1, c2}
  Rooms = {k1}
  RoomOf <- OneRoom
  ChanSize = 1
  Talkers <- OneConn
  Attentive = {c2}
PROPERTIES
  CallsReturn
  ClosedChannelEndsConnection
CHECK_DEADLOCK FALSE
