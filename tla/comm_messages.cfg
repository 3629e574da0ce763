SPECIFICATION Spec
CONSTANTS
  c1 = c1
  c2 = c2
  c3 = c3
  k1 = k1
  k2 = k2
  None = None
  Conns = {c1, c2, c3}
  Rooms = {k1, k2}
  RoomOf <- TwoRooms
  ChanSize = 1
  Talkers <- OneTalker
  Attentive = {}
INVARIANTS
  TypeOK
  IInv
  NeverFindsClosed
  EmptyRoomIsTransient
  NoGhostEntry
  ReaderIsAddressee
PROPERTY
  MailboxSpec
CHECK_DEADLOCK FALSE
