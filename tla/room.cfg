SPECIFICATION Spec
CONSTANTS
  c1 = c1
  c2 = c2
  c3 = c3
  n1 = n1
  n2 = n2
  a1 = a1
  a2 = a2
  a3 = a3
  None = None
  Conns = {c1, c2, c3}
  Nodes = {n1, n2}
  Ips = {a1, a2}
  NodeOf <- TwoNodes
  IpOf <- SharedIp
  ChanSize = 1
  MaxMsgs = 2
  MayFail = TRUE
INVARIANTS
  TypeOK
  FannedOutIsOpen
  LiveIffRegistered
  MembersArePresent
  IdentityStaysWithIp
  LastLeaveUnsubscribes
  InOrderOnce
CONSTRAINT MessagesAmongTwo
CHECK_DEADLOCK FALSE
