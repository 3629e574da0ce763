SPECIFICATION Spec
CONSTANTS
  c1 = c1
  c2 = c2
  c3 = c3
  n1 = n1
  n2 = n2
  a1 = a1
  a2 = a2
  a3 = a3
  None = None
  Conns = {c1, c2, c3}
  Nodes = {n1}
  Ips = {a1, a2, a3}
  NodeOf <- OneNode
  IpOf <- OwnIp
  ChanSize = 1
  MaxMsgs = 0
  MayFail = FALSE
INVARIANT
  ServedIsFannedOut
CHECK_DEADLOCK FALSE
