SPECIFICATION Spec
CONSTANTS
  c1 = c1
  c2 = c2
  a1 = a1
  a2 = a2
  s1 = s1
  s2 = s2
  None = None
  Conns = {c1, c2}
  Ips = {a1}
  IpOf <- OneIp
  Stripes = {s1}
  hash <- OneStripe
  Max = 1
  Ttl = 1
  MaxTime = 3
  MaxFrames = 2
  MaxPosts = 1
  MayFail = TRUE
INVARIANTS
  TypeOK
  LimitSinceConnect
  LocksExclude
PROPERTY
  WindowsDoNotOverlap
SYMMETRY Alike
CHECK_DEADLOCK FALSE
