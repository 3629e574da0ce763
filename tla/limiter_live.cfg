SPECIFICATION FairSpec
CONSTANTS
  c1 = c1
  c2 = c2
  a1 = a1
  a2 = a2
  s1 = s1
  s2 = s2
  None = None
  Conns = {c1, c2}
  Ips = {a1}
  IpOf <- OneIp
  Stripes = {s1}
  hash <- OneStripe
  Max = 2
  Ttl = 1
  MaxTime = 1
  MaxFrames = 1
  MaxPosts = 0
  MayFail = TRUE
PROPERTY
  CallsReturnUnlessKept
CHECK_DEADLOCK FALSE
