SPECIFICATION FairSpec
CONSTANTS
  Conns = {c1, c2}
  ChanCap = 1
  SockCap = 1
  MaxSends = 1
PROPERTY GoneIsUnlisted
CHECK_DEADLOCK FALSE
