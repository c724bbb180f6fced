SPECIFICATION FairSpec
CONSTANTS
  Conns = {c1, c2}
  ChanCap = 1
  SockCap = 2
  MaxSends = 3
INVARIANTS TypeOK ViewsConverge RelayInOrder
PROPERTIES EveryoneIsListed HandlersEnd
CHECK_DEADLOCK FALSE
