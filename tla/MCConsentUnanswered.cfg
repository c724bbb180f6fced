SPECIFICATION FairSpec
CONSTANTS
  Senders = {s1, s2}
  Names = {a, b}
  MaxStarts = 2
PROPERTY OfferAnswered
CHECK_DEADLOCK FALSE
