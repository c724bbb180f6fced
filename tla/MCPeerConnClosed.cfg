SPECIFICATION Spec
CONSTANTS
  Pages = {p, q}
  MaxSends = 3
  MaxFiles = 1
  MaxConns = 2
  MaxCandidates = 1
INVARIANTS ReusesLive
CHECK_DEADLOCK FALSE
