SPECIFICATION FairSpec
CONSTANTS
  Pages = {p, q}
  MaxSends = 2
  MaxFiles = 2
  MaxConns = 2
  MaxCandidates = 2
INVARIANTS TypeOK NoCandidateLost Agreement ClosedOnlyReversed
PROPERTIES OneConnection Connects CandidatesArrive
CHECK_DEADLOCK FALSE
