SPECIFICATION FairSpec
CONSTANTS
  Senders = {s1, s2}
  Names = {a, b}
  MaxStarts = 3
INVARIANTS TypeOK ConsentFirst
PROPERTIES KeepsAccepted AnsweredInTime
CHECK_DEADLOCK FALSE
