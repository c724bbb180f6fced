SPECIFICATION Spec
CONSTANTS
  f1 = f1
  f2 = f2
  Files = {f1, f2}
  Cases <- SomeCases
  MaxInflight = 2
INVARIANTS AcknowledgedIsSaved
CHECK_DEADLOCK FALSE
