SPECIFICATION AgainSpec
CONSTANTS
  FileBlocks = {3}
  AgainBlocks = {3}
  MaxInflight = 2
  BufferHigh = 3
  BufferLow = 3
  MaxHeadBlocks = 3
  MaxRounds = 2
INVARIANTS WholeIsSaved
CHECK_DEADLOCK FALSE
