SPECIFICATION AgainSpec
CONSTANTS
  FileBlocks = {1, 2, 3}
  AgainBlocks = {1, 2}
  MaxInflight = 2
  BufferHigh = 3
  BufferLow = 3
  MaxHeadBlocks = 3
  MaxRounds = 3
INVARIANTS OnceInOrder OneReader SilentInOrder SilentConfirmed ConfirmedIsSome CleanIsWhole
CHECK_DEADLOCK FALSE
