SPECIFICATION FairAgainSpec
CONSTANTS
  FileBlocks = {1, 3}
  AgainBlocks = {1, 3}
  MaxInflight = 2
  BufferHigh = 3
  BufferLow = 3
  MaxHeadBlocks = 3
  MaxRounds = 2
PROPERTIES Completes PeerGoneReleases
CHECK_DEADLOCK FALSE
