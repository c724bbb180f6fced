SPECIFICATION Spec
CONSTANTS
  FileBlocks = {0, 1, 2, 14, 18}
  MaxInflight = 10
  BufferHigh = 16
  BufferLow = 31
  MaxHeadBlocks = 17
INVARIANTS
  TypeOK StreamInOrder PrefixHeld WholeIsSaved OneReader WindowRespected BufferNeverHigh
  ConfirmedMeansSaved NothingWithoutConsent AcceptedIsSent
PROPERTIES
  NoResurrection ImplementsTransfer
CHECK_DEADLOCK FALSE
