SPECIFICATION FairSpec
CONSTANTS
  FIFO_MAX_ELEMENT_COUNT = 2
  b1 = b1
  b2 = b2
  Blocks <- MCBlocks
  Data <- MCData
  Orientations <- MCOrientations
  ButtonStates <- MCButtonStates
  TagModulus = 5
  MaxNotify = 4
INVARIANTS TypeOK SendOnlyWhenReady ConnectedDisarms UrgentNeverForgotten PositionsInOrder CountIsLength HeapSafe
PROPERTIES RetryLostOnlyByCancel UrgentDrained KeepsMostRecent
