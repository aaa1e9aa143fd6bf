SPECIFICATION FairSpec
CONSTANTS
  RingFrames = 4
  MinFree = 2
  ReadFrames = 3
  StageFrames = 3
  Budget = 4
  FrameBytes = 2
  RaBytes = 8
  RaChunk = 4
  RaLow = 4
  Files <- MCFiles
  Disturbed = TRUE
  TornReads = FALSE
INVARIANT TypeOK
INVARIANT RingHoldsStream
 
INVARIANT FifoHoldsFile
INVARIANT EndsWhole
PROPERTY ImplementsFifo
PROPERTY TrackEnds
