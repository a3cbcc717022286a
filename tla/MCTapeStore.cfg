SPECIFICATION Spec
CONSTANTS
  Files <- MCFiles
  Recordings <- MCRecordings
  Mems <- MCMems
  Resampled <- MCResampled
  WavBufSize = 16
  DrecMax = 6
  MaxBlocks = 1
  MaxFaults = 1
  Enough = 100
  MaxLost = 0
INVARIANTS
  RoundTrip
  PartIsPrefix
  NothingLost
  WavInOrder
