CONSTANTS
  MaxTones = 11
  ByteBits = 2
  RomPilotLen = 4
  RomPilotPulsesH = 2
  RomPilotPulsesD = 2
  RomSync1Len = 1
  RomSync2Len = 2
  RomOneLen = 3
  RomZeroLen = 1
  PauseMult = 2
  DeltaT = 3
  MaxBlocks = 2
  MaxElapsed = 12
  OpenMayFail = TRUE
  Tapes <- MCTapes
  Recordings <- MCRecordings
SPECIFICATION Spec
INVARIANT PausedIsPlaying
INVARIANT SampleIsWaveform
INVARIANT PositionIsHeard
INVARIANT StopsHeeded
CHECK_DEADLOCK FALSE
