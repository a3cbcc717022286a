CONSTANTS
  MaxTones = 11
  ByteBits = 2
  RomPilotLen = 4
  RomPilotPulsesH = 4
  RomPilotPulsesD = 2
  RomSync1Len = 1
  RomSync2Len = 2
  RomOneLen = 3
  RomZeroLen = 1
  PauseMult = 2
  MaxPlays = 2
  Tapes <- AllTapes
SPECIFICATION LoopSpec
INVARIANT NoAssertionFails
INVARIANT PlaysWaveform
PROPERTY NextReturns
CHECK_DEADLOCK FALSE
