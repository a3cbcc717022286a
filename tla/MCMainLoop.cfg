SPECIFICATION Spec
CONSTANTS
  Field = 9
  Sound = 4
  Tape = 3
  Cell = 2
  Times = {2, 3}
  MaxT = 3
  Half = 20
  Wrap = 1024
  MaxClock = 26
  MaxForced = 1
INVARIANTS
  OnTime
  CaughtUp
  GpuInStep
  StepEnds
PROPERTIES
  IntsRegular
  CatchUpEnds
CHECK_DEADLOCK FALSE
