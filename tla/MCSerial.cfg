CONSTANTS
  Status <- MCStatus
  Data <- MCData
  RegSelect = {7, 14, 30}
  RunningCounts = {1}
  MinIdle = 8
  MaxCuts = 2
SPECIFICATION Spec
INVARIANT Aligned
PROPERTY Delivers
