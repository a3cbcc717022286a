CONSTANTS
  Ram <- MCRam
  In <- MCIn
  Jobs <- MCJobs
  Start <- MCStart
  Writes <- MCWrites
  Result <- MCResult
  Requests <- MCRequests
  Stack <- MCStack
  IntCount <- MCIntCount
  NmiCount <- MCNmiCount
SPECIFICATION Spec
INVARIANT ComputesResult
INVARIANT Footprint
INVARIANT HandlersRun
PROPERTY ImplementsControl
PROPERTY Terminates
CHECK_DEADLOCK FALSE
