CONSTANTS
  Ram <- MCRam
  In <- MCIn
  Jobs <- CompareJobs
  Start <- MCStart
  Writes <- MCWrites
  Result <- MCResult
  Requests <- MCRequests
  Stack <- MCStack
  IntCount <- MCIntCount
  NmiCount <- MCNmiCount
SPECIFICATION Spec
PROPERTY CompareKeepsA
CHECK_DEADLOCK FALSE
