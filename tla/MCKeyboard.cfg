CONSTANTS
  Size = 3
  Cursor = {"Left"}
  Openers = {"F3"}
  Steps = {"F9"}
  MaxEvents = 5
  MaxWaiting = 5
SPECIFICATION Spec
INVARIANT KeysFollow
INVARIANT AltIsReal
PROPERTY InOrder
PROPERTY LockHolds
CHECK_DEADLOCK FALSE
