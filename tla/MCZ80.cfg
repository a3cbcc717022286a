CONSTANTS
  Tails = {"retn", "op"}
  MaxBack = 2
SPECIFICATION Spec
INVARIANT PrefixFresh
PROPERTY EntersAtBoundary
PROPERTY HaltEnds
PROPERTY IntNotLost
PROPERTY IntAnswered
