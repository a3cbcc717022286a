CONSTANTS
  Models = {"48K", "128K", "PLUS2", "PLUS2A"}
SPECIFICATION Spec
INVARIANT MapFollowsRegisters
INVARIANT TrapRomMapped
INVARIANT LockIsNotified
INVARIANT RamWritable
