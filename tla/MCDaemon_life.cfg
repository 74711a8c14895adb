CONSTANTS
  MaxPayload = 2
  Frames <- FrameBytes
  OtherCommand = 6
  MaxSends = 3
  MaxCuts = 2
  BufferSize = 4
  Room = 2
  Budgets <- MCBudgets
SPECIFICATION DaemonSpec
INVARIANTS TypeOK ReceivedInOrder AllReceived ReleasedLast
PROPERTIES EndIsReached StopEndsProgram
