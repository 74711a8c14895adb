CONSTANTS
  one = one
  two = two
  NumFiles = 2
  Good = {one}
  Empty = Empty
  Huge = Huge
  Blocks <- OneBlock
  Suffix <- OneFrameAndNone
  MaxEsi = 0
  MaxTime = 1
  FramesCap = 2
  SendMayFail = FALSE
  Absent = Absent
  NoFile = NoFile
  NoFrame = NoFrame
SPECIFICATION Spec
INVARIANT EmptyFileIsRefused
CHECK_DEADLOCK FALSE
