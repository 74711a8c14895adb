CONSTANTS
  one = one
  two = two
  NumFiles = 2
  Good = {two}
  Empty = Empty
  Huge = Huge
  Blocks <- TwoBlocks
  Suffix <- OneFrameAndNone
  MaxEsi = 1
  MaxTime = 1
  FramesCap = 3
  SendMayFail = TRUE
  Absent = Absent
  NoFile = NoFile
  NoFrame = NoFrame
SPECIFICATION FairSpec
INVARIANTS TypeOK FrameFitsTag Carousel BudgetPerVersion NotStale
PROPERTY AloneFileIsSent
CHECK_DEADLOCK FALSE
