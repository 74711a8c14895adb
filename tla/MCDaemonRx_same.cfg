CONSTANTS
  x = x
  y = y
  z = z
  a = a
  b = b
  Otis = {x}
  Refused = {}
  Symbols <- OneObject
  Contents = {a, b}
  Frames <- Replaced
  Carousel = {}
  MaxEsi = 3
  SureOverhead = 1
  DiskMayFail = FALSE
  NoOti = NoOti
  NoSymbol = NoSymbol
  Garbage = Garbage
  Lost = Lost
  NoFile = NoFile
SPECIFICATION Spec
INVARIANT AnnouncedIsWhole
CHECK_DEADLOCK FALSE
