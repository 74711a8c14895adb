CONSTANTS
  x = x
  y = y
  z = z
  a = a
  b = b
  Otis = {x, y, z}
  Refused = {z}
  Symbols <- TwoObjects
  Contents = {a, b}
  Frames <- Busy
  Carousel <- BusyCarousel
  MaxEsi = 4
  SureOverhead = 1
  DiskMayFail = TRUE
  NoOti = NoOti
  NoSymbol = NoSymbol
  Garbage = Garbage
  Lost = Lost
  NoFile = NoFile
SPECIFICATION FairSpec
INVARIANTS TypeOK CountIsMask NoStuckBlock AnnouncedIsWhole
PROPERTIES RefinesObjectDelivery ObjectIsReceived
CHECK_DEADLOCK FALSE
