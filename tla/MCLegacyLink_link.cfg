CONSTANTS
  x = x
  y = y
  z = z
  a = a
  b = b
  Otis = {x, y, z}
  Refused = {z}
  MaxBlocks = 2
  Symbols <- Objects
  Contents = {a, b}
  Files <- FourFiles
  Capacity = 3
  MaxStarts = 2
  MaxLost = 2
  MaxEsi = 4
  SureOverhead = 1
  DiskMayFail = FALSE
  NoOti = NoOti
  NoSymbol = NoSymbol
  NoTxFile = NoTxFile
  Garbage = Garbage
  Lost = Lost
SPECIFICATION FairSpec
INVARIANTS TypeOK OnlyKillsTear WholeUnlessConfigLost NoBlockIsStuck
PROPERTY FileIsReceived
CHECK_DEADLOCK FALSE
