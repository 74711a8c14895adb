CONSTANTS
  w1 = w1
  w2 = w2
  r1 = r1
  r2 = r2
  a = a
  b = b
  Clients = {w1, r1}
  Byte = {a, b}
  Max = 3
  Calls <- PairCalls
  Killable = {}
  NoClient = NoClient
SPECIFICATION FairSpec
PROPERTIES RefinesByteQueue EveryCallReturns
INVARIANTS TypeOK NoMissedWakeup SomeoneAwake CheckedReadNeverWaits
