CONSTANTS
  w1 = w1
  w2 = w2
  r1 = r1
  r2 = r2
  a = a
  b = b
  Clients = {w1, r1, r2}
  Byte = {a, b}
  Max = 2
  Calls <- MixedCalls
  Killable = {r2}
  NoClient = NoClient
SPECIFICATION Spec
PROPERTY RefinesByteQueue
CHECK_DEADLOCK FALSE
