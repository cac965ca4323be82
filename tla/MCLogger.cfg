CONSTANTS
  a = a
  b = b
  c = c
  Clients = {a, b}
  MaxEntries = 3
  Limit = 1
  Nil = Nil
SPECIFICATION Spec
INVARIANTS PrintedInOrder LimitOvershoot
PROPERTY OnlySleepBlocks
CHECK_DEADLOCK FALSE
