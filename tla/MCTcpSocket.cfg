CONSTANTS
  MaxSize = 3
  Room = 2
  MaxSignals = 2
  MaxFaults = 1
  Nil = Nil
SPECIFICATION SocketSpec
INVARIANTS StreamIntact ConnectTells Registered
PROPERTY Finishes
CHECK_DEADLOCK FALSE
