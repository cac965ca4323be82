CONSTANTS
  Threads = {t1, t2}
  Tasks = {c1, c2}
  MaxOps = 2
  MaxSize = 2
  MaxResets = 1
  MaxStops = 1
  BufferSize = 2
  Nil = Nil
SPECIFICATION OverlappedSpec
INVARIANT OneGoesOn
PROPERTY Completed
CHECK_DEADLOCK FALSE
