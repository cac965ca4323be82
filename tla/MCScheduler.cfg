CONSTANTS
  Schedulers = {s1, s2}
  Threads = {t1, t2}
  Coros = {c1, c2, c3}
  Nil = Nil
  MaxAwaits = 2
SPECIFICATION Spec
SYMMETRY SafetySymmetry
INVARIANTS QueueIntact RunsOnTarget
PROPERTY RunQueueSpec
CHECK_DEADLOCK FALSE
