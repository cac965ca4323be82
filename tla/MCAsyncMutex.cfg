CONSTANTS
  Coros = {c1, c2, c3}
  Nil = Nil
  NotLocked = NotLocked
SPECIFICATION FairSpec
INVARIANTS MutualExclusion Assertions
PROPERTIES FifoLockSpec Served OnlyCoroutinesKeepUnlock
CHECK_DEADLOCK FALSE
