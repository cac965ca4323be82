CONSTANTS
  t1 = t1
  t2 = t2
  t3 = t3
  s1 = s1
  s2 = s2
  Schedulers = {s1}
  Threads = {t1, t2, t3}
  Coros = {c1, c2}
  Nil = Nil
  MaxAwaits = 1
  Home <- HomePool
  StopArgs = {TRUE, FALSE}
  MaxStops = 2
SPECIFICATION FairContextSpec
INVARIANTS MutexHeld
PROPERTIES OnlySleepStrands OnlySleepOutlivesStop
CHECK_DEADLOCK FALSE
