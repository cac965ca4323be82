CONSTANTS
  t1 = t1
  t2 = t2
  t3 = t3
  s1 = s1
  s2 = s2
  Schedulers = {s1}
  Threads = {t1, t2}
  Coros = {c1}
  Nil = Nil
  MaxAwaits = 1
  Home <- HomeWorker
  StopArgs = {}
  MaxStops = 1
SPECIFICATION FairContextSpec
PROPERTY PostedResumes
CHECK_DEADLOCK FALSE
