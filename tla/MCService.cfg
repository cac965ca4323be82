CONSTANTS
  t1 = t1
  t2 = t2
  s1 = s1
  f1 = f1
  Schedulers = {s1}
  Threads = {t1, t2}
  Coros = {c1, c2}
  Nil = Nil
  MaxAwaits = 1
  Home <- HomeBoth
  Fds = {f1}
  Owner <- OwnerOne
  BufferSize = 2
  StopArgs = {TRUE, FALSE}
  MaxStops = 2
  MaxSignals = 1
SPECIFICATION FairServiceSpec
INVARIANT EventsWaiting
PROPERTIES PostedResumes EventDelivered StopReturns
CHECK_DEADLOCK FALSE
