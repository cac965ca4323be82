CONSTANTS
  Threads = {t1, t2}
  Coros = {c1, c2, c3}
  Nil = Nil
  Callback = Callback
  MaxHops = 1
SPECIFICATION FairSpec
INVARIANTS RunsOnce PromiseAlive
PROPERTIES DestroysResult CallSpec OwnerGoesOn
CHECK_DEADLOCK FALSE
