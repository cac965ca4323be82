CONSTANTS
  MaxValues = 3
  MaxHops = 2
  None = None
SPECIFICATION FairSpec
INVARIANTS Assertions ValueStable
PROPERTIES FrameEndsOnce StreamSpec ConsumerServed FrameFreed
CHECK_DEADLOCK FALSE
