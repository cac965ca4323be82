CONSTANTS
  OutboxRoom = 1
  MaxConnects = 2
  MaxSize = 2
  MaxData = 2
  MaxErrors = 2
  Nil = Nil
SPECIFICATION SessionSpec
INVARIANTS Ownership IoHasDirection
 
CHECK_DEADLOCK FALSE
