\* A push overwrites a popped message before the worker has read it.
SPECIFICATION Spec
CONSTANTS
  Platform = "linux"
  WorkerNum = 2
  Callers = {c1, c2}
  Msgs = {m1, m2}
  MsgNum = 2
  MaxStarts = 1
  MaxSpurious = 0
  NoMsg = NoMsg
  Free = Free
INVARIANT AllHandledWhenParked
CHECK_DEADLOCK FALSE
