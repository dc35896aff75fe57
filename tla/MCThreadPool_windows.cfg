\* Windows build, safety.
SPECIFICATION Spec
CONSTANTS
  Platform = "windows"
  WorkerNum = 2
  Callers = {c1, c2}
  Msgs = {m1, m2, m3}
  MsgNum = 2
  MaxStarts = 2
  MaxSpurious = 0
  NoMsg = NoMsg
  Free = Free
SYMMETRY Symmetry
INVARIANTS NoLostWakeup NoPhantomMessage CallbackCount BusyFlagsExact StoppedMeansQuiet
\* A deleted pool takes no further step.
CHECK_DEADLOCK FALSE
