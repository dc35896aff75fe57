\* Linux build, two workers, the inductive invariant, liveness and refinement.
SPECIFICATION FairSpec
CONSTANTS
  Platform = "linux"
  WorkerNum = 2
  Callers = {c1}
  Msgs = {m1, m2}
  MsgNum = 2
  MaxStarts = 1
  MaxSpurious = 1
  NoMsg = NoMsg
  Free = Free
INVARIANT IInv
PROPERTIES WaitReturns StopReturns ImplementsWorkPool
\* A deleted pool takes no further step.
CHECK_DEADLOCK FALSE
