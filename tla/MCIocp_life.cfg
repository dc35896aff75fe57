\* A buffer of two bytes is filled by what the first client sends; the second finds
\* what was left of it, if anything was.
SPECIFICATION Spec
CONSTANTS
  Bytes = {0, 1, 2}
  Zero = 0
  data_len = 2
  c1 = c1
  c2 = c2
  Conns <- MCConns
  Stream <- MCStream
  max_num = 1
  Workers = {w1, w2}
  Closer = closer
  None = None
  MaxCloses = 1
INVARIANTS
  IocpInv
  StreamIntactUnlessMixed
  DeafOnlyWhenFull
PROPERTIES
  SlotComesBack
  StopReturns
  ImplementsInterface
\* A server that has stopped does nothing more.
CHECK_DEADLOCK FALSE
