\* The millisecond counter wraps at 3; the manager starts with three nodes.
SPECIFICATION Spec
CONSTANTS
  Timers = {t1, t2, t3, t4}
  Delays = {1, 2}
  StartNodes = 3
  MaxNodes = 6
  MaxTime = 4
  Wrap = 3
  NoTimer = NoTimer
SYMMETRY Symmetry
INVARIANTS NodesConserved OverrunOnlyAfterFull NoTimerLost IInv
PROPERTIES FiresRight NoneOverdue EarlierAddHangs
\* After an overrun the model stops.
CHECK_DEADLOCK FALSE
