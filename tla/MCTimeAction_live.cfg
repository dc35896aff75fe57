\* No wrap: every timer fires.
SPECIFICATION FairSpec
CONSTANTS
  Timers = {t1, t2, t3}
  Delays = {1, 2}
  StartNodes = 1
  MaxNodes = 4
  MaxTime = 2
  Wrap = 8
  NoTimer = NoTimer
PROPERTIES LaterAddReturns TimerFires
\* After an overrun the model stops.
CHECK_DEADLOCK FALSE
