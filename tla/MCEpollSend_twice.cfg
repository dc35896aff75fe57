\* Old data is sent again.
SPECIFICATION Spec
CONSTANTS
  a1 = a1  a2 = a2  b1 = b1  b2 = b2
  Bytes = {a1, a2, b1, b2, Zero, Junk}
  Zero = Zero
  Junk = Junk
  data_len = 4
  Senders = {s1, s2}
  Data <- TwoCalls
  KernelSize = 1
  MaxWire = 7
  Nobody = Nobody
INVARIANT NoByteSentTwice
\* When all data is offered and drained nothing is left to do.
CHECK_DEADLOCK FALSE
