\* Three calls of two threads on a session that two clients have after each other.
SPECIFICATION ServerSpec
CONSTANTS
  a1 = a1  a2 = a2  b1 = b1  b2 = b2  c1 = c1
  Bytes = {a1, a2, b1, b2, c1, Zero, Junk}
  Zero = Zero
  Junk = Junk
  data_len = 3
  Senders = {s1, s2}
  Data <- ThreeCalls
  KernelSize = 2
  MaxWire = 6
  Nobody = Nobody
  MaxClients = 2
SYMMETRY Symmetry
INVARIANTS ServerInv KeptUnlessCrossed OwnBytesUnlessCrossed
\* When all data is offered and drained nothing is left to do.
CHECK_DEADLOCK FALSE
