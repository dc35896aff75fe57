\* writeable stays cleared for ever.
SPECIFICATION FairSpec
CONSTANTS
  a1 = a1  a2 = a2  b1 = b1  b2 = b2
  Bytes = {a1, a2, b1, b2, Zero, Junk}
  Zero = Zero
  Junk = Junk
  data_len = 4
  Senders = {s1, s2}
  Data <- TwoCalls
  KernelSize = 2
  MaxWire = 8
  Nobody = Nobody
PROPERTY WriteableComesBack
\* When all data is offered and drained nothing is left to do.
CHECK_DEADLOCK FALSE
