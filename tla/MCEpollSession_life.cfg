\* Sessions, free list and receive handlers, with closes from anywhere: two
\* sessions and three connections.  The first and the second only come and go, so
\* that the third, whose bytes are the ones to lose, may have the number of the
\* first and another session than it.
SPECIFICATION Spec
CONSTANTS
  c1 = c1  c2 = c2  c3 = c3  a1 = a1  a2 = a2  b1 = b1
  Bytes = {a1, a2, Zero}
  Zero = Zero
  data_len = 2
  Conns = {c1, c2, c3}
  Stream <- LastSends
  Leaving = {c1}
  Fds = {3, 4}
  max_num = 2
  reactor_num = 1
  MidClose = TRUE
  None = None
INVARIANTS FreeListExact StreamIntactUnlessTainted
PROPERTY ImplementsInterface
\* When all connections have come and gone nothing is left to do.
CHECK_DEADLOCK FALSE
