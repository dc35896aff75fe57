\* One session for two connections and two reactors, under fair scheduling,
\* closed from anywhere.
SPECIFICATION FairSpec
CONSTANTS
  c1 = c1  c2 = c2  c3 = c3  a1 = a1  a2 = a2  b1 = b1
  Bytes = {a1, a2, b1, Zero}
  Zero = Zero
  data_len = 1
  Conns = {c1, c2}
  Stream <- TwoAndOne
  Leaving = {c1, c2}
  Fds = {3, 4}
  max_num = 1
  reactor_num = 2
  MidClose = TRUE
  None = None
INVARIANT SessionInv
PROPERTY BytesAreTaken
\* When all connections have come and gone nothing is left to do.
CHECK_DEADLOCK FALSE
