\* Descriptor 2 makes an array that 5 makes grow; three items pass a swap list that
\* begins with room for one; three handlers and two executions meet in a list.
SPECIFICATION LibrarySpec
CONSTANTS
  Fds = {0, 2, 5}
  Checks = {"read", "write"}
  FirstNum = 1
  Increases = {1, 2}
  MaxNodes = 3
  node_num = 3
  Values = {v, w}
  Consumers = {c1, c2}
  Items = {x1, x2, x3}
  Blank = Blank
  RwNum = 1
  RwMax = 2
  Objects = {o1, o2}
  Callbacks = {h}
  MaxObservers = 2
  MaxHandlers = 2
  MaxDepth = 2
  MaxCalls = 2
  KeyNum = 2
  Handlers = {f, g, h3}
  EntityDepth = 2
  MaxRounds = 2
  MaxAdds = 3
  Bytes = {0, 1, 2, 3, 4, 5}
  Zero = 0
  data_len = 2
  Todo <- MCTodo
  MaxLives = 2
INVARIANTS
  LibraryInv
  SelectExact
  PoolExact
  ListExact
  RwExact
  NotifyExact
  ExecuteExact
  SendExact
\* A part may come to its end, as when every item is pushed.
CHECK_DEADLOCK FALSE
