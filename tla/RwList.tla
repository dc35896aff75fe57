------------------------------- MODULE RwList -------------------------------
(***************************************************************************)
(* common/rwlist.c on common/stack.c: producers push to one stack under    *)
(* the mutex, rwlist_get_readlist swaps it with the other one, and the     *)
(* consumer pops what it got without a lock.                               *)
(***************************************************************************)
EXTENDS Integers, Sequences, FiniteSets

CONSTANTS Consumers,
          Items,       \* what is pushed, each once
          Blank,       \* what no push wrote
          RwNum,       \* num of rwlist_new
          RwMax        \* bound: a stack of this size finds no more memory

ASSUME RwAssumption == RwNum \in Nat /\ RwMax \in Nat /\ RwNum <= RwMax /\ Blank \notin Items

Stacks == {"a", "b"}   \* the two stacks of rwlist_new

VARIABLES
  read, write,         \* the fields: which stack is which
  cells,               \* each stack's array; the positions from top on keep
                       \* what they held
  count,               \* each stack's top
  rpc,                 \* consumer: "idle", "swapped", "popping", "popped"
  handle,              \* the stack the consumer got, meaningless when idle
  lowered,             \* the top the consumer has computed in stack_pop
  unpushed, pushed, dropped,
  taken,               \* history: how often an item was popped
  shared               \* history: a stack was popped while it was also the
                       \* producers' or another consumer's

rwvars == <<read, write, cells, count, rpc, handle, lowered, unpushed, pushed,
            dropped, taken, shared>>

RwInit ==
  /\ read = "a" /\ write = "b"
  /\ cells = [s \in Stacks |-> [i \in 1 .. RwNum |-> Blank]]
  /\ count = [s \in Stacks |-> 0]
  /\ rpc = [c \in Consumers |-> "idle"]
  /\ handle = [c \in Consumers |-> "a"]
  /\ lowered = [c \in Consumers |-> 0]
  /\ unpushed = Items
  /\ pushed = {} /\ dropped = {}
  /\ taken = [x \in Items |-> 0]
  /\ shared = FALSE
-----------------------------------------------------------------------------
\* A consumer that pops s after this step.
Holds(c, s) == rpc'[c] \in {"popping", "popped"} /\ handle'[c] = s
NowShared ==
  shared' = (shared \/ \E c \in Consumers :
                         \/ Holds(c, write')
                         \/ \E d \in Consumers \ {c} :
                              \E s \in Stacks : Holds(c, s) /\ Holds(d, s))

\* rwlist_push, under the mutex: a full stack grows by its own size, which is
\* nothing for a stack made for no element.
Doubling(s) == IF 2 * Len(cells[s]) <= RwMax THEN 2 * Len(cells[s]) ELSE Len(cells[s])
Size(s) == IF count[s] = Len(cells[s]) THEN Doubling(s) ELSE Len(cells[s])

RwPush(x) ==
  LET n    == Size(write)
      i    == count[write] + 1
      fits == i <= n
  IN  /\ x \in unpushed
      /\ unpushed' = unpushed \ {x}
      /\ cells' = [cells EXCEPT ![write] =
                     [k \in 1 .. n |-> IF k = i THEN x
                                       ELSE IF k <= Len(cells[write])
                                       THEN cells[write][k] ELSE Blank]]
      /\ count' = [count EXCEPT ![write] = IF fits THEN i ELSE @]
      /\ pushed' = IF fits THEN pushed \cup {x} ELSE pushed
      /\ dropped' = IF fits THEN dropped ELSE dropped \cup {x}
      /\ UNCHANGED <<read, write, rpc, handle, lowered, taken, shared>>

\* rwlist_get_readlist: the swap under the mutex; self->read is read again after
\* the unlock.
Swap(c) ==
  /\ rpc[c] = "idle"
  /\ read' = write /\ write' = read
  /\ rpc' = [rpc EXCEPT ![c] = "swapped"]
  /\ UNCHANGED <<cells, count, handle, lowered, unpushed, pushed, dropped, taken>>
  /\ NowShared

GetHandle(c) ==
  /\ rpc[c] = "swapped"
  /\ handle' = [handle EXCEPT ![c] = read]
  /\ rpc' = [rpc EXCEPT ![c] = "popping"]
  /\ UNCHANGED <<read, write, cells, count, lowered, unpushed, pushed, dropped, taken>>
  /\ NowShared

\* stack_pop by the consumer, which may stop before the stack is empty: top is
\* read and written, and the cell is read when both are done.
PopTop(c) ==
  /\ rpc[c] = "popping"
  /\ count[handle[c]] > 0
  /\ lowered' = [lowered EXCEPT ![c] = count[handle[c]] - 1]
  /\ rpc' = [rpc EXCEPT ![c] = "popped"]
  /\ UNCHANGED <<read, write, cells, count, handle, unpushed, pushed, dropped,
                 taken, shared>>

TopLeft_Early(c) == lowered[c] + 1
TopLeft(c) == lowered[c]
PopCell(c) ==
  /\ rpc[c] = "popped"
  /\ count' = [count EXCEPT ![handle[c]] = TopLeft(c)]
  /\ taken' = [taken EXCEPT ![cells[handle[c]][lowered[c] + 1]] = @ + 1]
  /\ lowered' = [lowered EXCEPT ![c] = 0]
  /\ rpc' = [rpc EXCEPT ![c] = "popping"]
  /\ UNCHANGED <<read, write, cells, handle, unpushed, pushed, dropped, shared>>

Leave(c) ==
  /\ rpc[c] = "popping"
  /\ rpc' = [rpc EXCEPT ![c] = "idle"]
  /\ UNCHANGED <<read, write, cells, count, handle, lowered, unpushed, pushed,
                 dropped, taken, shared>>

RwNext ==
  \/ \E x \in Items : RwPush(x)
  \/ \E c \in Consumers : Swap(c) \/ GetHandle(c) \/ PopTop(c) \/ PopCell(c) \/ Leave(c)

RwSpec == RwInit /\ [][RwNext]_rwvars
-----------------------------------------------------------------------------
RwTypeOK ==
  /\ {read, write} = Stacks
  /\ \A s \in Stacks : cells[s] \in Seq(Items \cup {Blank}) /\ count[s] \in 0 .. Len(cells[s])
  /\ rpc \in [Consumers -> {"idle", "swapped", "popping", "popped"}]
  /\ handle \in [Consumers -> Stacks]
  /\ lowered \in [Consumers -> Nat]
  /\ unpushed \cup pushed \cup dropped = Items
  /\ taken \in [Items -> Nat]
  /\ shared \in BOOLEAN

\* How often an item waits in a stack.
Waiting(x) ==
  Cardinality({p \in Stacks \X (1 .. RwMax) :
                 p[2] <= count[p[1]] /\ cells[p[1]][p[2]] = x})

\* What was pushed is popped exactly once or still waits in one of the stacks,
\* elements the consumer left on its stack included, when the producers got it
\* back; unless two consumers were at it so that one popped a stack that was
\* not its own.  What was refused, at the end of memory, is never popped.
RwExact ==
  ~shared => \A x \in Items :
    taken[x] + Waiting(x) = (IF x \in pushed THEN 1 ELSE 0)

\* The inductive invariant that RwExact rests on: as long as no stack is shared,
\* the consumer alone is at the stack read stands for, the top it lowers is the
\* one it found, and every item is in one place.
IsPopping(c) == rpc[c] \in {"popping", "popped"}
Waits(x) == \E s \in Stacks : \E i \in 1 .. count[s] : cells[s][i] = x

RwShape ==
  /\ read \in Stacks /\ write \in Stacks /\ read # write
  /\ cells \in [Stacks -> Seq(Items \cup {Blank})]
  /\ count \in [Stacks -> Nat]
  /\ \A s \in Stacks : count[s] <= Len(cells[s]) /\ Len(cells[s]) <= RwMax
  /\ rpc \in [Consumers -> {"idle", "swapped", "popping", "popped"}]
  /\ handle \in [Consumers -> Stacks]
  /\ lowered \in [Consumers -> Nat]
  /\ \A c \in Consumers : rpc[c] = "popped" => lowered[c] + 1 <= Len(cells[handle[c]])
  /\ unpushed \subseteq Items /\ pushed \subseteq Items /\ unpushed \cap pushed = {}
  /\ taken \in [Items -> Nat]
  /\ shared \in BOOLEAN

Alone ==
  /\ \A c \in Consumers : IsPopping(c) => handle[c] = read
  /\ \A c, d \in Consumers : IsPopping(c) /\ IsPopping(d) => c = d
  /\ \A c \in Consumers : rpc[c] = "popped" => lowered[c] + 1 = count[handle[c]]

OnePlace ==
  /\ \A s \in Stacks : \A i \in 1 .. count[s] :
       /\ cells[s][i] \in pushed
       /\ \A t \in Stacks : \A j \in 1 .. count[t] :
            cells[s][i] = cells[t][j] => s = t /\ i = j
  /\ \A x \in Items : taken[x] = IF x \in pushed /\ ~Waits(x) THEN 1 ELSE 0

RwInv == RwShape /\ (~shared => Alone /\ OnePlace)
=============================================================================
