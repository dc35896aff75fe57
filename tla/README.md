# Verification of accumulation-dev

TLA+ models of the concurrent and stateful parts of the library (`src/common`)
and of its network server (`src/server-model01`), TLC configurations that check
them on small instances, and TLAPS proofs. Line numbers below are lines of
the C files at the modelled commit.

## 1. Inventory of the system

| Component | State | Operations | Hard behaviour | What makes it correct |
|---|---|---|---|---|
| **Thread pool** `threadpool.c` on `stack.c`, `mutex.c`, `thread.c` | `is_run`, `thread_index`, busy flags, a stack of messages under `msg_lock`, one condition variable | new, start, pushmsg, wait/isbusy, stop, delete; the worker loop | signal after unlock; state set after unlock; the popped slot read without the lock; stop without the lock; POSIX and Windows condition variables differ | no wake-up lost, one callback per accepted message, only accepted messages are called back, wait and stop mean what they say and return |
| **Timer manager** `timeaction.c` | nodes, stack of free ids, sorted window of pending ids in an array | add (binary search, growth, compaction), del, schedule, callbacks that call back in | wrapping millisecond clock, stale ids, nodes reused inside callbacks, window reaching the end of its array | no node lost or used twice, order kept, each timer fires once and in time, add ends |
| **Byte buffer** `buffer.c` | memory, read and write position | init, write, move to front, advance positions | positions that refuse to move | bytes kept in order, positions in range |
| **Epoll server: sending** `epollserver.c` 207-339 | per session: `writeable`, send buffer, send lock | server_send, EPOLLOUT handler | flag read and written outside the lock, partial sends, edges reported once | no accepted byte lost or doubled, the session becomes writable again |
| **Epoll server: sessions** `epollserver.c` 120-237, 342-483 | sessions, free list, reactors' counts, receive buffers and mutexes | accept, receive handler, the logic's callbacks, server_close | stale events, double close, reuse of a session and of a descriptor number under a handler, full buffers, edge-triggered readiness | a session has one connection, the free list is exact, the logic sees the byte stream, no edge is lost |
| **Completion-port server** `iocp.c` | sessions with `active`, `send_ispending`, one OVERLAPPED per kind | accept, receive and send completions, reset, stop | reset without a lock, packets of an earlier connection, requests that fail, stop that counts packets | the logic sees the byte stream, a session comes back after a close, accepted data is sent once and in order, stop returns |
| **Swap list** `rwlist.c` | two stacks, a mutex | push, get_readlist | the list pointer read after the unlock, a swapped stack that was not emptied | what was pushed is taken once, nothing else is |
| **Select set** `fdset.c` | three fd_sets, array of watched descriptors, max_fd | add, del, poll, check | an array that grows too little and into memory nobody wrote, interrupted select | `max_fd` is the highest watched descriptor, check tells what is ready |
| **Type pool, list** `typepool.c`, `list.c` | chained nodes with stacks of free elements | claim, reclaim, increase, push_back, erase | a search hint that is off by a node | nothing handed out twice or lost, links in both directions agree |
| **Events** `event.c`, **entities** `dnotify.h` | tables and lists of handlers | insert, notify; add, delete, execute | full tables; callbacks that change the table or list being walked | each handler that is there all the time is called exactly once |
| **Server interface** `server.c` | function pointers | start, stop, send, close; on_enter, on_recved, on_close | two servers behind it, each with its own threads | what the logic may rely on holds of either |
| Socket, clock and platform helpers, examples | - | wrappers | - | calls without state of their own |

Interactions: a server's logic is called back from the listen thread
(`on_enter`) and from reactor threads (`on_recved`, `on_close`), and calls
`server_send` and `server_close` from callbacks or from any thread. Sessions
hold two buffers and are handed out from a stack. The pool and both servers use
the mutex and thread wrappers. The pool calls its message callback, the timer
manager its timers' callbacks; those may call back into the component.

## 2. Modules

| Module | Models | Abstraction |
|---|---|---|
| `WorkPool` | what the pool promises, as counted tokens | specification |
| `ThreadPool` | `threadpool.c` with stack, mutex, condition variable, threads | messages are model values |
| `ThreadPoolProofs` | theorems on `ThreadPool`: synchronization; counting, flags and the refinement | |
| `TimeAction` | `timeaction.c` | callbacks are the moments `pc = "callback"` in which add and del are possible |
| `TimeActionProofs` | theorems on `TimeAction`: the window and the search; what becomes of each timer | |
| `Buffer` | `buffer.c`, operators on a record | bytes are model values |
| `BufferProofs` | lemmas on `Buffer` and on sequences, for the two modules on the completion port | |
| `EpollSend` | `server_send` and the EPOLLOUT handler of one session | kernel buffer as a count, the peer as a drain |
| `EpollServer` | `EpollSend` composed with close, accept and reuse of its session | one session, one reactor |
| `ServerProofs` | theorems on `EpollServer` | |
| `ServerInterface` | what `server_close` and the callbacks of `server.c` and `server_private.h` promise a logic, whichever server is behind them | specification |
| `EpollSession` | listen thread, reactors, receive handler, close, free list | a descriptor is its connection and its number, sends left out |
| `SessionProofs` | theorems on `EpollSession` | |
| `Iocp` | `iocp.c` but for sending: workers, packets, reset, reuse, stop | the completion port is a sequence of packets, sends left out |
| `IocpProofs` | theorems on `Iocp` | |
| `IocpSend` | `server_send` and send completions of one session, across close and reuse | one step under `send_mutex`; receives left out |
| `IocpSendProofs` | theorems on `IocpSend` | |
| `FdSet` | `fdset.c`, Linux half | select returns any subset of what is watched |
| `TypePool`, `List` | `typepool.c`; `list.c` on two pools | an element is its node and place |
| `RwList` | `rwlist.c` on `stack.c` | items are model values |
| `Event` | `event.c`, one event id | callbacks are moments in which the program may call back in |
| `Entity` | one LogicCollection of `dnotify.h` | as in `Event` |
| `LibraryProofs` | theorems on `FdSet`, `TypePool`, `List`, `RwList`, `Event`, `Entity` and on `MCLibrary` itself | |
| `MCLibrary` | the seven sequential or small parts side by side, one at a time by the variable `part` | |
| other `MC...` | constants and symmetry for TLC | |

### ThreadPool

Workers are numbered by their place in `work_threads`; `pc[w]` is the worker's
place in `thread_pool_work`: `idle` (no thread), `index` (takes its number),
`lock` (before `mutex_lock`, 92), `gap` (in the while loop, lock held, before
`thread_cond_wait`), `waiting`, `popped` (after 110), `busy` (after 112),
`callback`, `leave` (after the unlock, before the signal at 104), `exited`. A
critical section is one action, because all other users of its data take the
same lock. The exception is `gap`: `thread_pool_stop` writes `is_run` without
the lock, so the lock stays visibly held between the test of `is_run` and the
wait. Callers stand in `pushmsg` before the lock (`push`) or before the signal
(`signal`). The owner (`opc`) runs start, wait, stop and delete one at a time.
`slot[w]` is the address `stack_pop` returned; the message behind it is read
only in `CallBack`, as in line 116.

On Linux a signal wakes one waiting worker or nobody, and `MaxSpurious` bounds
spurious wake-ups. On Windows it sets an auto-reset event, which `ConsumeEvent`
clears; setting it once more while it is set has no effect. A woken worker
tests the condition again in both. `mutex.c` 31-34 names `pthread_spinlock_t`
without a platform guard, so its Windows half does not compile as it stands; the
model takes the intended branch. `is_run` is read without synchronization; the
model takes reads and writes of it as sequentially consistent. A callback that
pushes is covered by callers independent of the workers. Calling
`thread_pool_start` twice without a stop, or `thread_pool_delete` while another
thread is in a push, is out of contract and not modelled.

### TimeAction

`compositor_list`, `compositor_start`, `compositor_num` and the node fields keep
their names; indexes are C's. One comparison of the search is one step, because
the search may never end. `clock` is true time; the code sees it modulo `Wrap`
(the unsigned int of `getnowtime`), and `Epoch` in the properties is the number
of wraps. History variables remember each timer's id, true deadline and fate.
`pc = "overrun"` marks the write behind `compositor_list`, after which nothing is
defined. `MaxNodes` bounds growth the way a failing `malloc` does: add returns -1. Where
it grows, line 95 copies `old_nodenum*sizeof(int*)` bytes of a list of `int`: the
entries and, on a 64-bit machine, as many bytes again, read behind the end of the old
array; they land in the new entries, which 98 then sets. The model copies the entries.

The search sets `high = middle + 1` (220) where it should go below `middle`, so
an add that must be placed before a pending timer never returns. This is stated
as the property `EarlierAddHangs`; the other properties hold of what remains
possible, and `TimerFires` names the hanging add among the outcomes.

### Buffer, EpollSend

A position moves only when it stays inside the buffer, as in 88-104. In
`EpollSend` a sender goes through `lock`, `old`, `new`, `mark`, `store` under the
spin lock, having read `writeable` before it; the reactor handles EPOLLOUT in
`TakeEvent` (what `epoll_wait` returned), `OutEvent` (writes `writeable` without
the lock), `OutCheck` and `OutSend`. The
socket takes what fits into `KernelSize`, sets `nospace` when it takes less than
asked, and raises an edge when the peer drains a socket in that state.
`Junk` stands for a byte outside the caller's data or the buffer's content:
`data + send_len` with `send_len = -1` after an error. `MaxWire` bounds what is
sent, needed because old data is sent again for ever (finding `send_twice`).

### EpollServer

Extends `EpollSend` by the life of its session: `CloseSession` by any thread at
any time, then the listen thread's steps as far as sends see them: `NewClient`
stores `fd` (160), `InitBuffer` clears the send buffer (162), `SetWriteable`
(164), `Enter` calls `on_enter` and `Register` adds the descriptor to epoll, each
a step that senders and the reactor may come between. A send on descriptor -1
fails. `crossed` remembers that a call or a taken event of an earlier connection
was not finished when the session got the next one, or that a call came between
`fd` and `on_enter`. It is needed: an EPOLLOUT taken before the close and handled
between 160 and 162 sends the old client's buffered bytes to the new one, and a
sender that waited for the lock sends its data there. `buffer_init` is one step;
what it does interleaved with a sender's memcpy belongs to the same case. The
code has two reactors (24). While `crossed` is false only one of them has
anything to do with the session, so the model has one. There is one session, so a
send of another session's that still uses a number `fd` had before is outside it: as
with `robbed` in `EpollSession`, such a send puts foreign bytes on a connection that
did nothing wrong.

### EpollSession

The listen thread's steps are those of `epoll_handle_newclient`: pop a session,
set `fd`, `buffer_init`, `socket_nonblock` with `reactor`, the two halves of
`fd_num++`, `on_enter`, `epoll_ctl`. A reactor takes the sessions of all pending
events (`batch`), then handles them one after the other: lock, receive in
rounds, callback, perhaps another round, unlock. `CloseSession` is the section
under the free list's lock. `tainted` remembers sessions closed while a handler
(other than the closing `on_close` itself) worked on them or had an event for
them.

`recv` is called in one step (`CallRecv`), which fixes its arguments, and returns in
another: `RecvBytes`, which with `buffer_addwritepos` is one step, `RecvEnds` or
`RecvNothing`. Between them anybody may close the session. A descriptor is named by
the connection it was accepted for and has a `number`, the lowest of `Fds` that no
open one has (`NextFd`); with none left `accept` fails and is called again. What the
call of `recv` reaches is looked up by number when the kernel gets to it (`Reached`):
the connection itself, nothing (it fails, and `on_close` is called), or the
connection that got the number since. `robbed` remembers the connections that a
handler of another session received from. If the connection has nothing to receive
and is not non-blocking yet, or never will be because no session was left for it,
the call blocks (`RecvBlocks`) and stays with the connection it began with. The
other calls with a descriptor need no number: `socket_close` and `epoll_ctl` of 191
are under the free list's lock with the number still the session's own, and
`epoll_ctl` of `AddEvent` uses the number `accept` returned: if the connection was
closed meanwhile it fails, since the one thread that could accept another with that
number is this one. Between `socket_close` (193) and `fd = -1` (194) no other
session is concerned: this one is not free before the unlock, and a `recv` called with
the number then is one called before the close. Only a connection accepted just then
and forgotten, as `freelist_num` (196) is still 0, gets the number a step earlier than in
the model; it has no session, and a handler that reaches it is that of a tainted one.

The program is taken to open no descriptors of its own that get such a number.
`BeginClose` leaves out `server_close` of an index that was never announced, whose
`reactor` is NULL (183, 184): the program dereferences it. The TCP side is external:
bytes of a fixed stream and its end arrive at any time, in order, and raise an edge.

### ServerInterface

A logic knows a client by the index of its session. `waiting` are the clients no
session was given to yet, `serving` is the client a session has, `told` the one
the logic was last told of by `on_enter`, `used` the bytes a logic used of each
client, and `open` the sessions the logic heard of and nobody closed since. The
interface says that a client comes to at most one session (`Admit`, `Enter`), that
`on_enter` comes before the first byte, that the logic uses a client's bytes
in order and without a gap, and that a session in `open` leaves it by a
`server_close` of its own only (`Close`), before which its client is not cut off
or replaced (`Leave` needs a session that is not in `open`). This holds as long as
`late` is empty, the set of sessions closed, or served again, while the server was
still at work on them. From the first of these on, every session may lose its
promise (`Rob`), or come without one (`Enter`), though not what it was told or used
before.

Both servers are shown to implement it, under the mapping at the end of
`EpollSession` and of `Iocp`. `Promised` is the set they map to `open`: the live
sessions that are not `tainted` and whose connection is not `robbed`, and the active ones that are not `mixed`. So what
a server does to a session closed and reused under a handler, or with two lives
that met, is the one thing the interface says nothing of. In `EpollSession` `late` is
`tainted`, and `Rob` is the `recv` of a handler whose descriptor's number has come to
another session's connection. In `Iocp` `late` is `mixed`; a request there is posted for the
socket of its own session, `Rob` is never used, and `StreamIntactUnlessMixed` speaks
of each session by itself. In `EpollSession` a session is the client's (`Serving`)
from the moment it is popped, before `fd` is set.

### Iocp

The completion port is `queue`; a packet says which key it came with (`listen`,
`session`, `null` for 0xDEADC0DE), what request it completes, its session and
its result. A worker's position `wpc` follows `iocp_work_thread`: `get`,
`select` (has a packet, has not yet looked at the key, 357), `dispatch`,
then the branch. `fromlisten` is read in `Select` and again in `Branch`, and
`Offset` of the overlapped structure when the packet is handled, since both are
shared and not copied with the packet. `listen_key` is the key of the listening
socket: `stop` clears `fromlisten` (489, `ClearKey`) and then stores 0xFF and posts
the exit packets (490-496, `PostExit`). A worker that looks at a listening packet
after the first takes the key's `ptr` for a session, which is NULL before the second
and 0xFF after it (`FromKey`); only after it, and with a packet that reports
success, it leaves (`Exits`), in every other case it dereferences the pointer.
`iocp_session_reset` is two steps of
whichever thread runs it: `TestActive` reads `active`, and `Reset` does the rest
whatever `active` is by then; that is the race at 116. The logic calls
`server_close` in `on_close` or leaves it, as the examples do (`declined`), and
may call it in `on_recved`; a thread `Closer` of the program calls it too and
ends before the server is stopped.

The system is external: `AcceptEx` completes with a client or fails, a `WSARecv`
completes with bytes at the place fixed when it was posted, with the end, or
fails once its socket is closed or disconnected; the receives that `TransmitFile`
cut off complete before it does. `TransmitFile` fails on an unconnected socket
and on one that is already disconnecting. The history variable `mixed`
remembers sessions two lives of which met (a packet or a closing thread of the
earlier connection was still there at the next accept), `lost` those whose
AcceptEx or TransmitFile failed, `wcrash` a worker that took NULL or 0xFF for a session.

### IocpSend

`server_send`, once it has read `active` without a lock (`BeginSend`), and the
handling of a send completion run under `send_mutex`, which is recursive, so each
is one step. `life` follows the session from `open` over `TransmitFile`
(`leaving`), the packet of the disconnect (`free`), `AcceptEx` (`waiting`) and its
packet (`connected`) to `open` again; a send is possible on `open` and
`connected`, as the socket is connected in both. `Senddata` returns the set of outcomes
of a `WSASend`: pending, done at once (possible only while nothing is posted; it
leaves `send_ispending` off and still completes), or failed. A posted send is
bytes of the caller or a region of the session's buffer, and `Outgoing` reads
the region when the system gets to it. The caller is taken to leave its memory
alone until the send is done; the example at `http_server.cpp` 197-199 frees it
at once. `moved` and `failed` name two histories of a connection after which
nothing is claimed; `carried` the case that a call past its test of `active`, or
a send completion nobody handled yet, outlives the connection it belongs to. All
three are reached and needed.

### FdSet, TypePool, List, RwList, Event, Entity

- `FdSet`: `array_new(fd)` makes `fd` clear flags, none for descriptor 0;
  `array_increase` doubles the array, once per push, and leaves its new half
  `junk` until written, which the search for the highest descriptor may read as
  anything. `outgrown` (a descriptor beyond the doubled array) and
  `interrupted` (select returned with the copies unchanged) are reached. Not in the
  model: a descriptor of `FD_SETSIZE` or more, for which `FD_SET` writes outside its
  set, and a `select` that fails with EBADF because a watched descriptor was closed:
  `fdset_poll` then returns -1 and leaves the results as full as after an interrupt.
- `TypePool`: a pool is a record with one stack of free elements per node.
  `free_node` is where a claim looks first; a search leaves it one node behind
  the one it popped from. The module is both a part of its own and the operators
  `List` applies to its two pools.
- `List`: `list_push_back` drops the value when the node pool is empty. Lines 81-85,
  which give a node back when only the data pool is, are in the model but never run:
  the pools are made equal and every operation takes from or returns to both.
  `list_erase` reads `node->data` after
  the node was reclaimed; the program walks and may erase where it stands.
- `RwList`: push and swap are one step each, under the mutex; the result of
  `rwlist_get_readlist` is read after the unlock, a step of its own, and popping
  is two steps without a lock. A stack grows under positions that were popped.
  `shared` is the case of two consumers, which the list is not made for but
  does not exclude.
- `Event`: the two fixed tables, loops that run to lengths read before, and
  callbacks that insert and notify inside.
- `Entity`: a round stands at a handler while it runs, and goes on to the one
  behind it when it has returned. A handler deleted while a round stands at it,
  or a key used first after a higher one (a NULL list, 176), is `misused`.

## 3. Runs

| Run | Expect | Shows |
|---|---|---|
| `pool_windows` | pass | no lost wake-up, only accepted messages called back, callbacks = accepted messages, busy flags exact over a restart, nothing left after stop |
| `pool_linux_live` | pass | inductive invariant, types included; wait and stop return; `ThreadPool` implements `WorkPool`, its liveness (the queue drains) included |
| `pool_overwrite` | violation | a push overwrites a popped message before line 116 reads it: one message twice, another never |
| `timer_wrap` | pass | inductive invariant, types and the order of the pending timers included; nodes conserved, no timer lost, fired once and in time up to a wrap, overrun only after all nodes were pending, earlier adds hang |
| `timer_live` | pass | later adds return, timers fire |
| `send_reuse` | pass | inductive invariant, types with positions in order included; unless lives cross, accepted bytes are on the wire or buffered, and only bytes accepted for a connection go out on it: none that were refused, none of the client before |
| `send_twice` | violation | old data is sent again, because 255 moves the write position |
| `send_stuck` | violation | the unlocked write at 329 is lost and the only edge is used up |
| `session_life` | pass | free list exact; the stream intact on sessions never closed under a handler, but for connections that the handler of such a session received from; `EpollSession` implements `ServerInterface` |
| `session_live` | pass | inductive invariant, types included, and in it that every connection is owned by one session, closed, or forgotten for want of a session; every byte that arrived is received although edges come once |
| `iocp_life` | pass | inductive invariant, types included; the stream intact unless lives of a session mix, an active session nobody comes for has a full buffer or a logic that did not close it, sessions come back, stop returns unless a worker crashes; `Iocp` implements `ServerInterface` |
| `library_parts` | pass | select set, type pool, list, swap list, events, entity collection and completion-port sends each do what their abstract content says; the inductive invariants of all |

### Bounds

- Pool: two workers are the least that compete for a message and for a signal
  and that pass a signal on; three messages on a stack of two reach a full stack,
  overwriting and mixing; two starts reach the growing `thread_index`. The
  Windows run uses two callers, the Linux liveness run one, for the size of the
  liveness graph; the proofs cover any number for every invariant.
- Timers: four timers on three nodes grow once, up to six; the window reaches
  the end of the array and is compacted; a counter modulo 3 with `MaxTime` 4
  wraps once. `timer_live` has a counter that does not wrap.
- Sends: the kernel takes two bytes and the buffer three, so short sends, a full
  buffer and refusals all happen with three calls of two and one bytes, before
  or after a second client got the session; symmetry of the two senders.
- Sessions: `session_life` has two sessions, two descriptor numbers and three
  connections, the least with which a handler of a closed session finds its number
  with a third connection on the other session: that run reaches `robbed` for a
  session that is live and not tainted. Only the third sends (two bytes into a buffer of
  two) and only the first client may leave by itself (`Leaving`), since the others
  need only come and be closed; one reactor is enough for it. `session_live` has one
  session, so that one connection finds none or must reuse it, two reactors, two
  connections that send two bytes and one, and a one-byte buffer that makes the
  handler stop at a full buffer with bytes left in the socket. Two reactors with two
  sessions are the matter of the proofs, which cover any number; so is the whole
  `SessionInv` on the instance of `session_life`, which the run would not finish in
  reasonable time.
- Completion port: one session and two clients, so that the second client meets
  what is left of the first; two workers, the least that hold packets of two
  lives at once, a third thread that closes, and `MaxCloses` 1 for closes outside
  `on_close`. The first client fills the buffer of two bytes.
- Library: descriptors 0, 2 and 5 are one without an array, one that makes it
  and one beyond twice its size. The pool grows from one node to three. Two
  consumers and three items share a swap list with stacks of one that grow to
  two. Tables of two and a notification inside a notification; three
  handlers, two executions and three adds (`EntityDepth`, `MaxRounds`,
  `MaxAdds`); five bytes to send through a buffer of two,
  over two connections (`MaxLives`).

`CHECK_DEADLOCK FALSE` is set where the system really stops: the pool after
delete, timers after an overrun or at `MaxTime`, clients with nothing to send.

### Fairness

Weak fairness for each thread's own steps: the system runs threads that can run,
and callbacks return. Senders and the reactor of `EpollSend` get strong
fairness, because a spin lock they wait for is free only now and then. No
fairness for calls of the library (a program may stop pushing, adding,
closing), for clients, for spurious wake-ups or for `server_close` called inside
a callback. In `Iocp` one weak fairness stands for all threads and all
completions the system owes without a client's doing (the end of a stream, an
abort, a disconnect): as long as one of them can go on, one does. It is less than
fairness for each; clients need not connect, send or end, and nobody need
close or stop. `timer_live` assumes that the main loop calls schedule for ever and
that time passes (`Tick`), `send_stuck` that the peer goes on reading. The
premise of `BytesAreTaken` excludes two behaviours the code does have: a logic
that uses no byte of a full buffer makes the handler loop for ever (477-480),
and a recv may block for ever before `socket_nonblock`.

### Not runs, but known

Exceptions that properties name, and behaviours met while modelling:

- Pool. `thread_pool_wait` returns while a worker holds a message it has not
  marked itself busy for (110, 112), although the comment at 156 takes an idle
  pool to have processed everything; `BusyFlagsExact` claims the flags outside
  that window only, and `NotBusyMeansHandled` in `ThreadPool` is the stronger
  statement the code does not keep. With `WorkerNum = 1` on Linux `StopReturns`
  fails: the worker tests `is_run` (96), stop clears it and signals (141-147),
  the worker waits for ever. Two workers are enough: the second can test `is_run`
  only after the first gave up the lock by waiting, and passes the signal on
  when it leaves (104).
- Epoll sends. After a short send of old data, `writeable = (oldlen == oldlen)`
  (258) is true and new data overtakes the rest of the old.
- Epoll sessions. A session closed and reused under a handler or a stale event
  gives the handler bytes of the next connection, before `on_enter` or out of
  place (161, 373). A handler whose session is closed between its load of
  `session->fd` and `recv` (440) takes the bytes of the connection that got the
  number, whichever session has that, and leaves a gap there. `StreamIntact` in
  `EpollSession` says neither ever happens and does not hold;
  `StreamIntactUnlessTainted` does.
- Completion port. Two closes at once may both issue `TransmitFile`, the second
  on the next connection (116). A failed AcceptEx or TransmitFile finds the
  session inactive and is dropped, so the session waits for no client again
  (408). A logic that leaves a full buffer full never hears of its connection
  again (189), and the session of a logic that does not close in `on_close` (130)
  is never reused; the examples (`http_server.cpp` 91-96, `epollserver_test`
  38-42) are such. `stop` turns the listening key into the exit key while failed
  AcceptEx with that key may be queued, and a worker then uses 0xFF as a
  session (490); between 489 and 490 the key's `ptr` is NULL, and a worker uses
  that as a session even for an AcceptEx that succeeded. While buffered data waits behind a pending send, new data is
  refused even where the buffer has room (264-280). `buffer_write` may start at
  the front of a buffer that a posted send still points into (278).
- Select set. A descriptor more than twice the array's size is not recorded;
  erasing it dereferences NULL (95, 129). A poll interrupted by a signal reports
  everything watched (211).
- Swap list. Two consumers may get the same stack (93).
- Entities. The NULL list at 176, and the iterator of an erased node at 215.

## 4. Proofs

Every theorem holds for all values of the constants that satisfy the named
assumption of the module, which says only what the constants are (that a number
is a number, that a name for nothing is not the name of something). The proofs
all have one form: an inductive invariant, which a run of section 3 checks on the
small instance before the prover shows it in general; one lemma per action, or
per action and conjunct, that the step keeps it; and the properties of the runs
as consequences.

| Theorem | Of | States |
|---|---|---|
| `ThreadPoolProofs`: `Invariance` | `ThreadPool` | `Spec => []SyncInv` |
| `TypeCorrect`, `WakeupSafe`, `PhantomFree`, `QuietWhenStopped` | | types, `NoLostWakeup`, `NoPhantomMessage`, `StoppedMeansQuiet` |
| `WholeInvariance` | `ThreadPool` | `Spec => []IInv` |
| `CallbacksCounted`, `FlagsNeverCollide` | | `CallbackCount`, `BusyFlagsExact` |
| `RefinesWorkPool` | `ThreadPool`, `WorkPool` | `Spec => Abs!SafeSpec`, the safety half of the refinement |
| `TimeActionProofs`: `Invariance` | `TimeAction` | `Spec => []OrderInv` |
| `TimerTypeCorrect`, `AlwaysSorted`, `RoomIfNeverFull`, `EarlierNeverReturns` | | types, `PendingSorted`, `OverrunOnlyAfterFull`, the action property `EarlierAddHangs` |
| `WholeInvariance` | `TimeAction` | `Spec => []IInv` |
| `TimersKept`, `NodesNeverLeak`, `TimersFireRight`, `NothingOverdue` | | `NoTimerLost`, `NodesConserved`, `FiresRight`, `NoneOverdue` |
| `ServerProofs`: `ServerInvariance` | `EpollServer` | `ServerInv` |
| `AcceptedIsKept`, `OnlyOwnBytes` | | `KeptUnlessCrossed`, `OwnBytesUnlessCrossed` |
| `SessionProofs`: `SessionInvariance` | `EpollSession` | `SessionInv` |
| `FreeListStaysExact`, `ConnsStayOwned`, `StreamsIntact` | | `FreeListExact`, `ConnsOwned`, `StreamIntactUnlessTainted` |
| `RefinesInterface` | `EpollSession`, `ServerInterface` | `Spec => ImplementsInterface` |
| `IocpProofs`: `IocpInvariance`, `IocpTypes` | `Iocp` | `IocpInv`, `TypeOK` |
| `StreamKept`, `NeverDeaf` | | `StreamIntactUnlessMixed`, `DeafOnlyWhenFull` |
| `RefinesInterface` | `Iocp`, `ServerInterface` | `Spec => ImplementsInterface` |
| `IocpSendProofs`: `IocpSendInvariance`, `SendsExactly` | `IocpSend` | `IocpSendInv`, `SendExact` |
| `LibraryProofs`: `SelectInvariance`, `SelectsExactly` | `FdSet` | `FdSetInv`, `SelectExact` |
| `EventInvariance`, `NotifiesExactly` | `Event` | `EventInv`, `NotifyExact` |
| `EntityInvariance`, `ExecutesExactly` | `Entity` | `EntityInv`, `ExecuteExact` |
| `PoolInvariance`, `ClaimsExactly` | `TypePool` | `PoolInv`, `PoolExact` |
| `ListInvariance`, `ListsExactly` | `List` | `ListInv`, `ListExact` |
| `RwInvariance`, `SwapsExactly` | `RwList` | `RwInv`, `RwExact` |
| `LibraryInvariance` | `MCLibrary` | `LibrarySpec => []LibraryInv` |

### Thread pool

Assumptions: `PoolAssumption`, `FreeAssumption`.

`NoLostWakeup` is not inductive. A worker in `gap` is about to sleep, and the
step to `waiting` could leave a message to sleepers only. `LockInv` rules it
out: the lock is held exactly by the worker in `gap`, no push can pass it, so the
stack is still empty. Workers in `leave` or `exited` are no help to a running
pool; `OwnerInv` says they exist only once `is_run` is false, and follows the
owner's loops, so that start finds no old thread and stop has joined all when
it is done. `SlotInv` says that every slot below `top` and every slot a worker
still points at holds an accepted message, whoever wrote it last; that is why an
overwritten slot yields a wrong message but never one nobody pushed. With the
types these are `SyncInv`. `SignalWakes` and `SignalReaches` state what a signal
does on either platform.

`AccountInv` adds the counting. That no two workers share a busy flag rests on
`thread_index`, which is never reset: `NumberInv` says that in the first round it
counts the threads that took a number, the joined ones included, and that each
number below it was taken once; `RoundInv` that threads of a later start find the
pool stopped and get at no message, so their numbers beyond the array do no harm.
`FlagInv` then equates each flag with a worker that set it. `OfferInv` says a
message is offered by one call and accepted once, so that `CallbackCount` can
speak of the cardinality of `accepted`.

`RefinesWorkPool` shows that each step of the pool is a step of `WorkPool` or
leaves its state alone: a push that is accepted is `Submit`, `Pop` is `Take`,
`Return` is `Finish`, the first thread started is `Open`, the owner's first stop
`Close`, and everything else stutters. `WorkerSets` and `MessageSets` are the facts
on cardinalities it needs.

### Timer manager

Assumption: `TimeAssumption`.

The search is the heart of `OrderInv` (`SearchInv`): while a later deadline is in
the window, some entry with one lies between `low` and `high`, so `low <= high`
and the loop goes on; while there is none, `high` stays at the end of the window,
so an insertion always goes behind all others, which keeps the order without any
fact about the wrapping clock. For `middle` to be an index of the window,
`high <= compositor_num` is part of it. That the order survives needs `IdsInv`:
an id taken for a new timer is in no other place, or filling in its node would
change a pending deadline. `RoomInv` follows the end of the window: adding keeps
room behind it unless all nodes are pending, firing leaves its end where it is
(or wraps an empty window to the front), and only growth makes room again; so
the overrun needs `filled`.

`TimerInv` says what becomes of a timer. `PlacesInv`: every node is free, pending
or being added. `NodesInv`: an armed node stands for one timer, has its handle,
is neither called back nor disarmed, and holds its true deadline modulo `Wrap`.
`FreshInv`: a timer not offered yet has no node. From these, `NoTimerLost`
(a timer that is neither called back nor disarmed is armed in the window) is
kept also when a callback deletes or adds, and a deletion by a stale id hits only
the timer that has the node now. `FiresRight` and `NoneOverdue` compare wrapped
deadlines with true ones, by `ModPlus`, `DeadlineWraps` and `EpochOrder`: within
one wrap the counter orders times as the clock does. `NodesConserved` follows from
`PlacesInv` and `OnePlace` by `InjectiveCount`.

### Epoll server: sends across connections

Assumptions: `BufferAssumption`, `SendAssumption`, `ServerAssumption`.

`ServerInv` has the types; `LifeInv` (a session that is not set up has the
connection the logic knows); `CallInv` (a call has its data, and what the kernel
took of it is at most that). `FreshInv` says why `crossed` is the only exception:
until `on_enter`, nobody touches a session that nobody was at work on when it got
its connection, so the wire is empty and, from 162 on, the buffer too. `BytesInv`
relates wire, buffer and calls afterwards: accepted bytes are on the wire or in the
buffer, and what is there was accepted, was taken by the kernel of a call still
under way, or is a zero. The send lock plays no part in the argument: the bytes
are conserved even if two senders were in the section together; it is the order
of bytes that the lock protects, and order is not claimed, since 258 breaks it.
The types are not inductive without `CallInv`: a call that has no data could
write anything.

### Epoll server: sessions

Assumptions: `BufferAssumption`, `SessionAssumption`.

`SessionInv` has four parts beside the properties themselves, `ConnsOwned` among
these: an open connection is in one place, and its number is its own. `OneSession`: a
connection the listen thread has yet to place meets no session, and each meets at
most one, whether by `fd`, by `entered` or by what epoll has registered.
`ListenInv`: what the session being set up looks like at each step of
`epoll_handle_newclient`, a close by another thread in between included.
`HandlerInv`: a reactor holds `recv_mutex` exactly while it is in the handler, and
whatever reactor has work for an untainted session has it for the live
connection; a `recv` under way for one was called with the descriptor and the place
in the buffer that the session still has. With the numbers of `ConnsOwned` such a
`recv` reaches that connection and no other (`ReachedOwn`), and it never blocks
(`BlocksTainted`); so `robbed` needs a session that is tainted. `FlowInv`: the unread bytes of a live session's buffer are the last
ones received of its own stream, and what the logic consumed, what it is about to
release and what is unread add up to what was received. The mutex makes `InUse`
well defined, and an untainted session is set up with an empty buffer; the stream
is intact by both. For a connection in `robbed` `FlowInv` claims nothing but that
nothing of it is used before `on_enter`. A step of a handler touches the buffer of
its own session and the bytes of one connection; where those are not one session's,
the connection is robbed (`FlowTouched`). `ReceivedCarries`, `ReadCarries` and `RoomKeeps` are the
lemmas on receiving, consuming and moving to the front.

### Completion-port server: sessions

Assumptions: `BufferAssumption`, `IocpAssumption`, which has the set of workers
finite.

`StreamIntactUnlessMixed` has the form of `EpollSession`'s, but no mutex holds the
threads apart: what does is that a session has one request at a time. `OneAtWork`
says so: for an active session that was never `mixed`, there is one posted
receive, or one packet in the queue, or one worker with a packet, or nothing, and
never two. `BufferInv` says what each of the three makes of the buffer: a posted
receive was given the buffer's free end, which nobody moved since; the bytes of a
packet lie behind `write_pos` until `Recved` counts them (`Adding`, `Holds`); and
a worker about to post the next receive has moved a full buffer to the front
(`Compacted`) if anything of it was used. `DeafOnlyWhenFull` follows from
`Attended`: whoever leaves the session hands it on or is one of the exceptions.

Both hold of one life only, and `mixed` names the sessions of which two lives met;
but that a life begins clean has to be shown for all. `OwnerInv` follows the
connections: one belongs to one session for ever, be it by `conn`, by `entered` or by
the packet of an accept not handled yet, and such a packet's connection has sent
and received nothing. `Between` says that a session that waits for a client or has
its accept packet under way is not active and has no receive posted, so that
`FreshBuffer` starts a stream from nothing. `SocketInv` says that an unconnected
socket has no receive. `HandInv` fits the packet a worker holds to the branch it is in, and
`QueueInv` counts stop's packets: those in the queue and those counted are the
sessions closed so far, which keeps `close_num` in its type.

The proof has a lemma per action. Most leave all sessions but one alone; the frame
lemmas (`LifeStill`, `WorkerKeeps`, `TakeKeeps`, put together by `Assemble`) say what
a step must leave alone for another session's share of the invariant to hold after
it: its places in the queue may move by one, as a packet in front is taken (`Kept`).
`ReadSplits`, `CompactedIs` and `FirstBytes` are the facts on the buffer: using
bytes splits its content, moving it to the front keeps it, and bytes received at
`write_pos` follow it.

### Both servers: the interface

Each `RefinesInterface` has one lemma per action the interface can see, and
`StepRefines` puts them together. In `EpollSession` an accept that finds no free
session is `Refuse`, `Pop` is `Admit`, `OnEnter` is `Enter`, `OnRecved` is `Use`, and a
close of an open session is `Close` if the session was promised and `Leave` if not.
A `RecvBytes` that robs a promised session is `Rob` (`RecvBytesRefines`): one session at
most has the connection, and some session is tainted.
In `Iocp` the system's `Connect` is `Admit` (or `Refuse`, for a client that is gone
already), `AcceptComplete` is `Enter`, `Recved` is `Use`, `Reset` is `Close` for a promised
session and no step for another, and `Disconnected` is `Leave`. All else stutters.

The facts needed are the inductive invariants, before and after the step. `Enter`
takes from `OneSession`, or `OwnerInv`, that no other session has the client, and from
`FlowInv`, or `Between`, that nothing of the client was used yet. `Use` takes the two
stream properties: what was used before is in front of what is used now, and that
is in front of the client's stream (`FrontOfStream`). That `Pop` takes a session
without a client is the exactness of the free list; that `Disconnected` finds no
promised session is `LifeInv`: a disconnect was issued only by a reset, and the
session is inactive from then until its next client.

### Completion-port server: sends

Assumptions: `BufferAssumption`, `IocpSendAssumption`.

`IocpSendInv` keeps `SendExact`, with the two facts it rests on. A region posted
from the buffer ends at or before `read_pos` (`Ordered`): `AfterBuffer` moves the
position behind it at once, and a write only touches what lies behind
`write_pos`, unless it starts at the front, which is the exception `moved`. So what
the system will read for a posted send is fixed when it is posted, whatever the
caller writes meanwhile. And while bytes wait in the buffer or `send_ispending` is
on, a send is posted or a completion is still to be handled (`WillBeSent`): a refused
send leaves both as they were, and a completion clears the flag and then empties
the buffer or fails. `LifeInv` says that a session waiting for a client has
nothing posted and its flag cleared (173), and that one nothing was carried over to
meets its client with no completion outstanding, so that the next connection
starts from a clean link. `SenddataIs`, `WrapBufferIs` and `WrapIs` say what the
three functions of 223-285 come to; `JoinedAppend` and `JoinedTail` say that a send
posted last, or done first, adds to or leaves the bytes in the system at that
end. `Joined` is a recursive function; `JoinsExist` and `JoinsUnique` show, from the
least number at which it would fail, that it exists and is one.

### Library parts

Assumptions: `FdAssumption`, `EventAssumption`, `EntityAssumption`,
`PoolAssumption` of `TypePool`, `ListAssumption`, `RwAssumption`.

- `FdSetInv`: the flags up to the highest descriptor ever pushed are written and
  exact as long as the array reached every descriptor (`FlagsExact`); so the scan
  down from a watched descriptor finds the next one before it meets junk.
- `EventInv`: for every notification in progress, what it ran lies in order up to
  its place and what it owes lies behind it within the lengths it read
  (`FrameInv`, `OwedInv`); tables only grow, so an inner insert disturbs none.
- `EntityInv`: an execution in progress has called once what it owes up to the
  handler it stands at and nothing behind (`RoundInv`); lists hold a handler once
  (`Distinct`), so an erase elsewhere only shortens them.
- `PoolInv`: each stack holds elements of its own node only, so none is full when
  an element comes back (`StackNotFull`, by cardinality), and the free elements
  and those in use partition the pool. A claim finds an element wherever one is
  free; the node its search stops at is the least that has one
  (`SmallestExists`, from the library's well-foundedness of the naturals).
- `ListInv`: the two pools stay the one node they began with, links in both
  directions and data elements agree with the abstract content; insertion and
  removal are by position (`PlaceOf`, `Unlinked`).
- `RwInv`: unless a stack is shared, the consumer alone is at the stack `read`
  stands for, the top it lowers is the one it found, and an item pushed is in one
  place or was taken once.

`LibraryInvariance` is about `MCLibrary`, the run itself: a step of it is a step of one
part and leaves the others alone (`StepsAreOfParts`), so each behaviour is one of
every part (`RunsEveryPart`) and the invariants above hold side by side.
`LibraryInv` is their conjunction with the types; those of pools, list and swap list
are not part of the inductive invariants and follow from them (`PoolTypes`,
`ListTypes`, `SwapListTypes`), the last with `Accounted`: an item is yet to be pushed,
pushed, or refused.

### Only model-checked

- Liveness, which is outside the prover's reach, and so the fairness conditions
  and everything with ENABLED: `WaitReturns`, `StopReturns` and the liveness half
  of `ImplementsWorkPool` of the pool, `LaterAddReturns` and `TimerFires`,
  `BytesAreTaken`, `SlotComesBack` and `StopReturns` of `Iocp`.

The violations of `pool_overwrite`, `send_twice` and `send_stuck` are
counterexamples on one instance and need no proof.

## 5. Plan

Done, in this order, because the pool is what the rest of the library's
concurrency rests on and timers, buffers and sessions carry the server:
`WorkPool`, `ThreadPool`, `TimeAction`, `Buffer`, `EpollSend`, `EpollSession`, then
`Iocp`, `IocpSend`, `RwList`, `FdSet`, `TypePool`, `List`, `Event` and `Entity`, and
`EpollServer`; the proofs of all of them; last `ServerInterface`, and the proofs that
`EpollSession` and `Iocp` implement it. The small
ones need no scheduling and share the run of `MCLibrary`.

No module is planned beyond these; what is left out is in section 6.

Every invariant a run checks and every action property is a theorem; what a run
checks beyond them is liveness. All three refinements are theorems: that of
`WorkPool` for its safety half, those of `ServerInterface`, which promises no
liveness, in full. `StreamIntact` and `NotBusyMeansHandled`, stated in
the modules and not kept by the code, stay statements.

## 6. Not modelled

- Memory allocation failures (except the timers' and the swap list's growth),
  the platform wrappers, log output, the examples and the project files.
- `server.c`: its four calls pass through function pointers. `ServerInterface` says
  what holds behind `server_close` and the callbacks; start, stop and the lengths of
  sends are not part of it. `server_send`
  (22-25) turns the number `send_pt` returns into a bool, so -1 and partial sends
  read as success to its caller; the models speak of the number.
- Windows half of `fdset.c`, which keeps no array and no `max_fd`;
  `rwlist_get_readlistnum`, a read of a counter.
- The map-based PropertyBank and `HasProperty` of `dnotify.h`, plain containers;
  the deletes of events, entities, pools and lists, which free memory.
- Completion port: a second start after stop, and failures inside start.
- Receiving and sending of one session in one model: in both servers they share
  only the session's life, which `EpollSession` and `EpollServer`, `Iocp` and
  `IocpSend` each follow.
