---------------------------- MODULE EpollSession ----------------------------
(***************************************************************************)
(* The life of the sessions of server-model01/epollserver.c: the listen    *)
(* thread takes a session from the free list for a connection, a reactor   *)
(* thread receives on it and calls the logic, and server_close, from a     *)
(* callback or from a thread of the program, gives the session back, to be *)
(* used again at once.  Sending is the subject of EpollSend.               *)
(***************************************************************************)
EXTENDS Buffer, FiniteSets

CONSTANTS Conns,        \* the connections clients open
          Stream,       \* the bytes each client sends
          Leaving,      \* those whose clients may end it
          Fds,          \* the descriptor numbers the process may have open
          max_num,      \* number of sessions
          reactor_num,  \* EPOLL_WORKTHREAD_NUM
          MidClose,     \* may server_close be called other than in on_close?
          None          \* no connection, no reactor, no holder of a mutex

ASSUME SessionAssumption ==
  /\ max_num \in Nat \ {0} /\ reactor_num \in Nat \ {0}
  /\ Stream \in [Conns -> Seq(Bytes)]
  /\ Leaving \subseteq Conns /\ Fds \subseteq Nat
  /\ MidClose \in BOOLEAN
  /\ None \notin Conns \cup Nat \cup [reactor : Nat, session : Nat]

Sessions == 0 .. max_num - 1
Reactors == 0 .. reactor_num - 1

VARIABLES
  fd, reactor, recv_buffer, recv_mutex,   \* fields of session_s
  freelist, freelist_num, fd_num,         \* of epollserver_s, of its reactors
  lpc, lfd, lsession, lreactor, lcount,   \* the listen thread and its locals
  rpc, batch, cur, received, proc_begin, proc_len, \* per reactor thread: its
  call,                                   \* position, events to handle, locals,
                                          \* the recv it is about to call or in
  apc, asession, areactor,                \* a program thread in server_close
  backlog, open, number,                  \* TCP: not accepted, with a descriptor,
  arrived, taken, fin,                    \* its number, bytes arrived and taken,
                                          \* half-closed
  registered, ready,                      \* epoll: session of a connection,
                                          \* connections with an event pending
  entered, consumed, leaked,              \* history: connection on_enter was
  tainted, robbed                         \* called for, bytes the logic used,
                                          \* connections dropped without close,
                                          \* sessions closed under a handler, and
                                          \* connections received from by the
                                          \* handler of another session

sessVars   == <<fd, reactor, recv_buffer, recv_mutex>>
freeVars   == <<freelist, freelist_num, fd_num>>
listenVars == <<lpc, lfd, lsession, lreactor, lcount>>
reactVars  == <<rpc, batch, cur, received, proc_begin, proc_len, call>>
appVars    == <<apc, asession, areactor>>
tcpVars    == <<backlog, open, number, arrived, taken, fin>>
epollVars  == <<registered, ready>>
histVars   == <<entered, consumed, leaked, tainted, robbed>>
vars == <<sessVars, freeVars, listenVars, reactVars, appVars, tcpVars, epollVars,
          histVars>>
-----------------------------------------------------------------------------
(* epollserver_start_callback *)
Init ==
  /\ fd = [s \in Sessions |-> None]
  /\ reactor = [s \in Sessions |-> None]
  /\ recv_buffer = [s \in Sessions |-> EmptyBuffer]
  /\ recv_mutex = [s \in Sessions |-> None]
  /\ freelist = [i \in 1 .. max_num |-> i - 1]
  /\ freelist_num = max_num
  /\ fd_num = [r \in Reactors |-> 0]
  /\ lpc = "accept" /\ lfd = None /\ lsession = 0 /\ lreactor = 0 /\ lcount = 0
  /\ rpc = [r \in Reactors |-> "wait"]
  /\ batch = [r \in Reactors |-> {}]
  /\ cur = [r \in Reactors |-> 0]
  /\ received = [r \in Reactors |-> FALSE]
  /\ proc_begin = [r \in Reactors |-> FALSE]
  /\ proc_len = [r \in Reactors |-> 0]
  /\ call = [r \in Reactors |-> None]
  /\ apc = "idle" /\ asession = 0 /\ areactor = 0
  /\ backlog = Conns /\ open = {}
  /\ number = [c \in Conns |-> None]
  /\ arrived = [c \in Conns |-> 0]
  /\ taken = [c \in Conns |-> 0]
  /\ fin = [c \in Conns |-> FALSE]
  /\ registered = [c \in Conns |-> None]
  /\ ready = {}
  /\ entered = [s \in Sessions |-> None]
  /\ consumed = [c \in Conns |-> <<>>]
  /\ leaked = {} /\ tainted = {} /\ robbed = {}
-----------------------------------------------------------------------------
(***************************************************************************)
(* The clients and the kernel (external): bytes and the end of a stream    *)
(* arrive and raise an edge on a registered connection.                    *)
(***************************************************************************)
Edge(c) == IF registered[c] # None THEN ready \cup {c} ELSE ready

Arrive(c) ==
  /\ ~fin[c] /\ arrived[c] < Len(Stream[c])
  /\ arrived' = [arrived EXCEPT ![c] = @ + 1]
  /\ ready' = Edge(c)
  /\ UNCHANGED <<sessVars, freeVars, listenVars, reactVars, appVars, backlog,
                 open, number, taken, fin, registered, histVars>>

HalfClose(c) ==
  /\ c \in Leaving /\ ~fin[c]
  /\ fin' = [fin EXCEPT ![c] = TRUE]
  /\ ready' = Edge(c)
  /\ UNCHANGED <<sessVars, freeVars, listenVars, reactVars, appVars, backlog,
                 open, number, arrived, taken, registered, histVars>>
-----------------------------------------------------------------------------
(***************************************************************************)
(* The listen thread: accept, then epoll_handle_newclient.                 *)
(***************************************************************************)

\* The kernel gives a new descriptor the lowest number that no open one has; with
\* none left accept fails and is called again.  freelist_num is read without the
\* lock; with no session left the connection is forgotten, not closed.
FreeFds == Fds \ {number[c] : c \in open}
NextFd(n) == n \in FreeFds /\ \A m \in FreeFds : n <= m

Accept ==
  /\ lpc = "accept"
  /\ \E c \in backlog, n \in Fds :
       /\ NextFd(n)
       /\ backlog' = backlog \ {c}
       /\ open' = open \cup {c}
       /\ number' = [number EXCEPT ![c] = n]
       /\ IF freelist_num > 0
          THEN lpc' = "pop" /\ lfd' = c /\ leaked' = leaked
          ELSE lpc' = lpc /\ lfd' = None /\ leaked' = leaked \cup {c}
  /\ UNCHANGED <<sessVars, freeVars, lsession, lreactor, lcount, reactVars,
                 appVars, arrived, taken, fin, epollVars, entered, consumed,
                 tainted, robbed>>

PopSession_Peek == freelist
PopSession == SubSeq(freelist, 1, Len(freelist) - 1)

Pop ==
  /\ lpc = "pop"
  /\ freelist # <<>>
  /\ lsession' = freelist[Len(freelist)]
  /\ freelist' = PopSession
  /\ freelist_num' = freelist_num - 1
  /\ lpc' = "fd"
  /\ UNCHANGED <<sessVars, fd_num, lfd, lreactor, lcount, reactVars, appVars,
                 tcpVars, epollVars, histVars>>

\* The reactor with the fewest connections, the first of equals.
LightestReactor ==
  CHOOSE r \in Reactors :
    /\ \A q \in Reactors : fd_num[r] <= fd_num[q]
    /\ \A q \in Reactors : q < r => fd_num[r] < fd_num[q]

SetFd ==
  /\ lpc = "fd"
  /\ fd' = [fd EXCEPT ![lsession] = lfd]
  /\ lreactor' = LightestReactor
  /\ lpc' = "init"
  /\ UNCHANGED <<reactor, recv_buffer, recv_mutex, freeVars, lfd, lsession,
                 lcount, reactVars, appVars, tcpVars, epollVars, histVars>>

\* buffer_init of the receive buffer, without the receive mutex.
InitializedBuffer_Kept == recv_buffer[lsession]
InitializedBuffer == EmptyBuffer

InitBuffer ==
  /\ lpc = "init"
  /\ recv_buffer' = [recv_buffer EXCEPT ![lsession] = InitializedBuffer]
  /\ lpc' = "reactor"
  /\ UNCHANGED <<fd, reactor, recv_mutex, freeVars, lfd, lsession, lreactor,
                 lcount, reactVars, appVars, tcpVars, epollVars, histVars>>

\* socket_nonblock, the reactor, and fd_num++, which is a read ...
SetReactor ==
  /\ lpc = "reactor"
  /\ reactor' = [reactor EXCEPT ![lsession] = lreactor]
  /\ lcount' = fd_num[lreactor]
  /\ lpc' = "count"
  /\ UNCHANGED <<fd, recv_buffer, recv_mutex, freeVars, lfd, lsession, lreactor,
                 reactVars, appVars, tcpVars, epollVars, histVars>>

\* ... and a write, without the lock the decrement is under.
Count ==
  /\ lpc = "count"
  /\ fd_num' = [fd_num EXCEPT ![lreactor] = lcount + 1]
  /\ lcount' = 0
  /\ lpc' = "enter"
  /\ UNCHANGED <<sessVars, freelist, freelist_num, lfd, lsession, lreactor,
                 reactVars, appVars, tcpVars, epollVars, histVars>>

OnEnter ==
  /\ lpc = "enter"
  /\ entered' = [entered EXCEPT ![lsession] = lfd]
  /\ lpc' = "add"
  /\ UNCHANGED <<sessVars, freeVars, lfd, lsession, lreactor, lcount, reactVars,
                 appVars, tcpVars, epollVars, consumed, leaked, tainted, robbed>>

\* epoll_add_event: fails unnoticed if the connection was closed meanwhile.
AddEvent ==
  /\ lpc = "add"
  /\ IF lfd \in open
     THEN /\ registered' =
               [registered EXCEPT ![lfd] = [reactor |-> lreactor, session |-> lsession]]
          /\ ready' = IF arrived[lfd] > taken[lfd] \/ fin[lfd]
                      THEN ready \cup {lfd} ELSE ready
     ELSE UNCHANGED epollVars
  /\ lpc' = "accept" /\ lfd' = None /\ lsession' = 0 /\ lreactor' = 0
  /\ UNCHANGED <<sessVars, freeVars, lcount, reactVars, appVars, tcpVars,
                 histVars>>
-----------------------------------------------------------------------------
(***************************************************************************)
(* epollserver_handle_sessionclose: the part under the free list's lock, r *)
(* being the reactor read before it.  A second close finds fd cleared.     *)
(***************************************************************************)
IsOpen_Unchecked(s) == TRUE
IsOpen(s) == fd[s] # None

\* A handler is at work on s, or has an event for it, other than r's on_close.
UnderHandler(s, r) ==
  \/ recv_mutex[s] # None /\ ~(recv_mutex[s] = r /\ rpc[r] = "in_close")
  \/ \E q \in Reactors : s \in batch[q] \/ (rpc[q] = "lock" /\ cur[q] = s)

\* socket_close, which also takes the descriptor out of epoll and its number back.
\* A recv called between it and fd = -1 is one called before it: the number is the
\* same, and whatever the kernel gives it to has no session before the unlock.
Closed_Not(s) == open
Closed(s) == open \ {fd[s]}

CloseSession(s, r, by) ==
  IF IsOpen(s)
  THEN /\ open' = Closed(s)
       /\ registered' = [c \in Conns |-> IF c = fd[s] THEN None ELSE registered[c]]
       /\ ready' = ready \ {fd[s]}
       /\ fd' = [fd EXCEPT ![s] = None]
       /\ freelist' = Append(freelist, s)
       /\ freelist_num' = freelist_num + 1
       /\ fd_num' = [fd_num EXCEPT ![r] = @ - 1]
       /\ tainted' = IF UnderHandler(s, by) THEN tainted \cup {s} ELSE tainted
  ELSE UNCHANGED <<open, epollVars, fd, freeVars, tainted>>

\* server_close called by a thread of the program, with an index it got from
\* on_enter some time ago.
BeginClose ==
  /\ MidClose /\ apc = "idle"
  /\ \E s \in Sessions :
       /\ reactor[s] # None
       /\ asession' = s /\ areactor' = reactor[s]
  /\ apc' = "close"
  /\ UNCHANGED <<sessVars, freeVars, listenVars, reactVars, tcpVars, epollVars,
                 histVars>>

Close ==
  /\ apc = "close"
  /\ CloseSession(asession, areactor, None)
  /\ apc' = "idle" /\ asession' = 0 /\ areactor' = 0
  /\ UNCHANGED <<reactor, recv_buffer, recv_mutex, listenVars, reactVars, backlog,
                 number, arrived, taken, fin, entered, consumed, leaked, robbed>>

\* server_close called from inside on_close or on_recved.
CloseInCallback(r) ==
  /\ rpc[r] = "in_close" \/ (MidClose /\ rpc[r] = "in_recved")
  /\ IsOpen(cur[r])
  /\ CloseSession(cur[r], reactor[cur[r]], r)
  /\ UNCHANGED <<reactor, recv_buffer, recv_mutex, listenVars, reactVars, appVars,
                 backlog, number, arrived, taken, fin, entered, consumed, leaked,
                 robbed>>
-----------------------------------------------------------------------------
(***************************************************************************)
(* A reactor thread: epoll_work_thread and epoll_recvdata_callback.        *)
(***************************************************************************)

\* epoll_wait hands over the sessions of all pending events (MAX_EVENTS is not
\* reached); a session may be closed or in use again when its turn comes.
Mine(r) == {c \in ready : registered[c].reactor = r}

EpollWait(r) ==
  /\ rpc[r] = "wait" /\ Mine(r) # {}
  /\ batch' = [batch EXCEPT ![r] = {registered[c].session : c \in Mine(r)}]
  /\ ready' = ready \ Mine(r)
  /\ rpc' = [rpc EXCEPT ![r] = "batch"]
  /\ UNCHANGED <<sessVars, freeVars, listenVars, cur, received, proc_begin,
                 proc_len, call, appVars, tcpVars, registered, histVars>>

NextEvent(r) ==
  /\ rpc[r] = "batch"
  /\ IF batch[r] = {}
     THEN rpc' = [rpc EXCEPT ![r] = "wait"] /\ UNCHANGED <<batch, cur>>
     ELSE \E s \in batch[r] :
            /\ batch' = [batch EXCEPT ![r] = @ \ {s}]
            /\ cur' = [cur EXCEPT ![r] = s]
            /\ rpc' = [rpc EXCEPT ![r] = "lock"]
  /\ UNCHANGED <<sessVars, freeVars, listenVars, received, proc_begin,
                 proc_len, call, appVars, tcpVars, epollVars, histVars>>

Lock(r) ==
  /\ rpc[r] = "lock" /\ recv_mutex[cur[r]] = None
  /\ recv_mutex' = [recv_mutex EXCEPT ![cur[r]] = r]
  /\ rpc' = [rpc EXCEPT ![r] = "recv"]
  /\ UNCHANGED <<fd, reactor, recv_buffer, freeVars, listenVars, batch, cur,
                 received, proc_begin, proc_len, call, appVars, tcpVars,
                 epollVars, histVars>>

\* Where the handler goes when its receive loop ends with nothing to close.
AfterLoop(r) == IF received[r] THEN "on_recved" ELSE "again"

\* One round of the receive loop, up to the call of recv or, with no room in
\* the buffer even after moving it to the front, to the end of the loop.
Room(b) == IF WriteValid(b) <= 0 THEN AdjustToHead(b) ELSE b

BufferFull(r) ==
  /\ rpc[r] = "recv"
  /\ WriteValid(Room(recv_buffer[cur[r]])) <= 0
  /\ recv_buffer' = [recv_buffer EXCEPT ![cur[r]] = Room(@)]
  /\ proc_begin' = [proc_begin EXCEPT ![r] = TRUE]
  /\ rpc' = [rpc EXCEPT ![r] = AfterLoop(r)]
  /\ UNCHANGED <<fd, reactor, recv_mutex, freeVars, listenVars, batch, cur,
                 received, proc_len, call, appVars, tcpVars, epollVars,
                 histVars>>

\* recv is called: the descriptor, the write pointer and the length are its
\* arguments, whatever becomes of the session after they were read.
CallRecv(r) ==
  LET s == cur[r]
      b == Room(recv_buffer[s])
  IN /\ rpc[r] = "recv" /\ WriteValid(b) > 0
     /\ recv_buffer' = [recv_buffer EXCEPT ![s] = b]
     /\ call' = [call EXCEPT ![r] =
                   [conn |-> fd[s], pos |-> b.write_pos, room |-> WriteValid(b)]]
     /\ rpc' = [rpc EXCEPT ![r] = "call"]
     /\ UNCHANGED <<fd, reactor, recv_mutex, freeVars, listenVars, batch, cur,
                    received, proc_begin, proc_len, appVars, tcpVars, epollVars,
                    histVars>>

\* The connection a recv reaches: while it runs, the one it began with, else the
\* open one that has the number now, be it another than the argument stood for.
Reached(r) ==
  IF rpc[r] = "blocked" THEN {call[r].conn}
  ELSE {d \in open : call[r].conn # None /\ number[d] = number[call[r].conn]}

InRecv(r) == rpc[r] \in {"call", "blocked"}
Returns(r, pc) ==
  /\ rpc' = [rpc EXCEPT ![r] = pc]
  /\ call' = [call EXCEPT ![r] = None]

\* recv returns bytes of connection c, put where the buffer's write pointer was
\* when recv was called: the loop goes on.
RecvBytes(r, c) ==
  LET s == cur[r]
      n == call[r].room
      m == IF arrived[c] - taken[c] < n THEN arrived[c] - taken[c] ELSE n
      bytes == SubSeq(Stream[c], taken[c] + 1, taken[c] + m)
      filled(b) == [Fill([b EXCEPT !.write_pos = call[r].pos], bytes)
                      EXCEPT !.write_pos = b.write_pos]
  IN /\ InRecv(r) /\ c \in Reached(r) /\ arrived[c] > taken[c]
     /\ recv_buffer' = [recv_buffer EXCEPT ![s] = AddWritePos(filled(@), m)]
     /\ taken' = [taken EXCEPT ![c] = @ + m]
     /\ received' = [received EXCEPT ![r] = TRUE]
     /\ robbed' = IF fd[s] = c THEN robbed ELSE robbed \cup {c}
     /\ Returns(r, "recv")
     /\ UNCHANGED <<fd, reactor, recv_mutex, freeVars, listenVars, batch, cur,
                    proc_begin, proc_len, appVars, backlog, open, number, arrived,
                    fin, epollVars, entered, consumed, leaked, tainted>>

\* recv returns 0 at the end of the stream, or fails on a number not in use: the
\* bytes received in this call of the handler are not passed on.
RecvEnds(r) ==
  /\ InRecv(r)
  /\ \A c \in Reached(r) : arrived[c] = taken[c] /\ fin[c]
  /\ Returns(r, "on_close")
  /\ UNCHANGED <<sessVars, freeVars, listenVars, batch, cur, received, proc_begin,
                 proc_len, appVars, tcpVars, epollVars, histVars>>

\* With nothing to receive (EAGAIN) they are.
Blocking(c) == lfd = c /\ lpc \in {"pop", "fd", "init", "reactor"}
Nothing(c) == arrived[c] = taken[c] /\ ~fin[c]

RecvNothing(r) ==
  /\ rpc[r] = "call"
  /\ \E c \in Reached(r) : Nothing(c) /\ ~Blocking(c) /\ c \notin leaked
  /\ Returns(r, AfterLoop(r))
  /\ UNCHANGED <<sessVars, freeVars, listenVars, batch, cur, received, proc_begin,
                 proc_len, appVars, tcpVars, epollVars, histVars>>

\* A recv may find a new connection before socket_nonblock, or a forgotten one that
\* never comes to it: it blocks, with the receive mutex held, and nothing but the
\* client ends that.
RecvBlocks(r) ==
  /\ rpc[r] = "call"
  /\ \E c \in Reached(r) :
       /\ Nothing(c) /\ (Blocking(c) \/ c \in leaked)
       /\ call' = [call EXCEPT ![r].conn = c]
  /\ rpc' = [rpc EXCEPT ![r] = "blocked"]
  /\ UNCHANGED <<sessVars, freeVars, listenVars, batch, cur, received, proc_begin,
                 proc_len, appVars, tcpVars, epollVars, histVars>>

OnClose(r) ==
  /\ rpc[r] = "on_close"
  /\ rpc' = [rpc EXCEPT ![r] = "in_close"]
  /\ UNCHANGED <<sessVars, freeVars, listenVars, batch, cur, received,
                 proc_begin, proc_len, call, appVars, tcpVars, epollVars,
                 histVars>>

EndOnClose(r) ==
  /\ rpc[r] = "in_close"
  /\ rpc' = [rpc EXCEPT ![r] = "again"]
  /\ UNCHANGED <<sessVars, freeVars, listenVars, batch, cur, received,
                 proc_begin, proc_len, call, appVars, tcpVars, epollVars,
                 histVars>>

\* The logic is shown all unread bytes and says how many of them it used.
OnRecved(r) ==
  LET s == cur[r]
      shown == Content(recv_buffer[s])
  IN /\ rpc[r] = "on_recved"
     /\ \E n \in 0 .. Len(shown) :
          /\ proc_len' = [proc_len EXCEPT ![r] = n]
          /\ consumed' = IF entered[s] = None THEN consumed
                         ELSE [consumed EXCEPT ![entered[s]] =
                                 @ \o SubSeq(shown, 1, n)]
     /\ rpc' = [rpc EXCEPT ![r] = "in_recved"]
     /\ UNCHANGED <<sessVars, freeVars, listenVars, batch, cur, received,
                    proc_begin, call, appVars, tcpVars, epollVars, entered,
                    leaked, tainted, robbed>>

\* The bytes used are passed over, not all that were shown.
Passed_All(b, n) == AddReadPos(b, ReadValid(b))
Passed(b, n) == AddReadPos(b, n)

EndOnRecved(r) ==
  /\ rpc[r] = "in_recved"
  /\ recv_buffer' = [recv_buffer EXCEPT ![cur[r]] = Passed(@, proc_len[r])]
  /\ proc_len' = [proc_len EXCEPT ![r] = 0]
  /\ rpc' = [rpc EXCEPT ![r] = "again"]
  /\ UNCHANGED <<fd, reactor, recv_mutex, freeVars, listenVars, batch, cur,
                 received, proc_begin, call, appVars, tcpVars, epollVars,
                 histVars>>

\* A full buffer is the reason to receive once more; otherwise unlock.
ReceiveMore_Never(r) == FALSE
ReceiveMore(r) == proc_begin[r]

Again(r) ==
  /\ rpc[r] = "again"
  /\ received' = [received EXCEPT ![r] = FALSE]
  /\ proc_begin' = [proc_begin EXCEPT ![r] = FALSE]
  /\ IF ReceiveMore(r)
     THEN /\ rpc' = [rpc EXCEPT ![r] = "recv"]
          /\ UNCHANGED <<recv_mutex, cur>>
     ELSE /\ rpc' = [rpc EXCEPT ![r] = "batch"]
          /\ recv_mutex' = [recv_mutex EXCEPT ![cur[r]] = None]
          /\ cur' = [cur EXCEPT ![r] = 0]
  /\ UNCHANGED <<fd, reactor, recv_buffer, freeVars, listenVars, batch,
                 proc_len, call, appVars, tcpVars, epollVars, histVars>>
-----------------------------------------------------------------------------
ListenStep == Pop \/ SetFd \/ InitBuffer \/ SetReactor \/ Count \/ OnEnter \/ AddEvent
ReactorStep(r) ==
  \/ EpollWait(r) \/ NextEvent(r) \/ Lock(r) \/ BufferFull(r) \/ CallRecv(r)
  \/ (\E c \in Conns : RecvBytes(r, c)) \/ RecvEnds(r) \/ RecvNothing(r) \/ RecvBlocks(r)
  \/ OnClose(r) \/ EndOnClose(r) \/ OnRecved(r) \/ EndOnRecved(r) \/ Again(r)

Next ==
  \/ \E c \in Conns : Arrive(c) \/ HalfClose(c)
  \/ Accept \/ ListenStep \/ BeginClose \/ Close
  \/ \E r \in Reactors : ReactorStep(r) \/ CloseInCallback(r)

Spec == Init /\ [][Next]_vars

\* The server's threads run and callbacks return.
FairSpec ==
  /\ Spec
  /\ WF_vars(Accept \/ ListenStep)
  /\ WF_vars(Close)
  /\ \A r \in Reactors : WF_vars(ReactorStep(r))
-----------------------------------------------------------------------------
\* Types of the state.
CallType == [conn : Conns \cup {None}, pos : 0 .. data_len, room : 0 .. data_len]
TypeOK ==
  /\ fd \in [Sessions -> Conns \cup {None}]
  /\ reactor \in [Sessions -> Reactors \cup {None}]
  /\ recv_buffer \in [Sessions -> BufferType]
  /\ recv_mutex \in [Sessions -> Reactors \cup {None}]
  /\ freelist \in Seq(Sessions) /\ freelist_num \in 0 .. max_num
  /\ fd_num \in [Reactors -> Int]
  /\ lpc \in {"accept", "pop", "fd", "init", "reactor", "count", "enter", "add"}
  /\ lfd \in Conns \cup {None} /\ lsession \in Sessions
  /\ lreactor \in Reactors /\ lcount \in Int
  /\ rpc \in [Reactors -> {"wait", "batch", "lock", "recv", "call", "blocked",
                           "on_close", "in_close", "on_recved", "in_recved", "again"}]
  /\ batch \in [Reactors -> SUBSET Sessions]
  /\ cur \in [Reactors -> Sessions]
  /\ received \in [Reactors -> BOOLEAN] /\ proc_begin \in [Reactors -> BOOLEAN]
  /\ proc_len \in [Reactors -> 0 .. data_len]
  /\ call \in [Reactors -> CallType \cup {None}]
  /\ apc \in {"idle", "close"} /\ asession \in Sessions /\ areactor \in Reactors
  /\ backlog \subseteq Conns /\ open \subseteq Conns
  /\ number \in [Conns -> Fds \cup {None}]
  /\ arrived \in [Conns -> Nat] /\ taken \in [Conns -> Nat]
  /\ fin \in [Conns -> BOOLEAN]
  /\ registered \in [Conns -> [reactor : Reactors, session : Sessions] \cup {None}]
  /\ ready \subseteq Conns
  /\ entered \in [Sessions -> Conns \cup {None}]
  /\ consumed \in [Conns -> Seq(Bytes)]
  /\ leaked \subseteq Conns /\ tainted \subseteq Sessions /\ robbed \subseteq Conns

\* Close, double close and reuse never put a session on the free list twice or
\* take it off while in use: a session is free exactly when it has no
\* connection and the listen thread is not about to give it one.
Free == {freelist[i] : i \in 1 .. Len(freelist)}
FreeListExact ==
  /\ Len(freelist) = Cardinality(Free)
  /\ freelist_num = Len(freelist)
  /\ \A s \in Sessions :
       s \in Free <=> fd[s] = None /\ ~(lpc = "fd" /\ lsession = s)

\* An open connection is in one place: some session's, in the listen thread's
\* hands, or forgotten for want of a session.  No other descriptor is closed, and
\* no two have the same number.
ConnsOwned ==
  /\ \A s \in Sessions : fd[s] # None => fd[s] \in open
  /\ \A s, q \in Sessions : fd[s] = fd[q] /\ fd[s] # None => s = q
  /\ open = {fd[s] : s \in {q \in Sessions : fd[q] # None}} \cup leaked
              \cup (IF lpc \in {"pop", "fd"} THEN {lfd} ELSE {})
  /\ \A c \in open : number[c] # None
  /\ \A c, d \in open : number[c] = number[d] => c = d
  /\ \A c \in ready : registered[c] # None

\* What the logic uses of a connection is its byte stream from the start, in
\* order and without gaps, as the lock of the receive handler is meant to
\* ensure ...
IsPrefixOf(s, t) == Len(s) <= Len(t) /\ s = SubSeq(t, 1, Len(s))
StreamIntact == \A c \in Conns : IsPrefixOf(consumed[c], Stream[c])

\* ... and does, on sessions never closed while a receive handler worked on
\* them or had an event for them (other than from its own on_close), for the
\* connections that the handler of such a session did not receive from, its
\* descriptor's number having come to another.  Without such a close it always does.
StreamIntactUnlessTainted ==
  /\ \A s \in Sessions : entered[s] # None /\ s \notin tainted =>
       entered[s] \in robbed \/ IsPrefixOf(consumed[entered[s]], Stream[entered[s]])
  /\ robbed # {} => tainted # {}

\* The inductive invariant of the theorems.  A connection is one session's for all
\* its life: that of its descriptor and of its on_enter.
Given == {"init", "reactor", "count", "enter", "add"}
Meets(s, c) ==
  \/ fd[s] = c \/ entered[s] = c
  \/ lsession = s /\ lpc \in Given /\ lfd = c
OneSession ==
  \A c \in Conns :
    /\ c \in backlog \cup leaked \/ (lpc \in {"pop", "fd"} /\ lfd = c) =>
         \A s \in Sessions : ~Meets(s, c)
    /\ \A s, q \in Sessions : Meets(s, c) /\ Meets(q, c) => s = q

\* A session is live between on_enter and its close.
Live(s) == fd[s] # None /\ entered[s] = fd[s]
ListenInv ==
  /\ backlog \cap open = {} /\ leaked \subseteq open
  /\ lpc = "accept" <=> lfd = None
  /\ lpc \in {"pop", "fd"} => lfd \in open \ leaked
  /\ lpc = "fd" => fd[lsession] = None
  /\ lpc \in Given => fd[lsession] = IF lfd \in open THEN lfd ELSE None
  /\ lpc \in Given \ {"add"} => entered[lsession] # lfd
  /\ lpc = "add" => entered[lsession] = lfd
  /\ \A c \in Conns : registered[c] # None =>
       fd[registered[c].session] = c /\ entered[registered[c].session] = c

\* A handler holds the receive mutex of its session; what it has for a session
\* not tainted is for a live connection, but for the way out after on_close.
Handling == {"recv", "call", "blocked", "on_close", "in_close", "on_recved", "in_recved", "again"}
Working(r, s) ==
  \/ s \in batch[r]
  \/ /\ cur[r] = s
     /\ rpc[r] \in {"lock", "recv", "call", "on_close", "on_recved", "in_recved"} \/ proc_begin[r]
HandlerInv ==
  \A r \in Reactors :
    /\ proc_begin[r] => rpc[r] \in {"on_recved", "in_recved", "again"}
    /\ proc_len[r] # 0 => rpc[r] = "in_recved"
    /\ rpc[r] \in {"call", "blocked"} => call[r] \in CallType
    /\ rpc[r] = "blocked" => cur[r] \in tainted
    /\ rpc[r] = "call" /\ cur[r] \notin tainted =>
         LET s == cur[r] IN
         call[r] = [conn |-> fd[s], pos |-> recv_buffer[s].write_pos,
                    room |-> WriteValid(recv_buffer[s])]
    /\ \A s \in Sessions :
         /\ recv_mutex[s] = r <=> cur[r] = s /\ rpc[r] \in Handling
         /\ s \notin tainted /\ Working(r, s) => Live(s)

\* The unread bytes of a buffer are the last of the first n of a stream.
Carries(b, stream, n) ==
  /\ b.read_pos <= b.write_pos /\ ReadValid(b) <= n
  /\ \A i \in 1 .. ReadValid(b) : b.data[b.read_pos + i - 1] = stream[n - ReadValid(b) + i]

\* Bytes the logic has used that the read position does not count yet.
InUse(s) == IF recv_mutex[s] = None THEN 0 ELSE proc_len[recv_mutex[s]]
Fresh(c) == consumed[c] = <<>> /\ (c \in robbed \/ taken[c] = 0)
FlowInv ==
  /\ \A c \in Conns : /\ taken[c] <= arrived[c] /\ arrived[c] <= Len(Stream[c])
                      /\ c \in backlog \/ (lpc \in {"pop", "fd"} /\ lfd = c) => Fresh(c)
  /\ \A s \in Sessions \ tainted :
       /\ Live(s) /\ fd[s] \notin robbed =>
            /\ Carries(recv_buffer[s], Stream[fd[s]], taken[fd[s]])
            /\ InUse(s) <= ReadValid(recv_buffer[s])
            /\ Len(consumed[fd[s]]) + ReadValid(recv_buffer[s]) = taken[fd[s]] + InUse(s)
       /\ lsession = s /\ lpc \in Given \ {"add"} => Fresh(lfd)
       /\ lsession = s /\ lpc \in {"reactor", "count", "enter"} =>
            recv_buffer[s] = EmptyBuffer

SessionInv ==
  /\ TypeOK /\ FreeListExact /\ ConnsOwned /\ OneSession /\ ListenInv
  /\ HandlerInv /\ FlowInv /\ StreamIntactUnlessTainted

\* Edges are not lost: although epoll reports each arrival once, every byte
\* that arrived on a registered connection is received, or the connection is
\* closed, as long as no logic leaves a full buffer for ever and no recv blocks
\* for ever.
Spinning(r) ==
  rpc[r] = "recv" /\ WriteValid(Room(recv_buffer[cur[r]])) <= 0
BytesAreTaken ==
  (\A r \in Reactors : <>[]~Spinning(r) /\ []<>(call[r] = None)) =>
    \A c \in Conns : registered[c] # None /\ arrived[c] > taken[c] ~>
                       registered[c] = None \/ arrived[c] = taken[c]

-----------------------------------------------------------------------------
\* What the interface shows of the server.  A session taken from the free list is
\* the client's from then on, also before the descriptor is in it.
Unaccepted == backlog \cup (IF lpc = "pop" THEN {lfd} ELSE {})
Serving == [s \in Sessions |-> IF lpc = "fd" /\ lsession = s THEN lfd ELSE fd[s]]
Promised == {s \in Sessions \ tainted : Live(s) /\ fd[s] \notin robbed}

Interface == INSTANCE ServerInterface
  WITH Clients <- Conns, waiting <- Unaccepted, serving <- Serving, told <- entered,
       used <- consumed, open <- Promised, late <- tainted

\* Every behaviour of the epoll server is one that ServerInterface allows: whichever
\* thread closes a session and whenever it is used again, a client is one session's,
\* is announced there first, and is not cut off or mixed up with another, until
\* someone closes a session under a handler; from then on every session may lose
\* bytes to that one.
ImplementsInterface == Interface!Spec
=============================================================================
