-------------------------------- MODULE Iocp --------------------------------
(***************************************************************************)
(* server-model01/iocp.c without sending: the sessions are accepted,       *)
(* receive, are closed and accepted again by packets of the completion     *)
(* port that any worker takes, while the program closes sessions from      *)
(* callbacks and from a thread of its own, and at last stops the server.   *)
(* The logic may call server_close in on_close or leave it.                *)
(***************************************************************************)
EXTENDS Buffer, FiniteSets

CONSTANTS Conns,       \* the connections clients open
          Stream,      \* the bytes each client sends
          max_num,     \* number of sessions
          Workers,     \* the worker threads
          Closer,      \* a thread of the program that calls server_close
          MaxCloses,   \* bound: calls of server_close other than in on_close
  None

ASSUME IocpAssumption ==
  /\ max_num \in Nat \ {0}
  /\ Stream \in [Conns -> Seq(Bytes)]
  /\ IsFiniteSet(Workers) /\ Closer \notin Workers
  /\ None \notin Conns \cup Nat

Sessions == 0 .. max_num - 1
Threads == Workers \cup {Closer}

VARIABLES
  active, offset, recv_buffer,   \* fields of session_s; the Offset of its
                                 \* ovl_accept_reset, read when a packet is handled
  listen_key,                    \* "listen", or "exit": fromlisten false, ptr 0xFF
  close_num, spc, closing,       \* stop: counted packets, position, next session
  queue,                         \* the completion port, oldest first
  wpc, hand, valid,              \* worker: position, its packet, bytes shown to
                                 \* on_recved
  resetting,                     \* thread: the session it found active in reset
  backlog, ended, sentbytes,     \* clients: not connected yet, done sending,
  closes,                        \* bytes delivered so far; calls for the bound
  conn, accepting, leaving,      \* socket of a session: its connection, AcceptEx
  recvs, closed,                 \* and TransmitFile outstanding, WSARecvs, closed
  entered, consumed,             \* history: connection on_enter was called for,
                                 \* bytes the logic used
  mixed,                         \* history: sessions two lives of which met
  lost,                          \* history: sessions whose AcceptEx or
                                 \* TransmitFile failed
  declined,                      \* history: sessions the logic did not close in
                                 \* on_close, nor anyone since
  wcrash                         \* a worker used NULL or 0xFF as a session

sockVars == <<conn, accepting, leaving, recvs, closed>>
netVars  == <<backlog, ended, sentbytes, closes>>
stopVars == <<listen_key, close_num, spc, closing>>
workVars == <<wpc, hand, valid>>
sessVars == <<active, offset, recv_buffer>>
histVars == <<entered, consumed, mixed, lost, declined>>
vars == <<sockVars, netVars, stopVars, workVars, sessVars, histVars, queue,
          resetting, wcrash>>

Packet(key, op, s, ok, n) == [key |-> key, op |-> op, s |-> s, ok |-> ok, n |-> n, conn |-> None]
NoPacket == Packet("null", "none", None, TRUE, 0)

\* iocp_start_callback, the clients not connected yet.
Init ==
  /\ active = [s \in Sessions |-> FALSE]
  /\ offset = [s \in Sessions |-> "accept"]
  /\ recv_buffer = [s \in Sessions |-> EmptyBuffer]
  /\ listen_key = "listen"
  /\ close_num = 0 /\ spc = "running" /\ closing = 0
  /\ queue = <<>>
  /\ wpc = [w \in Workers |-> "get"]
  /\ hand = [w \in Workers |-> NoPacket]
  /\ valid = [w \in Workers |-> 0]
  /\ resetting = [t \in Threads |-> None]
  /\ backlog = Conns
  /\ ended = [c \in Conns |-> FALSE]
  /\ sentbytes = [c \in Conns |-> 0]
  /\ closes = 0
  /\ conn = [s \in Sessions |-> None]
  /\ accepting = [s \in Sessions |-> TRUE]
  /\ leaving = [s \in Sessions |-> FALSE]
  /\ recvs = [s \in Sessions |-> <<>>]
  /\ closed = {}
  /\ entered = [s \in Sessions |-> None]
  /\ consumed = [c \in Conns |-> <<>>]
  /\ mixed = {} /\ lost = {} /\ declined = {}
  /\ wcrash = FALSE
-----------------------------------------------------------------------------
(***************************************************************************)
(* The system and the clients (external).  Every request completes with a  *)
(* packet; those of a socket that is closed or disconnected fail.          *)
(***************************************************************************)

Gone(s) == s \in closed \/ leaving[s]
Connected(s) == conn[s] # None /\ ~Gone(s)

\* AcceptEx completes with a client, or fails with one that is gone already.
Connect(s, c) ==
  /\ accepting[s] /\ s \notin closed /\ c \in backlog
  /\ backlog' = backlog \ {c}
  /\ accepting' = [accepting EXCEPT ![s] = FALSE]
  /\ \/ /\ conn' = [conn EXCEPT ![s] = c]
        /\ queue' = Append(queue, [Packet("listen", "accept", s, TRUE, 0) EXCEPT !.conn = c])
        /\ UNCHANGED lost
     \/ /\ queue' = Append(queue, Packet("listen", "accept", s, FALSE, 0))
        /\ lost' = lost \cup {s}
        /\ UNCHANGED conn
  /\ UNCHANGED <<ended, sentbytes, closes, leaving, recvs, closed, stopVars, workVars,
                 sessVars, entered, consumed, mixed, declined, resetting, wcrash>>

\* A WSARecv completes with bytes, put where it was told to, or with the end.
Receive(s) ==
  LET c == conn[s]
      r == Head(recvs[s])
  IN  /\ recvs[s] # <<>> /\ Connected(s)
      /\ \E n \in 1 .. r.len :
           LET bytes == SubSeq(Stream[c], sentbytes[c] + 1, sentbytes[c] + n)
               into  == [recv_buffer[s] EXCEPT !.write_pos = r.at]
           IN  /\ sentbytes[c] + n <= Len(Stream[c])
               /\ sentbytes' = [sentbytes EXCEPT ![c] = @ + n]
               /\ recv_buffer' = [recv_buffer EXCEPT ![s].data = Fill(into, bytes).data]
               /\ queue' = Append(queue, Packet("session", "recv", s, TRUE, n))
      /\ recvs' = [recvs EXCEPT ![s] = Tail(@)]
      /\ UNCHANGED <<backlog, ended, closes, conn, accepting, leaving, closed, stopVars,
                     workVars, active, offset, histVars, resetting, wcrash>>

ReceiveEnd(s) ==
  /\ recvs[s] # <<>> /\ Connected(s) /\ ended[conn[s]]
  /\ queue' = Append(queue, Packet("session", "recv", s, TRUE, 0))
  /\ recvs' = [recvs EXCEPT ![s] = Tail(@)]
  /\ UNCHANGED <<netVars, conn, accepting, leaving, closed, stopVars, workVars,
                 sessVars, histVars, resetting, wcrash>>

End(c) ==
  /\ c \notin backlog /\ ~ended[c]
  /\ ended' = [ended EXCEPT ![c] = TRUE]
  /\ UNCHANGED <<backlog, sentbytes, closes, sockVars, stopVars, workVars, sessVars,
                 histVars, queue, resetting, wcrash>>

AbortRecv(s) ==
  /\ Gone(s) /\ recvs[s] # <<>>
  /\ recvs' = [recvs EXCEPT ![s] = Tail(@)]
  /\ queue' = Append(queue, Packet("session", "recv", s, FALSE, 0))
  /\ UNCHANGED <<netVars, conn, accepting, leaving, closed, stopVars, workVars,
                 sessVars, histVars, resetting, wcrash>>

AbortAccept(s) ==
  /\ s \in closed /\ accepting[s]
  /\ accepting' = [accepting EXCEPT ![s] = FALSE]
  /\ queue' = Append(queue, Packet("listen", "accept", s, FALSE, 0))
  /\ UNCHANGED <<netVars, conn, leaving, recvs, closed, stopVars, workVars,
                 sessVars, histVars, resetting, wcrash>>

\* TransmitFile completes after the receives it cut off.
Disconnected(s) ==
  /\ leaving[s] /\ recvs[s] = <<>>
  /\ leaving' = [leaving EXCEPT ![s] = FALSE]
  /\ conn' = [conn EXCEPT ![s] = None]
  /\ \E ok \in IF s \in closed THEN {FALSE} ELSE BOOLEAN :
       /\ queue' = Append(queue, Packet("session", "disconnect", s, ok, 0))
       /\ lost' = IF ok THEN lost ELSE lost \cup {s}
  /\ UNCHANGED <<netVars, accepting, recvs, closed, stopVars, workVars, sessVars,
                 entered, consumed, mixed, declined, resetting, wcrash>>
-----------------------------------------------------------------------------
(***************************************************************************)
(* iocp_session_reset, by any thread: the test of active, and the rest.    *)
(***************************************************************************)
TestActive(t, s) ==
  resetting' = [resetting EXCEPT ![t] = IF active[s] THEN s ELSE None]

ResetOffset_Forgotten(s) == offset
ResetOffset(s) == [offset EXCEPT ![s] = "reset"]

Deactivated_Not(s) == active
Deactivated(s) == [active EXCEPT ![s] = FALSE]

\* TransmitFile on a socket that is not connected fails at once, unnoticed.  It
\* may come late and cut off a connection that no worker knows of yet.
Reset(t) ==
  LET s == resetting[t] IN
  /\ s # None
  /\ offset' = ResetOffset(s)
  /\ active' = Deactivated(s)
  /\ leaving' = IF Connected(s) THEN [leaving EXCEPT ![s] = TRUE] ELSE leaving
  /\ mixed' = IF Connected(s) /\ ~active[s] THEN mixed \cup {s} ELSE mixed
  /\ resetting' = [resetting EXCEPT ![t] = None]
  /\ declined' = declined \ {s}
  /\ UNCHANGED <<netVars, conn, accepting, recvs, closed, stopVars, workVars,
                 recv_buffer, entered, consumed, lost, queue, wcrash>>

\* server_close from a thread of the program, which ends before the server stops,
\* and from on_recved.
BeginClose(s) ==
  /\ spc = "running" /\ resetting[Closer] = None /\ active[s] /\ closes < MaxCloses
  /\ closes' = closes + 1
  /\ TestActive(Closer, s)
  /\ UNCHANGED <<sockVars, backlog, ended, sentbytes, stopVars, workVars, sessVars, histVars, queue,
                 wcrash>>

CloseInCallback(w) ==
  /\ wpc[w] = "in_recved" /\ resetting[w] = None /\ active[hand[w].s]
  /\ closes < MaxCloses
  /\ closes' = closes + 1
  /\ TestActive(w, hand[w].s)
  /\ UNCHANGED <<sockVars, backlog, ended, sentbytes, stopVars, workVars, sessVars, histVars, queue,
                 wcrash>>
-----------------------------------------------------------------------------
(***************************************************************************)
(* iocp_work_thread.                                                       *)
(***************************************************************************)
At(w, pc) == wpc[w] = pc /\ resetting[w] = None
Goto(w, pc) ==
  /\ wpc' = [wpc EXCEPT ![w] = pc]
  /\ hand' = IF pc \in {"get", "exit"} THEN [hand EXCEPT ![w] = NoPacket] ELSE hand

\* A packet with no key, 0xDEADC0DE, is counted.
Dequeue(w) ==
  /\ At(w, "get") /\ queue # <<>>
  /\ queue' = Tail(queue)
  /\ IF Head(queue).key = "null"
     THEN close_num' = close_num + 1 /\ UNCHANGED <<wpc, hand>>
     ELSE /\ hand' = [hand EXCEPT ![w] = Head(queue)]
          /\ wpc' = [wpc EXCEPT ![w] = "select"]
          /\ UNCHANGED close_num
  /\ UNCHANGED <<sockVars, netVars, listen_key, spc, closing, valid, sessVars,
                 histVars, resetting, wcrash>>

\* The session is taken from the overlapped structure for the listen key, else
\* from the key, which holds one for a session's key.  In the listen key it is NULL
\* or, at last, 0xFF, which only ends the worker when the packet is a success.
FromKey(w) == hand[w].key = "listen" /\ listen_key # "listen"
Exits(w) == listen_key = "exit" /\ hand[w].ok
Select(w) ==
  /\ At(w, "select")
  /\ \/ FromKey(w) /\ Exits(w) /\ Goto(w, "exit") /\ UNCHANGED wcrash
     \/ FromKey(w) /\ ~Exits(w) /\ wcrash' = TRUE /\ UNCHANGED <<wpc, hand>>
     \/ ~FromKey(w) /\ Goto(w, "dispatch") /\ UNCHANGED wcrash
  /\ UNCHANGED <<sockVars, netVars, stopVars, valid, sessVars, histVars, queue,
                 resetting>>

\* fromlisten and Offset are read now.
Branch(p) ==
  CASE ~p.ok -> "onclose"
    [] p.ok /\ p.key = "listen" /\ listen_key = "listen" -> "accepted"
    [] p.ok /\ p.key = "session" /\ p.n > 0 -> "recv"
    [] p.ok /\ p.n = 0 /\ (p.key = "session" \/ listen_key # "listen") ->
         IF p.op # "recv" /\ offset[p.s] = "reset" THEN "wait_accept" ELSE "onclose"

Dispatched(w, branch) == At(w, "dispatch") /\ Branch(hand[w]) = branch

\* iocp_accept_complete up to on_enter.  Packets and threads that still have to do
\* with the session are left from an earlier life.
Remnants(w, s) ==
  \/ \E i \in 1 .. Len(queue) : queue[i].s = s
  \/ \E v \in Workers \ {w} : hand[v].s = s
  \/ \E t \in Threads : resetting[t] = s

FreshBuffer_Kept(s) == recv_buffer[s]
FreshBuffer(s) == EmptyBuffer

AcceptComplete(w) ==
  LET s == hand[w].s IN
  /\ Dispatched(w, "accepted")
  /\ recv_buffer' = [recv_buffer EXCEPT ![s] = FreshBuffer(s)]
  /\ active' = [active EXCEPT ![s] = TRUE]
  /\ entered' = [entered EXCEPT ![s] = hand[w].conn]
  /\ mixed' = IF Remnants(w, s) THEN mixed \cup {s} ELSE mixed
  /\ Goto(w, "wait_recv")
  /\ UNCHANGED <<sockVars, netVars, stopVars, valid, offset, consumed, lost, declined,
                 queue, resetting, wcrash>>

\* iocp_recv_complete up to on_recved ...
RecvComplete(w) ==
  LET s == hand[w].s
      b == AddWritePos(recv_buffer[s], hand[w].n)
  IN  /\ Dispatched(w, "recv")
      /\ recv_buffer' = [recv_buffer EXCEPT ![s] = b]
      /\ valid' = [valid EXCEPT ![w] = ReadValid(b)]
      /\ Goto(w, "in_recved")
      /\ UNCHANGED <<sockVars, netVars, stopVars, active, offset, histVars, queue,
                     resetting, wcrash>>

\* ... and when the logic has used process_len bytes.
Compacted_Not(b) == b
Compacted(b) == IF b.write_pos = data_len THEN AdjustToHead(b) ELSE b

\* The bytes that buffer_addreadpos passes over.
Used(b, n) ==
  [i \in 1 .. AddReadPos(b, n).read_pos - b.read_pos |-> b.data[b.read_pos + i - 1]]

Recved(w, process_len) ==
  LET s == hand[w].s
      b == recv_buffer[s]
  IN  /\ At(w, "in_recved") /\ (process_len > 0 => process_len <= valid[w])
      /\ consumed' = IF s \in mixed THEN consumed
                     ELSE [consumed EXCEPT ![entered[s]] = @ \o Used(b, process_len)]
      /\ recv_buffer' = [recv_buffer EXCEPT ![s] = Compacted(AddReadPos(b, process_len))]
      /\ valid' = [valid EXCEPT ![w] = 0]
      /\ Goto(w, "wait_recv")
      /\ UNCHANGED <<sockVars, netVars, stopVars, active, offset, entered, mixed,
                     lost, declined, queue, resetting, wcrash>>

\* iocp_wait_recv: no request on an inactive session or into a full buffer.  When
\* WSARecv fails, the session is reset after accept and closed after receive.
Room_Size(s) == data_len
Room(s) == WriteValid(recv_buffer[s])
WaitRecv(w) ==
  LET s == hand[w].s IN
  /\ At(w, "wait_recv")
  /\ \/ /\ ~active[s] \/ Room(s) = 0
        /\ Goto(w, "get")
        /\ UNCHANGED <<recvs, resetting>>
     \/ /\ active[s] /\ Room(s) > 0 /\ Connected(s)
        /\ recvs' = [recvs EXCEPT ![s] = Append(@, [at |-> recv_buffer[s].write_pos,
                                                    len |-> Room(s)])]
        /\ Goto(w, "get")
        /\ UNCHANGED resetting
     \/ /\ active[s] /\ Room(s) > 0 /\ (Connected(s) => ended[conn[s]])
        /\ IF hand[w].op = "accept"
           THEN TestActive(w, s) /\ Goto(w, "get")
           ELSE Goto(w, "onclose") /\ UNCHANGED resetting
        /\ UNCHANGED recvs
  /\ UNCHANGED <<netVars, conn, accepting, leaving, closed, stopVars, valid, sessVars,
                 histVars, queue, wcrash>>

\* iocp_session_onclose, and the logic that calls server_close in it, or does not.
OnClose(w) ==
  /\ (At(w, "onclose") \/ Dispatched(w, "onclose"))
  /\ IF active[hand[w].s] THEN Goto(w, "in_close") ELSE Goto(w, "get")
  /\ UNCHANGED <<sockVars, netVars, stopVars, valid, sessVars, histVars, queue,
                 resetting, wcrash>>

LogicCloses(w) ==
  /\ At(w, "in_close")
  /\ TestActive(w, hand[w].s)
  /\ Goto(w, "get")
  /\ UNCHANGED <<sockVars, netVars, stopVars, valid, sessVars, histVars, queue, wcrash>>

LogicLeavesOpen(w) ==
  /\ At(w, "in_close")
  /\ declined' = IF active[hand[w].s] THEN declined \cup {hand[w].s} ELSE declined
  /\ Goto(w, "get")
  /\ UNCHANGED <<sockVars, netVars, stopVars, valid, sessVars, entered, consumed, mixed,
                 lost, queue, resetting, wcrash>>

\* iocp_wait_accept: AcceptEx fails on a socket that is closed or in use.
WaitAccept(w) ==
  LET s == hand[w].s IN
  /\ Dispatched(w, "wait_accept")
  /\ offset' = [offset EXCEPT ![s] = "accept"]
  /\ accepting' = IF s \in closed \/ conn[s] # None THEN accepting
                  ELSE [accepting EXCEPT ![s] = TRUE]
  /\ Goto(w, "get")
  /\ UNCHANGED <<conn, leaving, recvs, closed, netVars, stopVars, valid, active,
                 recv_buffer, histVars, queue, resetting, wcrash>>

Work(w) ==
  \/ Dequeue(w) \/ Select(w) \/ AcceptComplete(w) \/ RecvComplete(w)
  \/ (\E n \in 0 .. data_len : Recved(w, n)) \/ WaitRecv(w) \/ OnClose(w)
  \/ LogicCloses(w) \/ LogicLeavesOpen(w) \/ WaitAccept(w)
-----------------------------------------------------------------------------
(***************************************************************************)
(* iocp_stop_callback.                                                     *)
(***************************************************************************)
Stop ==
  /\ spc = "running" /\ resetting[Closer] = None
  /\ spc' = "closing"
  /\ UNCHANGED <<sockVars, netVars, listen_key, close_num, closing, workVars, sessVars,
                 histVars, queue, resetting, wcrash>>

CloseSocket ==
  /\ spc = "closing"
  /\ closed' = closed \cup {closing}
  /\ queue' = Append(queue, NoPacket)
  /\ closing' = closing + 1
  /\ spc' = IF closing' = max_num THEN "waiting" ELSE spc
  /\ UNCHANGED <<netVars, conn, accepting, leaving, recvs, listen_key, close_num,
                 workVars, sessVars, histVars, resetting, wcrash>>

\* fromlisten = false, and after it ptr = 0xFF and the exit packets.
ClearKey ==
  /\ spc = "waiting" /\ close_num = max_num
  /\ listen_key' = "cleared"
  /\ spc' = "clearing"
  /\ UNCHANGED <<sockVars, netVars, close_num, closing, workVars, sessVars, histVars,
                 queue, resetting, wcrash>>

ExitPackets_OneLess == Cardinality(Workers) - 1
ExitPackets == Cardinality(Workers)
PostExit ==
  /\ spc = "clearing"
  /\ listen_key' = "exit"
  /\ queue' = queue \o [i \in 1 .. ExitPackets |-> Packet("listen", "none", None, TRUE, 0)]
  /\ spc' = "joining"
  /\ UNCHANGED <<sockVars, netVars, close_num, closing, workVars, sessVars, histVars,
                 resetting, wcrash>>

Join ==
  /\ spc = "joining" /\ \A w \in Workers : wpc[w] = "exit"
  /\ spc' = "stopped"
  /\ UNCHANGED <<sockVars, netVars, listen_key, close_num, closing, workVars, sessVars,
                 histVars, queue, resetting, wcrash>>
-----------------------------------------------------------------------------
System(s) == ReceiveEnd(s) \/ AbortRecv(s) \/ AbortAccept(s) \/ Disconnected(s)

Next ==
  /\ ~wcrash
  /\ \/ \E s \in Sessions : System(s) \/ Receive(s) \/ BeginClose(s) \/ \E c \in Conns : Connect(s, c)
     \/ \E c \in Conns : End(c)
     \/ \E t \in Threads : Reset(t)
     \/ \E w \in Workers : CloseInCallback(w) \/ Work(w)
     \/ Stop \/ CloseSocket \/ ClearKey \/ PostExit \/ Join

\* As long as a thread can go on, or the system can complete what it need not wait
\* for a client to, one of them does: less than a turn for each.
Fairness ==
  WF_vars(/\ ~wcrash
          /\ \/ \E s \in Sessions : System(s)
             \/ \E t \in Threads : Reset(t)
             \/ \E w \in Workers : Work(w)
             \/ CloseSocket \/ ClearKey \/ PostExit \/ Join)

Spec == Init /\ [][Next]_vars /\ Fairness
-----------------------------------------------------------------------------
TypeOK ==
  /\ active \in [Sessions -> BOOLEAN]
  /\ offset \in [Sessions -> {"accept", "reset"}]
  /\ recv_buffer \in [Sessions -> BufferType]
  /\ listen_key \in {"listen", "cleared", "exit"}
  /\ close_num \in 0 .. max_num /\ closing \in 0 .. max_num
  /\ spc \in {"running", "closing", "waiting", "clearing", "joining", "stopped"}
  /\ wpc \in [Workers -> {"get", "select", "dispatch", "in_recved", "wait_recv",
                          "onclose", "in_close", "exit"}]
  /\ \A w \in Workers : hand[w].s \in Sessions \cup {None} /\ valid[w] \in -data_len .. data_len
  /\ resetting \in [Threads -> Sessions \cup {None}]
  /\ conn \in [Sessions -> Conns \cup {None}]
  /\ \A s \in Sessions : \A i \in 1 .. Len(recvs[s]) :
       recvs[s][i].at + recvs[s][i].len = data_len
  /\ consumed \in [Conns -> Seq(Bytes)]
  /\ mixed \subseteq Sessions /\ lost \subseteq Sessions /\ declined \subseteq Sessions

\* The packets of s, queued or in the hands of a worker.
Packets(s) ==
  {queue[i] : i \in {i \in 1 .. Len(queue) : queue[i].s = s}}
    \cup {hand[w] : w \in {w \in Workers : hand[w].s = s}}

\* What the logic used of the current connection, what is unread in the buffer and
\* what the packet under way adds are the bytes the system delivered, in order,
\* and never more than one receive is outstanding, unless something of an earlier
\* connection of the session was still under way when it was accepted again.
Adding(s) ==
  {hand[w].n : w \in {w \in Workers : hand[w].s = s /\ hand[w].op = "recv"
                                      /\ wpc[w] \in {"select", "dispatch"}}}
    \cup {queue[i].n : i \in {i \in 1 .. Len(queue) : queue[i].s = s
                                                      /\ queue[i].op = "recv"}}
WithPacket(s) ==
  LET b == recv_buffer[s]
      n == CHOOSE n \in Adding(s) \cup {0} : \A m \in Adding(s) : m <= n
  IN  Content(AddWritePos(b, n))
StreamIntactUnlessMixed ==
  \A s \in Sessions : active[s] /\ s \notin mixed =>
    /\ consumed[entered[s]] \o WithPacket(s)
         = SubSeq(Stream[entered[s]], 1, sentbytes[entered[s]])
    /\ Len(recvs[s]) <= 1
    /\ recvs[s] # <<>> => Adding(s) \subseteq {0}

\* An active session that nobody is at work on and that no packet will come for is
\* one whose receive buffer is full of bytes the logic left there, or which the
\* logic was told the end of and did not close: nothing else makes the server
\* deaf to a connection.
DeafOnlyWhenFull ==
  \A s \in Sessions :
    active[s] /\ s \notin mixed /\ Packets(s) = {} /\ recvs[s] = <<>> =>
      \/ ReadValid(recv_buffer[s]) = data_len
      \/ s \in declined
      \/ \E t \in Threads : resetting[t] = s

\* The inductive invariant that the properties above rest on.
PacketType ==
  [key : {"listen", "session", "null"}, op : {"none", "accept", "recv", "disconnect"},
   s : Sessions \cup {None}, ok : BOOLEAN, n : 0 .. data_len, conn : Conns \cup {None}]
PacketOK(p) ==
  \/ /\ p.op = "none" /\ p.s = None /\ p.ok /\ p.n = 0
     /\ p.key = "null" \/ (p.key = "listen" /\ listen_key = "exit")
  \/ /\ p.op = "accept" /\ p.key = "listen" /\ p.s \in Sessions /\ p.n = 0
     /\ p.ok => p.conn # None
  \/ p.op = "recv" /\ p.key = "session" /\ p.s \in Sessions /\ (p.ok \/ p.n = 0)
  \/ p.op = "disconnect" /\ p.key = "session" /\ p.s \in Sessions /\ p.n = 0

\* stop has closed the first sessions, and every one of its packets is in the
\* queue or counted.
Uncounted == {i \in 1 .. Len(queue) : queue[i].key = "null"}
QueueInv ==
  /\ queue \in Seq(PacketType) /\ \A i \in 1 .. Len(queue) : PacketOK(queue[i])
  /\ close_num + Cardinality(Uncounted) = closing
  /\ spc = "running" => closing = 0
  /\ spc = "closing" => closing < max_num
  /\ listen_key = "exit" => spc \in {"joining", "stopped"}

HandInv ==
  /\ hand \in [Workers -> PacketType] /\ valid \in [Workers -> Int]
  /\ \A w \in Workers :
       /\ PacketOK(hand[w])
       /\ IF wpc[w] \in {"get", "exit"} THEN hand[w] = NoPacket ELSE hand[w].key # "null"
       /\ wpc[w] \notin {"get", "exit", "select"} => hand[w].s \in Sessions
       /\ wpc[w] = "in_recved" => hand[w].op = "recv"
       /\ wpc[w] = "wait_recv" => hand[w].op \in {"accept", "recv"}

SocketInv ==
  /\ accepting \in [Sessions -> BOOLEAN] /\ leaving \in [Sessions -> BOOLEAN]
  /\ recvs \in [Sessions -> Seq([at : 0 .. data_len, len : 0 .. data_len])]
  /\ entered \in [Sessions -> Conns \cup {None}]
  /\ \A s \in Sessions :
       /\ accepting[s] => conn[s] = None
       /\ conn[s] = None => recvs[s] = <<>> /\ ~leaving[s]

\* What is under way for a session: packets queued and in the hands of workers.
Queued(s) == {i \in 1 .. Len(queue) : queue[i].s = s}
Holders(s) == {w \in Workers : hand[w].s = s}

\* A connection belongs to the one session that was given it, for ever; until the
\* packet of its AcceptEx is handled it has sent nothing to anybody.
Waiting(p) == p.op = "accept" /\ p.ok
Untaken(w) == wpc[w] \in {"select", "dispatch"}
Accepts(s) ==
  {queue[i].conn : i \in {i \in Queued(s) : Waiting(queue[i])}}
    \cup {hand[w].conn : w \in {w \in Holders(s) : Waiting(hand[w]) /\ Untaken(w)}}
ConnsOf(s) == ({conn[s], entered[s]} \cup Accepts(s)) \ {None}
Untouched(c) == sentbytes[c] = 0 /\ consumed[c] = <<>>
OwnerInv ==
  /\ \A s \in Sessions : ConnsOf(s) \subseteq Conns \ backlog
  /\ \A s, other \in Sessions : s # other => ConnsOf(s) \cap ConnsOf(other) = {}
  /\ backlog \subseteq Conns /\ \A c \in backlog : Untouched(c)
  /\ sentbytes \in [Conns -> Nat] /\ \A c \in Conns : sentbytes[c] <= Len(Stream[c])

\* A session between two connections is not active, and no request is posted.
Between(s) ==
  /\ accepting[s] => ~active[s]
  /\ \A c \in Accepts(s) :
       /\ c = conn[s] /\ c # entered[s] /\ Untouched(c)
       /\ ~active[s] /\ ~leaving[s] /\ recvs[s] = <<>>

\* One packet, worker or receive at most is at work for an active session ...
OneAtWork(s) ==
  /\ \A i, j \in Queued(s) : i = j
  /\ \A v, w \in Holders(s) : v = w
  /\ Len(recvs[s]) <= 1
  /\ Queued(s) # {} => Holders(s) = {} /\ recvs[s] = <<>>
  /\ Holders(s) # {} => recvs[s] = <<>>
  /\ \A i \in Queued(s) : queue[i].op = "recv"
  /\ \A w \in Holders(s) : hand[w].op = "recv" \/ wpc[w] = "wait_recv"

\* ... and the bytes of the connection are those used and those in the buffer, were
\* the n of the packet under way in it.
Holds(s, n) ==
  consumed[entered[s]] \o Content(AddWritePos(recv_buffer[s], n))
    = SubSeq(Stream[entered[s]], 1, sentbytes[entered[s]])
BufferInv(s) ==
  LET b == recv_buffer[s] IN
  /\ b.read_pos <= b.write_pos
  /\ Adding(s) = {} => Holds(s, 0)
  /\ \A n \in Adding(s) : n <= WriteValid(b) /\ Holds(s, n)
  /\ recvs[s] # <<>> => recvs[s] = <<[at |-> b.write_pos, len |-> WriteValid(b)]>>
  /\ \A w \in Holders(s) :
       /\ wpc[w] = "in_recved" => valid[w] = ReadValid(b)
       /\ wpc[w] = "wait_recv" /\ b.write_pos = data_len => b.read_pos = 0

Attended(s) ==
  \/ Queued(s) # {} \/ Holders(s) # {} \/ recvs[s] # <<>>
  \/ ReadValid(recv_buffer[s]) = data_len
  \/ s \in declined
  \/ \E t \in Threads : resetting[t] = s

LifeInv ==
  \A s \in Sessions \ mixed :
    /\ Between(s)
    /\ active[s] => /\ conn[s] = entered[s] /\ conn[s] # None /\ ~leaving[s]
                    /\ OneAtWork(s) /\ BufferInv(s) /\ Attended(s)

IocpInv == TypeOK /\ QueueInv /\ HandInv /\ SocketInv /\ OwnerInv /\ LifeInv

\* A session that a thread closes, whose client is gone, or that has none, comes to
\* wait for a new client, unless its AcceptEx or TransmitFile fails, its buffer is
\* full, the logic leaves it open in on_close or the server is stopped.
SlotComesBack ==
  \A s \in Sessions :
    (\/ conn[s] = None \/ ended[conn[s]] \/ leaving[s]
     \/ \E t \in Threads : resetting[t] = s)
    ~> (accepting[s] \/ s \in lost \/ Room(s) = 0 \/ s \in declined \/ spc # "running")

\* server_stop returns, unless a worker takes the AcceptEx of a session for an exit
\* packet, whose key is the listening socket's, and crashes: a failed one, or any
\* while the key is half changed.
StopReturns == spc # "running" ~> (spc = "stopped" \/ wcrash)

-----------------------------------------------------------------------------
\* What the interface promises of a session does not outlive a meeting of two lives.
Promised == {s \in Sessions \ mixed : active[s]}

Interface == INSTANCE ServerInterface
  WITH Clients <- Conns, waiting <- backlog, serving <- conn, told <- entered,
       used <- consumed, open <- Promised, late <- mixed

\* Every behaviour of the completion-port server is one that ServerInterface allows,
\* as every one of the epoll server is: a client is one session's, is announced there
\* first, its bytes are used in order, and it is cut off only after a close.
ImplementsInterface == Interface!Spec
=============================================================================
