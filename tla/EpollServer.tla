---------------------------- MODULE EpollServer -----------------------------
(***************************************************************************)
(* Sending across the reuse of a session of server-model01/epollserver.c:  *)
(* EpollSend on one session, which is closed and given to the next client  *)
(* by the listen thread.  Connections are numbered.  One reactor stands    *)
(* for all: only that of the open connection is at work on the session,    *)
(* unless one holds an event of an earlier connection, which crossed tells.*)
(***************************************************************************)
EXTENDS EpollSend

CONSTANT MaxClients   \* bound: connections accepted

ASSUME ServerAssumption == MaxClients \in Nat \ {0}

VARIABLES
  fd,         \* the session's: its connection, or SOCKET_ERROR
  clients,    \* connections accepted so far; the last one is client_fd
  lpc,        \* the listen thread's position in epoll_handle_newclient
  entered,    \* the connection on_enter was called for last
  crossed     \* history: a thread was in a send, or held an event, of an
              \* earlier connection when the session got the next one

serverVars == <<fd, clients, lpc, entered, crossed>>
sendVars   == vars

SOCKET_ERROR == -1

\* The first client has been accepted.
ServerInit ==
  /\ Init
  /\ fd = 1 /\ clients = 1 /\ entered = 1
  /\ lpc = "accept"
  /\ crossed = FALSE
-----------------------------------------------------------------------------
\* epollserver_handle_sessionclose, by any thread: nothing more is reported of the
\* socket, and sends on descriptor -1 fail like those on a broken connection.
CloseSession ==
  /\ fd # SOCKET_ERROR
  /\ fd' = SOCKET_ERROR
  /\ dead' = TRUE /\ edge' = FALSE /\ nospace' = FALSE
  /\ UNCHANGED <<writeable, send_buffer, send_lock, senderVars, rpc, kernel, wire,
                 histVars, clients, lpc, entered, crossed>>

\* epoll_handle_newclient takes the session from the free list and stores fd ...
Busy == rpc # "wait" \/ \E s \in Senders : pc[s] # "idle"

NewClient ==
  /\ lpc = "accept" /\ fd = SOCKET_ERROR /\ clients < MaxClients
  /\ clients' = clients + 1
  /\ fd' = clients'
  /\ kernel' = 0 /\ nospace' = FALSE /\ edge' = FALSE /\ dead' = FALSE
  /\ wire' = <<>> /\ accepted' = <<>>
  /\ crossed' = (crossed \/ Busy)
  /\ lpc' = "buffer"
  /\ UNCHANGED <<writeable, send_buffer, send_lock, senderVars, rpc, offered, refused,
                 entered>>

\* ... initializes the buffers without the send lock ...
FreshBuffer_Kept == send_buffer
FreshBuffer == EmptyBuffer
InitBuffer ==
  /\ lpc = "buffer"
  /\ send_buffer' = FreshBuffer
  /\ lpc' = "writeable"
  /\ UNCHANGED <<writeable, send_lock, senderVars, rpc, sockVars, histVars, fd, clients,
                 entered, crossed>>

SetWriteable ==
  /\ lpc = "writeable"
  /\ writeable' = TRUE
  /\ lpc' = "enter"
  /\ UNCHANGED <<send_buffer, send_lock, senderVars, rpc, sockVars, histVars, fd, clients,
                 entered, crossed>>

\* ... calls on_enter, and adds the descriptor, if it is open still, to epoll,
\* which reports an EPOLLOUT at once if the socket has room.
Enter ==
  /\ lpc = "enter"
  /\ entered' = clients
  /\ lpc' = "register"
  /\ UNCHANGED <<sendVars, fd, clients, crossed>>

Register ==
  /\ lpc = "register"
  /\ edge' = (fd = clients /\ kernel < KernelSize)
  /\ lpc' = "accept"
  /\ UNCHANGED <<writeable, send_buffer, send_lock, senderVars, rpc, kernel, nospace,
                 dead, wire, histVars, fd, clients, entered, crossed>>

\* server_send takes an index: it may be called, late, on a closed session.  When
\* the session has its next connection but on_enter did not say so yet, the call is
\* meant for the one before.
BeginCall(s) ==
  /\ BeginSend(s)
  /\ crossed' = (crossed \/ fd \notin {SOCKET_ERROR, entered})
  /\ UNCHANGED <<fd, clients, lpc, entered>>

Registered == lpc # "register" /\ fd = entered
ServerNext ==
  \/ \E s \in Senders : BeginCall(s)
  \/ /\ (\E s \in Senders : SenderStep(s)) \/ ReactorStep \/ PeerReads(Registered) \/ Reset
     /\ UNCHANGED serverVars
  \/ CloseSession \/ NewClient \/ InitBuffer \/ SetWriteable \/ Enter \/ Register

ServerSpec == ServerInit /\ [][ServerNext]_<<sendVars, serverVars>>
-----------------------------------------------------------------------------
\* Types of the state; the positions of the send buffer stay in order across reuse.
ServerTypeOK ==
  /\ TypeOK
  /\ fd \in 1 .. clients \cup {SOCKET_ERROR}
  /\ clients \in 1 .. MaxClients /\ entered \in 1 .. clients
  /\ lpc \in {"accept", "buffer", "writeable", "enter", "register"}
  /\ crossed \in BOOLEAN

\* Every byte that server_send said it took for the session's connection is on its
\* wire or waits in the send buffer while it lives, reuse of the session included,
\* unless a call or an event of an earlier connection was still being handled when
\* the session got this one: then the byte may have gone with the buffer.
KeptUnlessCrossed == ~crossed => NothingAcceptedIsLost

\* What goes out on a connection is what server_send accepted for it, or is being
\* given now: nothing that was refused, and nothing of an earlier connection of the
\* session, although bytes behind the unread ones are sent too (those are zero);
\* with the same exception.
InProgress == UNION {BytesOf(data[s]) : s \in Senders}
OwnBytesUnlessCrossed ==
  ~crossed /\ fd = entered =>
    /\ BytesOf(wire) \subseteq BytesOf(accepted) \cup InProgress \cup {Zero}
    /\ BytesOf(Content(send_buffer)) \subseteq
         BytesOf(accepted) \cup InProgress \cup {Zero, Junk}

(***************************************************************************)
(* Why they hold, for any number of senders, calls and connections.        *)
(***************************************************************************)

\* A closed session has no socket that lives, an open one that of the last client,
\* and on_enter is behind by that client exactly while the listen thread sets up.
SettingUp == lpc \in {"buffer", "writeable", "enter"}
LifeInv ==
  /\ fd \in {clients, SOCKET_ERROR}
  /\ fd = SOCKET_ERROR => dead
  /\ IF SettingUp THEN entered < clients ELSE entered = clients

\* A call has its data and counts what the kernel took of it, -1 after an error;
\* nothing moves the read position, and the kernel takes no more than the bound.
CallInv ==
  /\ \A s \in Senders :
       /\ pc[s] # "idle" => data[s] \in Data
       /\ send_len[s] \in -1 .. Len(data[s])
       /\ pc[s] \in {"idle", "lock", "old", "new"} => send_len[s] = 0
  /\ send_buffer.read_pos = 0
  /\ Len(wire) <= MaxWire

\* Until on_enter nobody touches a session that nobody was at work on when it got
\* its connection: no call, no event, and epoll knows nothing of the descriptor.
FreshInv ==
  ~crossed /\ fd # SOCKET_ERROR /\ SettingUp =>
    /\ ~Busy /\ ~edge
    /\ wire = <<>> /\ accepted = <<>>
    /\ lpc # "buffer" => send_buffer = EmptyBuffer

\* Afterwards the bytes accepted are on the wire or in the buffer, and what is there
\* was accepted, or is what the kernel took of a call under way, or a zero.  Behind
\* the write position there are zeros only; the byte before a caller's data gets into
\* the buffer only when the connection is broken.
Gone(s) == {data[s][i] : i \in 1 .. send_len[s]}
AllGone == UNION {Gone(s) : s \in Senders}
BytesInv ==
  ~crossed /\ fd = entered =>
    /\ NothingAcceptedIsLost
    /\ \A s \in Senders :
         Gone(s) \subseteq BytesOf(wire) /\ (send_len[s] = -1 => dead)
    /\ BytesOf(wire) \subseteq BytesOf(accepted) \cup AllGone \cup {Zero}
    /\ BytesOf(Content(send_buffer)) \subseteq
         BytesOf(accepted) \cup {Zero} \cup (IF dead THEN {Junk} ELSE {})
    /\ \A i \in Cells : i >= send_buffer.write_pos => send_buffer.data[i] = Zero

ServerInv == ServerTypeOK /\ LifeInv /\ CallInv /\ FreshInv /\ BytesInv
=============================================================================
