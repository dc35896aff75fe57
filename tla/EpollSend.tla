----------------------------- MODULE EpollSend ------------------------------
(***************************************************************************)
(* The sending half of one open session of server-model01/epollserver.c:   *)
(* threads that call server_send, the reactor thread that handles          *)
(* EPOLLOUT, and the kernel's socket buffer between them and the peer.     *)
(* session->writeable is read and written with and without the session's   *)
(* send lock, so each access is a step of its own.                         *)
(***************************************************************************)
EXTENDS Buffer, FiniteSets

CONSTANTS Senders,     \* threads that call server_send
          Data,        \* the data of the calls offered: sequences of bytes
          Junk,        \* the byte in front of the caller's data
          KernelSize,  \* room of the kernel's socket buffer
          MaxWire,     \* bound: bytes the kernel takes over all
          Nobody

ASSUME SendAssumption ==
  /\ Data \subseteq Seq(Bytes)
  /\ Junk \in Bytes
  /\ KernelSize \in Nat /\ MaxWire \in Nat
  /\ Nobody \notin Senders \cup {"reactor"}

VARIABLES
  writeable, send_buffer,   \* fields of session_s
  send_lock,                \* send_spinlock: its holder or Nobody
  pc, data, was_writeable, send_len,  \* per sender: position and locals
  rpc,                      \* the reactor's position
  kernel, nospace, edge, dead,  \* the socket: bytes in it, a send found it
                            \* full, an EPOLLOUT edge is pending, it failed
  offered,                  \* data not passed to server_send yet
  wire, accepted, refused   \* history: bytes taken by the kernel, bytes
                            \* server_send accepted, data it refused whole

sockVars   == <<kernel, nospace, edge, dead, wire>>
senderVars == <<pc, data, was_writeable, send_len>>
histVars   == <<offered, accepted, refused>>
vars == <<writeable, send_buffer, send_lock, senderVars, rpc, sockVars, histVars>>

Least(m, n) == IF m < n THEN m ELSE n

\* The session has just been entered and registered: epoll reports the first
\* EPOLLOUT at once.
Init ==
  /\ writeable = TRUE
  /\ send_buffer = EmptyBuffer
  /\ send_lock = Nobody
  /\ pc = [s \in Senders |-> "idle"]
  /\ data = [s \in Senders |-> <<>>]
  /\ was_writeable = [s \in Senders |-> FALSE]
  /\ send_len = [s \in Senders |-> 0]
  /\ rpc = "wait"
  /\ kernel = 0
  /\ nospace = FALSE
  /\ edge = TRUE
  /\ dead = FALSE
  /\ offered = Data
  /\ wire = <<>>
  /\ accepted = <<>>
  /\ refused = {}
-----------------------------------------------------------------------------
(***************************************************************************)
(* The socket (external).  socket_send takes what fits, 0 for EAGAIN; when *)
(* not all fits, the kernel owes an EPOLLOUT edge for the next free space. *)
(* On a failed connection it returns -1.                                   *)
(***************************************************************************)
Taken(s) == IF dead THEN -1
            ELSE Least(Len(s), Least(KernelSize - kernel, MaxWire - Len(wire)))

SocketSend(s) ==
  LET n == IF dead THEN 0 ELSE Taken(s) IN
  /\ wire' = wire \o SubSeq(s, 1, n)
  /\ kernel' = kernel + n
  /\ nospace' = (nospace \/ (~dead /\ n < Len(s)))
  /\ UNCHANGED <<edge, dead>>

\* The peer reads a byte; epoll knows of the socket if it is registered.
PeerReads(registered) ==
  /\ kernel > 0 /\ ~dead
  /\ kernel' = kernel - 1
  /\ edge' = (edge \/ (nospace /\ registered))
  /\ nospace' = FALSE
  /\ UNCHANGED <<writeable, send_buffer, send_lock, senderVars, rpc, dead, wire,
                 histVars>>

Drain == PeerReads(TRUE)

\* The peer resets the connection.
Reset ==
  /\ ~dead
  /\ dead' = TRUE
  /\ UNCHANGED <<writeable, send_buffer, send_lock, senderVars, rpc, kernel,
                 nospace, edge, wire, histVars>>
-----------------------------------------------------------------------------
(***************************************************************************)
(* epollserver_send_olddata, under the send lock: what was sent is counted *)
(* on the write position, and the session stays writeable however little   *)
(* was sent (the code compares oldlen with itself).                        *)
(***************************************************************************)
Sent_Forgotten(b, n) == EmptyBuffer
Sent(b, n) == IF n > 0 THEN AddWritePos(b, n) ELSE b

SendOldData ==
  IF ReadValid(send_buffer) > 0
  THEN /\ SocketSend(Content(send_buffer))
       /\ send_buffer' = Sent(send_buffer, Taken(Content(send_buffer)))
       /\ writeable' = TRUE
  ELSE UNCHANGED <<send_buffer, writeable, sockVars>>

(***************************************************************************)
(* epollserver_senddata.                                                   *)
(***************************************************************************)

\* writeable is read before the lock is taken.
BeginSend(s) ==
  /\ pc[s] = "idle"
  /\ \E d \in offered :
       /\ offered' = offered \ {d}
       /\ data' = [data EXCEPT ![s] = d]
  /\ was_writeable' = [was_writeable EXCEPT ![s] = writeable]
  /\ pc' = [pc EXCEPT ![s] = "lock"]
  /\ UNCHANGED <<writeable, send_buffer, send_lock, send_len, rpc, sockVars,
                 accepted, refused>>

Lock(s) ==
  /\ pc[s] = "lock" /\ send_lock = Nobody
  /\ send_lock' = s
  /\ send_len' = [send_len EXCEPT ![s] = 0]
  /\ pc' = [pc EXCEPT ![s] = IF was_writeable[s] THEN "old" ELSE "store"]
  /\ UNCHANGED <<writeable, send_buffer, data, was_writeable, rpc, sockVars,
                 histVars>>

SendOld(s) ==
  /\ pc[s] = "old"
  /\ SendOldData
  /\ pc' = [pc EXCEPT ![s] = "new"]
  /\ UNCHANGED <<send_lock, data, was_writeable, send_len, rpc, histVars>>

SendNew(s) ==
  /\ pc[s] = "new"
  /\ IF writeable
     THEN /\ SocketSend(data[s])
          /\ send_len' = [send_len EXCEPT ![s] = Taken(data[s])]
     ELSE UNCHANGED <<sockVars, send_len>>
  /\ pc' = [pc EXCEPT ![s] = "mark"]
  /\ UNCHANGED <<writeable, send_buffer, send_lock, data, was_writeable, rpc,
                 histVars>>

Mark(s) ==
  /\ pc[s] = "mark"
  /\ writeable' = (writeable /\ send_len[s] >= Len(data[s]))
  /\ pc' = [pc EXCEPT ![s] = "store"]
  /\ UNCHANGED <<send_buffer, send_lock, data, was_writeable, send_len, rpc,
                 sockVars, histVars>>

\* What the kernel did not take goes to the buffer, all of it or nothing; after
\* an error (send_len -1) it starts with the byte before the data.
Rest(d, n) == IF n < 0 THEN <<Junk>> \o d ELSE SubSeq(d, n + 1, Len(d))

Store(s) ==
  /\ pc[s] = "store"
  /\ LET d    == data[s]
         rest == Rest(d, send_len[s])
         kept == WriteOk(send_buffer, rest)
         n    == IF kept THEN Len(d) ELSE send_len[s]   \* the value returned
     IN /\ send_buffer' = Write(send_buffer, rest)
        /\ accepted' = IF n > 0 THEN accepted \o SubSeq(d, 1, n) ELSE accepted
        /\ refused' = IF n = 0 THEN refused \cup {d} ELSE refused
  /\ send_lock' = Nobody
  /\ data' = [data EXCEPT ![s] = <<>>]
  /\ was_writeable' = [was_writeable EXCEPT ![s] = FALSE]
  /\ send_len' = [send_len EXCEPT ![s] = 0]
  /\ pc' = [pc EXCEPT ![s] = "idle"]
  /\ UNCHANGED <<writeable, rpc, sockVars, offered>>

(***************************************************************************)
(* epoll_handle_onoutevent, in the reactor's thread, once epoll_wait has   *)
(* returned the event.                                                     *)
(***************************************************************************)
TakeEvent ==
  /\ rpc = "wait" /\ edge
  /\ edge' = FALSE
  /\ rpc' = "event"
  /\ UNCHANGED <<writeable, send_buffer, send_lock, senderVars, kernel, nospace, dead,
                 wire, histVars>>

OutEvent ==
  /\ rpc = "event"
  /\ writeable' = TRUE
  /\ rpc' = "check"
  /\ UNCHANGED <<send_buffer, send_lock, senderVars, sockVars, histVars>>

OutCheck ==
  /\ rpc = "check"
  /\ rpc' = IF ReadValid(send_buffer) > 0 THEN "lock" ELSE "wait"
  /\ UNCHANGED <<writeable, send_buffer, send_lock, senderVars, sockVars,
                 histVars>>

OutSend ==
  /\ rpc = "lock" /\ send_lock = Nobody
  /\ SendOldData
  /\ rpc' = "wait"
  /\ UNCHANGED <<send_lock, senderVars, histVars>>
-----------------------------------------------------------------------------
SenderStep(s) == Lock(s) \/ SendOld(s) \/ SendNew(s) \/ Mark(s) \/ Store(s)
ReactorStep == TakeEvent \/ OutEvent \/ OutCheck \/ OutSend

Next ==
  \/ \E s \in Senders : BeginSend(s) \/ SenderStep(s)
  \/ ReactorStep \/ Drain \/ Reset

Spec == Init /\ [][Next]_vars

\* Threads run, the spin lock is free again and again, the peer keeps reading.
FairSpec ==
  /\ Spec
  /\ \A s \in Senders : SF_vars(SenderStep(s))
  /\ SF_vars(ReactorStep)
  /\ WF_vars(Drain)
-----------------------------------------------------------------------------
\* Types of the state.  The positions of the send buffer stay inside it and in
\* order, although what was sent is counted on the write position.
TypeOK ==
  /\ writeable \in BOOLEAN
  /\ send_buffer \in BufferType
  /\ send_buffer.read_pos <= send_buffer.write_pos
  /\ send_lock \in Senders \cup {Nobody}
  /\ pc \in [Senders -> {"idle", "lock", "old", "new", "mark", "store"}]
  /\ data \in [Senders -> Seq(Bytes)]
  /\ was_writeable \in [Senders -> BOOLEAN]
  /\ send_len \in [Senders -> Int]
  /\ rpc \in {"wait", "event", "check", "lock"}
  /\ kernel \in 0 .. KernelSize
  /\ nospace \in BOOLEAN /\ edge \in BOOLEAN /\ dead \in BOOLEAN
  /\ offered \subseteq Data
  /\ wire \in Seq(Bytes) /\ accepted \in Seq(Bytes)
  /\ refused \subseteq Data

BytesOf(s) == {s[i] : i \in 1 .. Len(s)}

\* Every byte that server_send said it took is on the wire or waits in the
\* session's buffer, while the connection lives.
NothingAcceptedIsLost ==
  ~dead => BytesOf(accepted) \subseteq BytesOf(wire) \cup BytesOf(Content(send_buffer))

\* Only unsent data is sent: no byte reaches the wire twice.  (The bytes of Data
\* are distinct in the instances.)
NoByteSentTwice ==
  \A i, j \in 1 .. Len(wire) : wire[i] = wire[j] => i = j

\* writeable says whether the socket is writable: when it was cleared for want of
\* room and the peer reads on, it is set again.
WriteableComesBack == ~writeable ~> (writeable \/ dead \/ Len(wire) = MaxWire)
=============================================================================
