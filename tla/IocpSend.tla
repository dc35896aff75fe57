------------------------------ MODULE IocpSend ------------------------------
(***************************************************************************)
(* Sending on one session of server-model01/iocp.c while it is closed and  *)
(* accepted again.  server_send, once it has found the session active, and *)
(* the completion of an earlier send run under send_mutex, which a thread  *)
(* may take twice; the system takes the bytes of a posted WSASend from the *)
(* caller's memory or the session's buffer some time later.  The caller is *)
(* taken to leave its memory alone until then.                             *)
(***************************************************************************)
EXTENDS Buffer

CONSTANTS Todo,      \* what the program sends, in order, in pieces
          MaxLives   \* bound: connections of the session

ASSUME IocpSendAssumption == Todo \in Seq(Bytes) /\ MaxLives \in Nat \ {0}

VARIABLES
  link,       \* send_buffer and send_ispending; posted: the WSASends in the
              \* system, oldest first; completions: not handled yet; wire: what
              \* went out; failed: a WSASend failed; moved: buffer_write began
              \* at the front again while posted bytes were in the buffer
  life,       \* of the session: "open" (active), "leaving" (TransmitFile posted),
              \* "free", "waiting" (AcceptEx posted), "connected" (not active yet)
  lives,      \* connections so far
  calling,    \* data of a server_send that has found the session active
  sent,       \* how much of Todo the program has passed to server_send
  accepted,   \* history: what server_send returned len for on this connection
  carried     \* history: a call or completion of an earlier connection was not
              \* finished when the session got this one

lifevars == <<life, lives, calling, sent, carried>>
iosvars == <<link, accepted, lifevars>>

IocpSendInit ==
  /\ link = [send_buffer |-> EmptyBuffer, send_ispending |-> FALSE, posted |-> <<>>,
             completions |-> 0, wire |-> <<>>, failed |-> FALSE, moved |-> FALSE]
  /\ life = "open" /\ lives = 1
  /\ calling = <<>> /\ sent = 0
  /\ accepted = <<>>
  /\ carried = FALSE
-----------------------------------------------------------------------------
\* A posted send: bytes in the caller's memory, or a region of the buffer.
Data(bytes) == [from |-> "caller", at |-> 0, len |-> Len(bytes), bytes |-> bytes]
Region(b) == [from |-> "buffer", at |-> b.read_pos, len |-> ReadValid(b), bytes |-> <<>>]

\* What the system reads when it gets to it.
Outgoing(l, p) ==
  IF p.from = "caller" THEN p.bytes
  ELSE [i \in 1 .. p.len |-> l.send_buffer.data[p.at + i - 1]]

\* iocp_session_senddata: its result and the new link.  WSASend fails on a socket
\* that is not connected, and else may fail, be pending, or be done at once, which
\* sets no flag but completes all the same.
Connected == life \in {"open", "connected"}
Senddata(l, p) ==
  CASE p.len = 0 -> {<<TRUE, l>>}
    [] p.len > 0 /\ l.send_ispending -> {<<FALSE, l>>}
    [] p.len > 0 /\ ~l.send_ispending ->
         {<<FALSE, [l EXCEPT !.failed = TRUE]>>}
         \cup (IF ~Connected THEN {}
               ELSE {<<TRUE, [l EXCEPT !.send_ispending = TRUE, !.posted = Append(@, p)]>>})
         \cup (IF ~Connected \/ l.posted # <<>> THEN {}
               ELSE {<<TRUE, [l EXCEPT !.wire = @ \o Outgoing(l, p),
                                       !.completions = @ + 1]>>})

\* iocp_wrap_session_senddata: first what is in the buffer, then the new data,
\* kept in the buffer when its WSASend is refused.
AfterBuffer(l, n) == [l EXCEPT !.send_buffer = AddReadPos(@, n)]
WrapBuffer(l) ==
  {<<r[1], IF r[1] THEN AfterBuffer(r[2], ReadValid(l.send_buffer)) ELSE r[2]>> :
     r \in Senddata(l, Region(l.send_buffer))}
Moves(b, data) == WriteOk(b, data) /\ WriteValid(b) < Len(data)
InBuffer(ps) == {i \in 1 .. Len(ps) : ps[i].from = "buffer"}
Kept(l, data) ==
  <<WriteOk(l.send_buffer, data),
    [l EXCEPT !.send_buffer = Write(@, data),
              !.moved = @ \/ (Moves(l.send_buffer, data) /\ InBuffer(l.posted) # {})]>>
Wrap(l, data) ==
  UNION {IF ~r[1] THEN {r}
         ELSE {IF q[1] THEN q ELSE Kept(q[2], data) : q \in Senddata(r[2], Data(data))} :
         r \in WrapBuffer(l)}

\* server_send reads active before it takes the mutex, and refuses the data of an
\* inactive session.
BeginSend(n) ==
  /\ calling = <<>> /\ sent + n <= Len(Todo)
  /\ sent' = sent + n
  /\ calling' = IF life = "open" THEN SubSeq(Todo, sent + 1, sent + n) ELSE <<>>
  /\ UNCHANGED <<link, accepted, life, lives, carried>>

ServerSend ==
  /\ calling # <<>>
  /\ calling' = <<>>
  /\ \E r \in Wrap(link, calling) :
       /\ link' = r[2]
       /\ accepted' = IF r[1] THEN accepted \o calling ELSE accepted
  /\ UNCHANGED <<life, lives, sent, carried>>

\* The system (external) sends the oldest posted one and queues its completion, or
\* finds the connection broken; the packet of a failed send changes nothing here.
Transmit ==
  /\ link.posted # <<>>
  /\ link' = [link EXCEPT !.wire = @ \o Outgoing(link, Head(link.posted)),
                          !.posted = Tail(@),
                          !.completions = @ + 1]
  /\ UNCHANGED <<accepted, lifevars>>

AbortSend ==
  /\ link.posted # <<>>
  /\ link' = [link EXCEPT !.posted = Tail(@), !.failed = TRUE]
  /\ UNCHANGED <<accepted, lifevars>>

\* iocp_send_complete
SendComplete ==
  /\ link.completions > 0
  /\ \E r \in WrapBuffer([link EXCEPT !.send_ispending = FALSE, !.completions = @ - 1]) :
       link' = r[2]
  /\ UNCHANGED <<accepted, lifevars>>
-----------------------------------------------------------------------------
\* iocp_session_reset.  TransmitFile completes after the sends posted before it.
ResetSession ==
  /\ life = "open"
  /\ life' = "leaving"
  /\ UNCHANGED <<link, accepted, lives, calling, sent, carried>>

Disconnected ==
  /\ life = "leaving" /\ link.posted = <<>>
  /\ life' = "free"
  /\ UNCHANGED <<link, accepted, lives, calling, sent, carried>>

\* iocp_wait_accept clears the flag, which a failed send has left set.
Unpended_Forgotten == link.send_ispending
Unpended == FALSE
WaitAccept ==
  /\ life = "free"
  /\ life' = "waiting"
  /\ link' = [link EXCEPT !.send_ispending = Unpended]
  /\ UNCHANGED <<accepted, lives, calling, sent, carried>>

\* The next client (external).
Connect ==
  /\ life = "waiting" /\ lives < MaxLives
  /\ life' = "connected"
  /\ lives' = lives + 1
  /\ link' = [link EXCEPT !.wire = <<>>, !.failed = FALSE, !.moved = FALSE]
  /\ accepted' = <<>>
  /\ carried' = (carried \/ calling # <<>> \/ link.completions > 0)
  /\ UNCHANGED <<calling, sent>>

\* iocp_accept_complete
AcceptComplete ==
  /\ life = "connected"
  /\ life' = "open"
  /\ link' = [link EXCEPT !.send_buffer = EmptyBuffer]
  /\ UNCHANGED <<accepted, lives, calling, sent, carried>>

IocpSendNext ==
  \/ \E n \in 1 .. Len(Todo) : BeginSend(n)
  \/ ServerSend \/ Transmit \/ AbortSend \/ SendComplete
  \/ ResetSession \/ Disconnected \/ WaitAccept \/ Connect \/ AcceptComplete

IocpSendSpec == IocpSendInit /\ [][IocpSendNext]_iosvars
-----------------------------------------------------------------------------
IocpSendTypeOK ==
  /\ link.send_buffer \in BufferType
  /\ link.send_ispending \in BOOLEAN /\ link.failed \in BOOLEAN /\ link.moved \in BOOLEAN
  /\ link.completions \in Nat
  /\ \A i \in InBuffer(link.posted) : link.posted[i].at + link.posted[i].len <= data_len
  /\ link.wire \in Seq(Bytes) /\ accepted \in Seq(Bytes)
  /\ life \in {"open", "leaving", "free", "waiting", "connected"}
  /\ lives \in 1 .. MaxLives
  /\ calling \in Seq(Bytes) /\ sent \in 0 .. Len(Todo)
  /\ carried \in BOOLEAN

\* What went out on a connection, what the system holds and what waits in the
\* buffer are what server_send accepted for it, in order and once each, and what
\* waits has a completion coming that will send it, although a WSASend done at once
\* leaves send_ispending off and its completion clears the flag of a later one, and
\* although sends of the connection before may have failed; unless a WSASend of
\* this connection failed, the buffer was written from its front under a posted
\* send, or something of an earlier connection was carried over to this one.
Joined(parts) ==
  LET first[n \in 0 .. Len(parts)] == IF n = 0 THEN <<>> ELSE first[n - 1] \o parts[n]
  IN  first[Len(parts)]
InSystem(l) == Joined([i \in 1 .. Len(l.posted) |-> Outgoing(l, l.posted[i])])
SendExact ==
  life = "open" /\ ~carried /\ ~link.failed /\ ~link.moved =>
    /\ link.wire \o InSystem(link) \o Content(link.send_buffer) = accepted
    /\ Content(link.send_buffer) # <<>> => link.posted # <<>> \/ link.completions > 0

\* The inductive invariant that SendExact rests on.  A posted region lies before the
\* read position, where no write comes unless it starts from the front; the flag is
\* set only while a posted send or a completion is there to clear it.
Post == [from : {"caller", "buffer"}, at : Nat, len : Nat, bytes : Seq(Bytes)]
Link == [send_buffer : BufferType, send_ispending : BOOLEAN, posted : Seq(Post),
         completions : Nat, wire : Seq(Bytes), failed : BOOLEAN, moved : BOOLEAN]
LinkInv(l) ==
  /\ l \in Link
  /\ l.send_buffer.read_pos <= l.send_buffer.write_pos
  /\ \A i \in InBuffer(l.posted) : l.posted[i].at + l.posted[i].len <= data_len

Ordered(l, taken) ==
  /\ l.wire \o InSystem(l) \o Content(l.send_buffer) = taken
  /\ \A i \in InBuffer(l.posted) :
       l.posted[i].at + l.posted[i].len <= l.send_buffer.read_pos
Coming(l) == l.posted # <<>> \/ l.completions > 0
WillBeSent(l) == Content(l.send_buffer) # <<>> \/ l.send_ispending => Coming(l)

\* Nothing is posted on a session that is not connected, so one that nothing was
\* carried over to meets its client untouched but for the old buffer.
LifeInv ==
  /\ life \in {"free", "waiting"} => link.posted = <<>>
  /\ life = "waiting" => ~link.send_ispending
  /\ life = "connected" /\ ~carried =>
       /\ link.posted = <<>> /\ link.completions = 0 /\ ~link.send_ispending
       /\ link.wire = <<>> /\ accepted = <<>> /\ calling = <<>>

IocpSendInv ==
  /\ IocpSendTypeOK /\ LinkInv(link) /\ LifeInv
  /\ life = "open" /\ ~carried /\ ~link.failed /\ ~link.moved =>
       Ordered(link, accepted) /\ WillBeSent(link)
=============================================================================
