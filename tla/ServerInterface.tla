--------------------------- MODULE ServerInterface ---------------------------
(***************************************************************************)
(* What the logic may rely on, whichever implementation of server_s the    *)
(* function pointers of server_private.h stand for: a session serves one   *)
(* client at a time, a client comes to one session, is announced there by  *)
(* on_enter before any of its bytes, and until server_close is called for  *)
(* it the logic uses its bytes in order and nobody cuts it off - as long   *)
(* as no session is closed while the server is still at work on it, after  *)
(* which any session may lose what it was promised.                        *)
(***************************************************************************)
EXTENDS Integers, Sequences

CONSTANTS Clients,
          Stream,     \* the bytes each client sends
          Sessions,   \* the indexes the logic knows clients by
          Bytes,
          None        \* no client

VARIABLES waiting,    \* clients the server has not accepted yet
          serving,    \* per session, the client it has, announced or not
          told,       \* per session, the client on_enter was last called for
          used,       \* per client, the bytes the logic used
          open,       \* sessions announced and not closed since, whose client the
                      \* server has kept apart from the other clients
          late        \* sessions closed, or served again, while the server was at
                      \* work on them

vars == <<waiting, serving, told, used, open, late>>

Init ==
  /\ waiting = Clients
  /\ serving = [s \in Sessions |-> None]
  /\ told = [s \in Sessions |-> None]
  /\ used = [c \in Clients |-> <<>>]
  /\ open = {} /\ late = {}

Admit(s, c) ==
  /\ c \in waiting /\ serving[s] = None /\ s \notin open
  /\ waiting' = waiting \ {c}
  /\ serving' = [serving EXCEPT ![s] = c]
  /\ UNCHANGED <<told, used, open, late>>

\* No session is left for a client, or it is gone before it could be accepted.
Refuse(c) ==
  /\ c \in waiting
  /\ waiting' = waiting \ {c}
  /\ UNCHANGED <<serving, told, used, open, late>>

MayBeLate(s) == late' \in {late, late \cup {s}}

\* on_enter.  Nothing more is promised if the session was closed before the logic
\* heard of it, or some session was closed late.
Enter(s, c) ==
  /\ c \notin waiting /\ s \notin open
  /\ \A q \in Sessions \ {s} : serving[q] # c /\ told[q] # c
  /\ told' = [told EXCEPT ![s] = c]
  /\ \/ serving[s] = c /\ used[c] = <<>> /\ open' = open \cup {s}
     \/ (serving[s] # c \/ late' # {}) /\ UNCHANGED open
  /\ MayBeLate(s)
  /\ UNCHANGED <<waiting, serving, used>>

\* on_recved and the length it returns.
Use(s) ==
  LET c == told[s] IN
  /\ c # None
  /\ used' \in [Clients -> Seq(Bytes)]
  /\ \A d \in Clients \ {c} : used'[d] = used[d]
  /\ used[c] = SubSeq(used'[c], 1, Len(used[c]))
  /\ s \in open => \E n \in Len(used[c]) .. Len(Stream[c]) : used'[c] = SubSeq(Stream[c], 1, n)
  /\ UNCHANGED <<waiting, serving, told, open, late>>

\* server_close: the client is gone at once or later.
Gone(s) ==
  /\ serving' \in {serving, [serving EXCEPT ![s] = None]}
  /\ MayBeLate(s)
  /\ UNCHANGED <<waiting, told, used>>

Close(s) == s \in open /\ open' = open \ {s} /\ Gone(s)
Leave(s) == s \notin open /\ UNCHANGED open /\ Gone(s)

\* The handler of a session closed late takes something that was for s.
Rob(s) ==
  /\ late # {} /\ s \in open
  /\ open' = open \ {s}
  /\ UNCHANGED <<waiting, serving, told, used, late>>

Next ==
  \/ \E c \in Clients : Refuse(c) \/ \E s \in Sessions : Admit(s, c) \/ Enter(s, c)
  \/ \E s \in Sessions : Use(s) \/ Close(s) \/ Leave(s) \/ Rob(s)

Spec == Init /\ [][Next]_vars
=============================================================================
