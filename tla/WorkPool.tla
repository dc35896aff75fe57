------------------------------ MODULE WorkPool ------------------------------
(***************************************************************************)
(* What thread_pool_s promises, with the messages reduced to tokens: every *)
(* accepted message costs exactly one callback invocation while the pool   *)
(* is open, no worker runs two callbacks at once, and a closed pool starts *)
(* no further callback.  Which message a callback is handed is left open   *)
(* on purpose: the code does not promise it (see ThreadPool).              *)
(***************************************************************************)
EXTENDS Integers, FiniteSets

CONSTANTS Workers,    \* the worker threads
          Capacity    \* the number of messages the pool can hold

VARIABLES phase,      \* "new", "open" once a worker exists, "closed" after stop
          submitted,  \* messages accepted so far
          queued,     \* messages accepted and not yet taken
          running,    \* workers that have taken a message and not finished
          finished    \* callbacks completed so far

vars == <<phase, submitted, queued, running, finished>>

Init ==
  /\ phase = "new"
  /\ submitted = 0
  /\ queued = 0
  /\ running = {}
  /\ finished = 0

Open ==
  /\ phase = "new"
  /\ phase' = "open"
  /\ UNCHANGED <<submitted, queued, running, finished>>

Close ==
  /\ phase # "closed"
  /\ phase' = "closed"
  /\ UNCHANGED <<submitted, queued, running, finished>>

\* A submission that began before Close may still be accepted after it.
Submit ==
  /\ queued < Capacity
  /\ queued' = queued + 1
  /\ submitted' = submitted + 1
  /\ UNCHANGED <<phase, running, finished>>

Take(w) ==
  /\ phase = "open"
  /\ queued > 0
  /\ w \notin running
  /\ queued' = queued - 1
  /\ running' = running \cup {w}
  /\ UNCHANGED <<phase, submitted, finished>>

Finish(w) ==
  /\ w \in running
  /\ running' = running \ {w}
  /\ finished' = finished + 1
  /\ UNCHANGED <<phase, submitted, queued>>

Next == Open \/ Close \/ Submit \/ (\E w \in Workers : Take(w) \/ Finish(w))

SafeSpec == Init /\ [][Next]_vars

\* An open pool with work and a free worker does not sit idle, and callbacks
\* that have begun end.
Spec == /\ SafeSpec
        /\ WF_vars(\E w \in Workers : Take(w))
        /\ \A w \in Workers : WF_vars(Finish(w))
=============================================================================
