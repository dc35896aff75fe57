------------------------------ MODULE MCLibrary ------------------------------
(***************************************************************************)
(* The parts that share no state, each explored on its own in one run: the *)
(* select set, the type pool, the list, the swap list, the events, a       *)
(* collection of an entity, and sending through the completion port.       *)
(***************************************************************************)
EXTENDS FdSet, List, RwList, Event, Entity, IocpSend, TLC

VARIABLE part    \* the one that runs

MCTodo == <<1, 2, 3, 4, 5>>

libvars == <<fdvars, poolvars, listvars, rwvars, evvars, envars, iosvars, part>>

Init ==
  /\ part \in {"select set", "type pool", "list", "swap list", "event", "entity", "send"}
  /\ FdSetInit /\ PoolInit /\ ListInit /\ RwInit /\ EventInit /\ EntityInit
  /\ IocpSendInit

Next ==
  /\ UNCHANGED part
  /\ \/ /\ part = "select set" /\ FdSetNext
        /\ UNCHANGED <<poolvars, listvars, rwvars, evvars, envars, iosvars>>
     \/ /\ part = "type pool" /\ PoolNext
        /\ UNCHANGED <<fdvars, listvars, rwvars, evvars, envars, iosvars>>
     \/ /\ part = "list" /\ ListNext
        /\ UNCHANGED <<fdvars, poolvars, rwvars, evvars, envars, iosvars>>
     \/ /\ part = "swap list" /\ RwNext
        /\ UNCHANGED <<fdvars, poolvars, listvars, evvars, envars, iosvars>>
     \/ /\ part = "event" /\ EventNext
        /\ UNCHANGED <<fdvars, poolvars, listvars, rwvars, envars, iosvars>>
     \/ /\ part = "entity" /\ EntityNext
        /\ UNCHANGED <<fdvars, poolvars, listvars, rwvars, evvars, iosvars>>
     \/ /\ part = "send" /\ IocpSendNext
        /\ UNCHANGED <<fdvars, poolvars, listvars, rwvars, evvars, envars>>

LibrarySpec == Init /\ [][Next]_libvars

\* Every part keeps the type of its state and, where there is one, the inductive
\* invariant its proofs use: the flags and junk of the select set, the home of
\* every pool element, the list's links and owned data, the swap list's one
\* consumer per stack, the frames of the notifications and executions in progress,
\* the posted regions and what is owed of the completion port's sends.
LibraryInv ==
  /\ FdSetTypeOK /\ PoolType(pool) /\ ListTypeOK /\ RwTypeOK
  /\ EventTypeOK /\ EntityTypeOK /\ IocpSendTypeOK
  /\ FdSetInv /\ PoolInv(pool, claimed) /\ ListInv /\ RwInv /\ EventInv /\ EntityInv
  /\ IocpSendInv
=============================================================================
