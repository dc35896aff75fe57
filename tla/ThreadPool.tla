----------------------------- MODULE ThreadPool -----------------------------
(***************************************************************************)
(* common/threadpool.c with the stack (stack.c, array.c), the mutex and    *)
(* condition variable (mutex.c) and the threads (thread.c) it is built     *)
(* from.  One action is one stretch of code between two points at which    *)
(* another thread can be observed: a critical section under msg_lock is    *)
(* one action, except that the lock stays visibly held between the test of *)
(* the while loop and thread_cond_wait, because thread_pool_stop writes    *)
(* is_run without the lock.                                                *)
(***************************************************************************)
EXTENDS Integers, FiniteSets

CONSTANTS WorkerNum,    \* thread_num of thread_pool_new
          Callers,      \* the threads that call thread_pool_pushmsg
          Msgs,         \* the messages offered, each in one call
          MsgNum,       \* msg_num of thread_pool_new, the stack's capacity
          Platform,     \* "linux" or "windows": which half of mutex.c is built
          MaxStarts,    \* bound: calls of thread_pool_start
          MaxSpurious,  \* bound: spurious wake-ups of pthread_cond_wait
          NoMsg, Free   \* "no message" and "lock not held"

ASSUME PoolAssumption ==
  /\ WorkerNum \in Nat \ {0}
  /\ MsgNum \in Nat
  /\ Platform \in {"linux", "windows"}
  /\ MaxStarts \in Nat
  /\ MaxSpurious \in Nat
  /\ IsFiniteSet(Msgs)
  /\ NoMsg \notin Msgs

\* A worker is named by its place in work_threads.
Workers == 0 .. WorkerNum - 1
Slots   == 0 .. MsgNum - 1

ASSUME FreeAssumption == Free \notin Workers

VARIABLES
  is_run, thread_index, thread_state,  \* fields of thread_pool_s
  top, slots,          \* msg_list: the stack's top and its array
  msg_lock,            \* the worker holding msg_lock, or Free
  event,               \* Windows: the auto-reset event behind cv is signalled
  pc, index, slot, arg,\* per worker: position, thread_index, msg_ptr, *msg_ptr
  cpc, cmsg,           \* per caller: position in pushmsg, its argument
  opc, oi,             \* the owner: position in start/wait/stop, its loop index
  starts, spurious, fresh,    \* used-up bounds; messages not offered yet
  accepted, handled, calls,   \* history: pushed messages, messages some
                              \* callback was given, callbacks completed
  asked                \* history: accepted when the last isbusy began

poolVars   == <<is_run, thread_index, thread_state>>
listVars   == <<top, slots>>
workerVars == <<pc, index, slot, arg>>
callerVars == <<cpc, cmsg, fresh>>
ownerVars  == <<opc, oi, starts, asked>>
histVars   == <<accepted, handled, calls>>
vars == <<poolVars, listVars, msg_lock, event, workerVars, callerVars,
          ownerVars, spurious, histVars>>

Waiting  == {w \in Workers : pc[w] = "waiting"}
InFlight == {w \in Workers : pc[w] \in {"popped", "busy", "callback"}}
-----------------------------------------------------------------------------
(***************************************************************************)
(* stack.c on the message list.  stack_pop returns the address of the slot *)
(* it freed, so the popped message is named by its slot number.            *)
(***************************************************************************)
Room_Always  == TRUE
Room         == top < MsgNum
TopAfterPop_Stay == top
TopAfterPop  == top - 1

PopSlot_AboveTop == top
PopSlot == top - 1

PushMsg(m) ==
  IF Room THEN /\ slots' = [slots EXCEPT ![top] = m]
               /\ top' = top + 1
               /\ accepted' = accepted \cup {m}
          ELSE UNCHANGED <<top, slots, accepted>>

(***************************************************************************)
(* thread_cond_signal after the program counters have become p.  POSIX     *)
(* wakes one blocked thread, if there is one, and otherwise leaves no      *)
(* trace; SetEvent leaves the event signalled until a wait consumes it.    *)
(***************************************************************************)
Signal_Lost(p) == pc' = p /\ event' = event
Signal(p) ==
  \/ /\ Platform = "windows"
     /\ event' = TRUE
     /\ pc' = p
  \/ /\ Platform = "linux"
     /\ event' = event
     /\ \/ Waiting = {} /\ pc' = p
        \/ \E v \in Waiting : pc' = [p EXCEPT ![v] = "lock"]
-----------------------------------------------------------------------------
(* thread_pool_new *)
Init ==
  /\ is_run = TRUE
  /\ thread_index = 0
  /\ thread_state = [i \in Workers |-> FALSE]
  /\ top = 0
  /\ slots = [i \in Slots |-> NoMsg]
  /\ msg_lock = Free
  /\ event = FALSE
  /\ pc = [w \in Workers |-> "idle"]
  /\ index = [w \in Workers |-> 0]
  /\ slot = [w \in Workers |-> 0]
  /\ arg = [w \in Workers |-> NoMsg]
  /\ cpc = [c \in Callers |-> "idle"]
  /\ cmsg = [c \in Callers |-> NoMsg]
  /\ opc = "idle"
  /\ oi = 0
  /\ starts = 0
  /\ spurious = 0
  /\ fresh = Msgs
  /\ accepted = {}
  /\ handled = {}
  /\ calls = 0
  /\ asked = {}

(***************************************************************************)
(* Worker threads: thread_pool_work.                                       *)
(***************************************************************************)

\* The thread takes its number under thread_index_lock.
NextIndex_Same == thread_index
NextIndex == thread_index + 1

TakeIndex(w) ==
  /\ pc[w] = "index"
  /\ index' = [index EXCEPT ![w] = thread_index]
  /\ thread_index' = NextIndex
  /\ pc' = [pc EXCEPT ![w] = "lock"]
  /\ UNCHANGED <<is_run, thread_state, listVars, msg_lock, event, slot, arg,
                 callerVars, ownerVars, spurious, histVars>>

\* With the lock taken, the loop test finds the pool running and no message.
FindEmpty(w) ==
  /\ pc[w] = "lock" /\ msg_lock = Free
  /\ is_run /\ top <= 0
  /\ msg_lock' = w
  /\ pc' = [pc EXCEPT ![w] = "gap"]
  /\ UNCHANGED <<poolVars, listVars, event, index, slot, arg, callerVars,
                 ownerVars, spurious, histVars>>

\* thread_cond_wait releases the lock and blocks, whatever is_run has become.
CondWait(w) ==
  /\ pc[w] = "gap"
  /\ msg_lock' = Free
  /\ pc' = [pc EXCEPT ![w] = "waiting"]
  /\ UNCHANGED <<poolVars, listVars, event, index, slot, arg, callerVars,
                 ownerVars, spurious, histVars>>

\* Windows: WaitForSingleObject consumes the signalled event.
ConsumeEvent(w) ==
  /\ Platform = "windows"
  /\ pc[w] = "waiting" /\ event
  /\ event' = FALSE
  /\ pc' = [pc EXCEPT ![w] = "lock"]
  /\ UNCHANGED <<poolVars, listVars, msg_lock, index, slot, arg, callerVars,
                 ownerVars, spurious, histVars>>

\* Linux: pthread_cond_wait may return without a signal.
SpuriousWake(w) ==
  /\ Platform = "linux"
  /\ spurious < MaxSpurious
  /\ pc[w] = "waiting"
  /\ spurious' = spurious + 1
  /\ pc' = [pc EXCEPT ![w] = "lock"]
  /\ UNCHANGED <<poolVars, listVars, msg_lock, event, index, slot, arg,
                 callerVars, ownerVars, histVars>>

\* The pool runs and has a message: pop it and unlock.  Only the address of
\* its slot is kept.
Pop(w) ==
  /\ pc[w] = "lock" /\ msg_lock = Free
  /\ is_run /\ top > 0
  /\ slot' = [slot EXCEPT ![w] = PopSlot]
  /\ top' = TopAfterPop
  /\ pc' = [pc EXCEPT ![w] = "popped"]
  /\ UNCHANGED <<poolVars, slots, msg_lock, event, index, arg, callerVars,
                 ownerVars, spurious, histVars>>

SetBusy(w) ==
  /\ pc[w] = "popped"
  /\ thread_state' = [thread_state EXCEPT ![index[w]] = TRUE]
  /\ pc' = [pc EXCEPT ![w] = "busy"]
  /\ UNCHANGED <<is_run, thread_index, listVars, msg_lock, event, index, slot,
                 arg, callerVars, ownerVars, spurious, histVars>>

\* (*callback)(self, *msg_ptr): the slot is read here, without the lock,
\* and msg_ptr is not used again.
CallBack(w) ==
  /\ pc[w] = "busy"
  /\ arg' = [arg EXCEPT ![w] = slots[slot[w]]]
  /\ slot' = [slot EXCEPT ![w] = 0]
  /\ pc' = [pc EXCEPT ![w] = "callback"]
  /\ UNCHANGED <<poolVars, listVars, msg_lock, event, index, callerVars,
                 ownerVars, spurious, histVars>>

\* The callback returns and the thread is marked free.
Flag_Kept(w)  == thread_state
Flag(w) == [thread_state EXCEPT ![index[w]] = FALSE]

Return(w) ==
  /\ pc[w] = "callback"
  /\ handled' = handled \cup {arg[w]}
  /\ calls' = calls + 1
  /\ thread_state' = Flag(w)
  /\ arg' = [arg EXCEPT ![w] = NoMsg]
  /\ pc' = [pc EXCEPT ![w] = "lock"]
  /\ UNCHANGED <<is_run, thread_index, listVars, msg_lock, event, index, slot,
                 callerVars, ownerVars, spurious, accepted>>

\* The pool is stopped: leave the loop, whatever is still queued ...
SeeStop(w) ==
  /\ pc[w] = "lock" /\ msg_lock = Free
  /\ ~is_run
  /\ pc' = [pc EXCEPT ![w] = "leave"]
  /\ UNCHANGED <<poolVars, listVars, msg_lock, event, index, slot, arg,
                 callerVars, ownerVars, spurious, histVars>>

\* ... and pass the signal on to the next waiting thread.
PassSignal_Not(p) == Signal_Lost(p)
PassSignal(p) == Signal(p)

Exit(w) ==
  /\ pc[w] = "leave"
  /\ PassSignal([pc EXCEPT ![w] = "exited"])
  /\ UNCHANGED <<poolVars, listVars, msg_lock, index, slot, arg, callerVars,
                 ownerVars, spurious, histVars>>

(***************************************************************************)
(* Callers: thread_pool_pushmsg.                                           *)
(***************************************************************************)

\* is_run is read before the lock is taken; on a stopped pool the call
\* returns false.
BeginPush(c) ==
  /\ cpc[c] = "idle" /\ opc # "deleted"
  /\ \E m \in fresh :
       /\ fresh' = fresh \ {m}
       /\ IF is_run
          THEN /\ cpc' = [cpc EXCEPT ![c] = "push"]
               /\ cmsg' = [cmsg EXCEPT ![c] = m]
          ELSE UNCHANGED <<cpc, cmsg>>
  /\ UNCHANGED <<poolVars, listVars, msg_lock, event, workerVars, ownerVars,
                 spurious, histVars>>

\* The critical section; a full stack refuses the message.
Push(c) ==
  /\ cpc[c] = "push" /\ msg_lock = Free
  /\ PushMsg(cmsg[c])
  /\ cpc' = [cpc EXCEPT ![c] = "signal"]
  /\ cmsg' = [cmsg EXCEPT ![c] = NoMsg]
  /\ UNCHANGED <<poolVars, msg_lock, event, workerVars, fresh, ownerVars,
                 spurious, handled, calls>>

\* The signal is sent after the unlock, and also for a refused message.
PushSignal_Lost(p) == Signal_Lost(p)
PushSignal(p) == Signal(p)

EndPush(c) ==
  /\ cpc[c] = "signal"
  /\ PushSignal(pc)
  /\ cpc' = [cpc EXCEPT ![c] = "idle"]
  /\ UNCHANGED <<poolVars, listVars, msg_lock, index, slot, arg, cmsg, fresh,
                 ownerVars, spurious, histVars>>

(***************************************************************************)
(* The owner: thread_pool_start, _wait, _stop and _delete.                 *)
(***************************************************************************)
Start ==
  /\ opc = "idle" /\ starts < MaxStarts
  /\ opc' = "starting"
  /\ oi' = 0
  /\ starts' = starts + 1
  /\ UNCHANGED <<poolVars, listVars, msg_lock, event, workerVars, callerVars,
                 asked, spurious, histVars>>

StartThread ==
  /\ opc = "starting"
  /\ pc' = [pc EXCEPT ![oi] = "index"]
  /\ oi' = oi + 1
  /\ opc' = IF oi + 1 = WorkerNum THEN "running" ELSE "starting"
  /\ UNCHANGED <<poolVars, listVars, msg_lock, event, index, slot, arg,
                 callerVars, starts, asked, spurious, histVars>>

Wait ==
  /\ opc \in {"running", "waited"}
  /\ opc' = "isbusy"
  /\ asked' = {}
  /\ UNCHANGED <<poolVars, listVars, msg_lock, event, workerVars, callerVars,
                 oi, starts, spurious, histVars>>

\* thread_pool_isbusy reads the stack's top without the lock; while it is
\* positive, thread_pool_wait sleeps and asks again.
ReadTop ==
  /\ opc = "isbusy" /\ top <= 0
  /\ opc' = "scan"
  /\ oi' = 0
  /\ asked' = accepted
  /\ UNCHANGED <<poolVars, listVars, msg_lock, event, workerVars, callerVars,
                 starts, spurious, histVars>>

\* It then reads one busy flag after the other.
ScanFlag ==
  /\ opc = "scan"
  /\ IF thread_state[oi]
     THEN opc' = "isbusy" /\ oi' = oi
     ELSE /\ oi' = oi + 1
          /\ opc' = IF oi + 1 = WorkerNum THEN "waited" ELSE "scan"
  /\ UNCHANGED <<poolVars, listVars, msg_lock, event, workerVars, callerVars,
                 starts, asked, spurious, histVars>>

\* is_run is cleared without the lock.
Stop ==
  /\ opc \in {"running", "waited"}
  /\ is_run' = FALSE
  /\ opc' = "stop_signal"
  /\ oi' = 0
  /\ asked' = {}
  /\ UNCHANGED <<thread_index, thread_state, listVars, msg_lock, event,
                 workerVars, callerVars, starts, spurious, histVars>>

StopSignal ==
  /\ opc = "stop_signal"
  /\ Signal(pc)
  /\ opc' = "stop_join"
  /\ UNCHANGED <<poolVars, listVars, msg_lock, index, slot, arg, callerVars,
                 oi, starts, asked, spurious, histVars>>

\* thread_delete: join thread oi and free it.
Joinable_Any == TRUE
Joinable == pc[oi] = "exited"

StopJoin ==
  /\ opc = "stop_join" /\ Joinable
  /\ pc' = [pc EXCEPT ![oi] = "idle"]
  /\ index' = [index EXCEPT ![oi] = 0]
  /\ oi' = oi + 1
  /\ opc' = IF oi + 1 = WorkerNum THEN "idle" ELSE "stop_signal"
  /\ UNCHANGED <<poolVars, listVars, msg_lock, event, slot, arg, callerVars,
                 starts, asked, spurious, histVars>>

\* thread_pool_delete once no thread is left: its stop finds nothing to join.
\* The caller must not delete a pool another thread is pushing to.
Delete ==
  /\ opc = "idle"
  /\ \A c \in Callers : cpc[c] = "idle"
  /\ is_run' = FALSE
  /\ opc' = "deleted"
  /\ UNCHANGED <<thread_index, thread_state, listVars, msg_lock, event,
                 workerVars, callerVars, oi, starts, asked, spurious, histVars>>
-----------------------------------------------------------------------------
WorkerStep(w) ==
  \/ TakeIndex(w) \/ FindEmpty(w) \/ CondWait(w) \/ ConsumeEvent(w)
  \/ Pop(w) \/ SetBusy(w) \/ CallBack(w) \/ Return(w)
  \/ SeeStop(w) \/ Exit(w)

CallerStep(c) == Push(c) \/ EndPush(c)

OwnerStep == StartThread \/ ReadTop \/ ScanFlag \/ StopSignal \/ StopJoin

Next ==
  \/ \E w \in Workers : WorkerStep(w) \/ SpuriousWake(w)
  \/ \E c \in Callers : BeginPush(c) \/ CallerStep(c)
  \/ OwnerStep \/ Start \/ Wait \/ Stop \/ Delete

Spec == Init /\ [][Next]_vars

(***************************************************************************)
(* The operating system runs every thread that can run, and callbacks      *)
(* return.  Nobody has to call a pool function, and nobody gets a spurious *)
(* wake-up.                                                                *)
(***************************************************************************)
Fairness ==
  /\ \A w \in Workers : WF_vars(WorkerStep(w))
  /\ \A c \in Callers : WF_vars(CallerStep(c))
  /\ WF_vars(OwnerStep)

FairSpec == Spec /\ Fairness
-----------------------------------------------------------------------------
\* Types of the state.
TypeOK ==
  /\ is_run \in BOOLEAN
  /\ thread_index \in Nat
  /\ thread_state \in [Workers -> BOOLEAN]
  /\ top \in 0 .. MsgNum
  /\ slots \in [Slots -> Msgs \cup {NoMsg}]
  /\ msg_lock \in Workers \cup {Free}
  /\ event \in BOOLEAN
  /\ pc \in [Workers -> {"idle", "index", "lock", "gap", "waiting", "popped",
                         "busy", "callback", "leave", "exited"}]
  /\ index \in [Workers -> Nat]
  /\ slot \in [Workers -> Nat]
  /\ arg \in [Workers -> Msgs \cup {NoMsg}]
  /\ cpc \in [Callers -> {"idle", "push", "signal"}]
  /\ cmsg \in [Callers -> Msgs \cup {NoMsg}]
  /\ opc \in {"idle", "starting", "running", "isbusy", "scan", "waited",
              "stop_signal", "stop_join", "deleted"}
  /\ oi \in 0 .. WorkerNum
  /\ starts \in 0 .. MaxStarts
  /\ spurious \in 0 .. MaxSpurious
  /\ fresh \in SUBSET Msgs
  /\ accepted \in SUBSET Msgs
  /\ handled \in SUBSET Msgs
  /\ calls \in Nat
  /\ asked \in SUBSET Msgs

\* No push is slept through: while a running pool holds a message, some worker
\* is not blocked in thread_cond_wait, or a wake-up is on its way.  This is
\* what signalling after the unlock, once per push, has to guarantee.
Awake == {w \in Workers :
            pc[w] \in {"idle", "index", "lock", "popped", "busy", "callback"}}
NoLostWakeup ==
  is_run /\ top > 0 =>
    \/ Awake # {}
    \/ event
    \/ \E c \in Callers : cpc[c] = "signal"

\* A callback is only ever given a message that some push accepted, although
\* the worker reads it from the stack's array after giving up the lock.
NoPhantomMessage ==
  /\ \A w \in Workers : pc[w] = "callback" => arg[w] \in accepted
  /\ handled \subseteq accepted

\* Every accepted message costs exactly one callback, even when the messages
\* themselves get mixed up: pushed = queued + in flight + callbacks done.
CallbackCount ==
  calls + Cardinality(InFlight) + top = Cardinality(accepted)

\* The unlocked busy flags never collide: each flag is set exactly while one
\* worker is between setting and clearing it, and is inside work_thread_state,
\* over restarts too.
Flagged(i) == {w \in Workers : pc[w] \in {"busy", "callback"} /\ index[w] = i}
BusyFlagsExact ==
  /\ \A w \in InFlight : index[w] \in Workers
  /\ \A i \in Workers : /\ Cardinality(Flagged(i)) <= 1
                        /\ thread_state[i] <=> Flagged(i) # {}

\* When thread_pool_stop (or delete) has returned, no thread of the pool is
\* left: none inside a callback, none holding the lock.
StoppedMeansQuiet ==
  opc \in {"idle", "deleted"} =>
    /\ \A w \in Workers : pc[w] = "idle"
    /\ msg_lock = Free

\* thread_pool_wait returns when the pool is "not busy", that is, in the words
\* of the comment on thread_pool_isbusy, when every message accepted before it
\* asked has been handled (and is not still held by a worker).
NotBusyMeansHandled ==
  opc = "waited" => asked \subseteq handled

\* Once every thread is parked, no thread is between two steps of a push and
\* nothing is queued, every accepted message has been handled: "not busy"
\* means that all messages were processed.
AllHandledWhenParked ==
  ( /\ is_run /\ top = 0
    /\ \A w \in Workers : pc[w] = "waiting"
    /\ \A c \in Callers : cpc[c] = "idle" ) => accepted \subseteq handled

\* A started pool works its queue off, or is stopped.
QueueDrains ==
  (top > 0 /\ opc # "idle") ~> (top = 0 \/ ~is_run)

\* thread_pool_wait returns, once nobody pushes for ever.
WaitReturns == opc = "isbusy" ~> opc = "waited"

\* thread_pool_stop (and with it thread_pool_delete) returns.  On Linux a worker
\* that tested is_run just before it was cleared sleeps through the signal; a
\* second worker rescues it, because it cannot test is_run before the first one
\* has given up msg_lock and passes the signal on when it leaves.  With a single
\* worker nobody does.
StopReturns == opc = "stop_signal" ~> opc = "idle"

-----------------------------------------------------------------------------
(***************************************************************************)
(* The inductive invariant IInv, proved in ThreadPoolProofs (SyncInv: who  *)
(* holds the lock, who sleeps, which slots are read) and in                *)
(* ThreadPoolAccountProofs (AccountInv: numbers, busy flags, counts).      *)
(***************************************************************************)

\* The lock is seen held exactly by the worker about to wait, and then the
\* stack is empty.
LockInv ==
  \A w \in Workers : /\ msg_lock = w <=> pc[w] = "gap"
                     /\ pc[w] = "gap" => top = 0

\* How far the owner's loops have come, and that workers leave only a stopped
\* pool.
OwnerInv ==
  /\ opc \in {"idle", "deleted"} => \A w \in Workers : pc[w] = "idle"
  /\ opc = "starting" =>
       /\ oi < WorkerNum
       /\ \A w \in Workers : w >= oi => pc[w] = "idle"
  /\ opc = "scan" => oi < WorkerNum
  /\ opc \in {"stop_signal", "stop_join"} =>
       /\ oi < WorkerNum /\ ~is_run
       /\ \A w \in Workers : w < oi => pc[w] = "idle"
  /\ \A w \in Workers : pc[w] \in {"leave", "exited"} => ~is_run

\* Only accepted messages are in the part of the stack in use and in the slots
\* that workers still point at.
SlotInv ==
  /\ \A j \in Slots : j < top => slots[j] \in accepted
  /\ \A w \in Workers : pc[w] \in {"popped", "busy"} =>
       slot[w] \in Slots /\ slots[slot[w]] \in accepted
  /\ \A c \in Callers : cpc[c] = "push" => cmsg[c] \in Msgs

SyncInv ==
  /\ TypeOK /\ LockInv /\ OwnerInv /\ SlotInv
  /\ NoLostWakeup /\ NoPhantomMessage

\* A pool is running from thread_pool_new to its first stop only: threads that
\* are started again find it stopped and never get at a message.
RoundInv ==
  /\ starts = 0 => opc \in {"idle", "deleted"} /\ thread_index = 0
  /\ opc = "idle" /\ is_run => starts = 0
  /\ starts > 1 => ~is_run /\ InFlight = {}

\* In that first round thread_index counts the threads that took a number, the
\* joined ones included, so every number is below WorkerNum and taken once.
Numbered(w) == pc[w] \notin {"idle", "index"}
Joined == {w \in Workers : opc \in {"stop_signal", "stop_join"} /\ w < oi}
NumberInv ==
  starts = 1 /\ opc \notin {"idle", "deleted"} =>
    /\ thread_index = Cardinality({w \in Workers : Numbered(w)} \cup Joined)
    /\ \A w \in Workers : Numbered(w) =>
         /\ index[w] < thread_index
         /\ \A v \in Workers : Numbered(v) /\ index[v] = index[w] => v = w

FlagInv ==
  \A i \in Workers :
    thread_state[i] <=>
      \E w \in Workers : pc[w] \in {"busy", "callback"} /\ index[w] = i

\* A message is offered by one call, and accepted once.
OfferInv ==
  /\ accepted \cap fresh = {}
  /\ \A c \in Callers : cpc[c] = "push" =>
       /\ cmsg[c] \notin accepted \cup fresh
       /\ \A d \in Callers : cpc[d] = "push" /\ cmsg[d] = cmsg[c] => d = c

AccountInv == RoundInv /\ NumberInv /\ FlagInv /\ OfferInv /\ CallbackCount

\* Together, for every number of workers, callers and messages.
IInv == SyncInv /\ AccountInv
-----------------------------------------------------------------------------
(* The pool implements the token view of WorkPool. *)
Phase == IF ~is_run THEN "closed"
         ELSE IF \A w \in Workers : pc[w] = "idle" THEN "new" ELSE "open"

Abs == INSTANCE WorkPool
         WITH Capacity <- MsgNum, phase <- Phase,
              submitted <- Cardinality(accepted), queued <- top,
              running <- InFlight, finished <- calls

\* Every behaviour of the pool is one of the abstract pool, liveness included.
ImplementsWorkPool == Abs!Spec
=============================================================================
