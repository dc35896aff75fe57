-------------------------- MODULE ThreadPoolProofs --------------------------
(***************************************************************************)
(* Proofs about ThreadPool, for every number of workers, callers and       *)
(* messages, every size of the stack and both platforms: no message is     *)
(* lost, worker numbers and busy flags never collide, every accepted       *)
(* message costs one callback, and the pool refines WorkPool.              *)
(***************************************************************************)
EXTENDS ThreadPool, FiniteSetTheorems, TLAPS

USE PoolAssumption, FreeAssumption DEF Workers, Slots

WorkerPC == {"idle", "index", "lock", "gap", "waiting", "popped", "busy",
             "callback", "leave", "exited"}

-----------------------------------------------------------------------------
\* A signal changes the program counters to p, except that one waiting thread
\* may have been woken.
LEMMA SignalWakes ==
  ASSUME NEW p \in [Workers -> WorkerPC], event \in BOOLEAN, Signal(p)
  PROVE  /\ event' \in BOOLEAN
         /\ pc' \in [Workers -> WorkerPC]
         /\ \A w \in Workers : \/ pc'[w] = p[w]
                               \/ pc[w] = "waiting" /\ pc'[w] = "lock"
         /\ event => event'
BY DEF Signal, Waiting, WorkerPC

\* A signal leaves somebody to act on it: the event is set, or a worker is in
\* "lock", or none was waiting.
LEMMA SignalReaches ==
  ASSUME NEW p \in [Workers -> WorkerPC], Signal(p)
  PROVE  \/ event'
         \/ \E w \in Workers : pc'[w] = "lock"
         \/ pc' = p /\ \A w \in Workers : pc[w] # "waiting"
BY DEF Signal, Waiting, WorkerPC

-----------------------------------------------------------------------------
\* The initial state satisfies the invariant.
LEMMA InitInv == Init => SyncInv
<1> SUFFICES ASSUME Init PROVE SyncInv
  OBVIOUS
<1>1. TypeOK
  <2>1. slots \in [Slots -> Msgs \cup {NoMsg}] /\ top \in 0 .. MsgNum
    BY DEF Init
  <2>4. thread_state \in [Workers -> BOOLEAN]
    BY Zenon DEF Init
  <2>5. is_run \in BOOLEAN /\ event \in BOOLEAN /\ thread_index \in Nat
    BY DEF Init
  <2>2. /\ pc \in [Workers -> WorkerPC] /\ arg \in [Workers -> Msgs \cup {NoMsg}]
        /\ index \in [Workers -> Nat] /\ slot \in [Workers -> Nat]
    BY DEF Init, WorkerPC
  <2>3. /\ cpc \in [Callers -> {"idle", "push", "signal"}]
        /\ cmsg \in [Callers -> Msgs \cup {NoMsg}]
    BY DEF Init
  <2> QED
    BY <2>1, <2>2, <2>3, <2>4, <2>5 DEF Init, TypeOK, WorkerPC
<1>2. LockInv /\ OwnerInv /\ SlotInv
  BY DEF Init, LockInv, OwnerInv, SlotInv
<1>3. NoLostWakeup /\ NoPhantomMessage
  BY DEF Init, NoLostWakeup, NoPhantomMessage
<1> QED
  BY <1>1, <1>2, <1>3 DEF SyncInv

\* A worker that takes its number (thread_pool_work 88-90) keeps the invariant.
LEMMA TakeIndexInv ==
  ASSUME SyncInv, NEW w \in Workers, TakeIndex(w) PROVE SyncInv'
<1> USE DEF SyncInv, TakeIndex,
           poolVars, listVars, workerVars, callerVars, ownerVars, histVars
<1>1. TypeOK'
  BY SMTT(60) DEF TypeOK, NextIndex
<1>2. LockInv'
  BY DEF LockInv, TypeOK
<1>3. OwnerInv'
  BY DEF OwnerInv, TypeOK
<1>4. SlotInv'
  BY DEF SlotInv, TypeOK, NextIndex
<1>5. NoLostWakeup'
  BY DEF NoLostWakeup, TypeOK, Awake
<1>6. NoPhantomMessage'
  BY DEF NoPhantomMessage, TypeOK, NextIndex
<1> QED
  BY <1>1, <1>2, <1>3, <1>4, <1>5, <1>6

\* So does a worker that finds the running pool empty and keeps the lock: it leaves
\* nobody behind to be woken, because nothing is queued.
LEMMA FindEmptyInv ==
  ASSUME SyncInv, NEW w \in Workers, FindEmpty(w) PROVE SyncInv'
<1> USE DEF SyncInv, FindEmpty,
           poolVars, listVars, workerVars, callerVars, ownerVars, histVars
<1>1. TypeOK'
  BY DEF TypeOK
<1>2. LockInv'
  BY DEF LockInv, TypeOK
<1>3. OwnerInv'
  BY DEF OwnerInv, TypeOK
<1>4. SlotInv'
  BY DEF SlotInv, TypeOK
<1>5. NoLostWakeup'
  BY DEF NoLostWakeup, TypeOK, Awake
<1>6. NoPhantomMessage'
  BY DEF NoPhantomMessage, TypeOK
<1> QED
  BY <1>1, <1>2, <1>3, <1>4, <1>5, <1>6

\* So does thread_cond_wait: the lock is free again and the stack still empty.
LEMMA CondWaitInv ==
  ASSUME SyncInv, NEW w \in Workers, CondWait(w) PROVE SyncInv'
<1> USE DEF SyncInv, CondWait,
           poolVars, listVars, workerVars, callerVars, ownerVars, histVars
<1>1. TypeOK'
  BY DEF TypeOK
<1>2. LockInv'
  BY DEF LockInv, TypeOK
<1>3. OwnerInv'
  BY DEF OwnerInv, TypeOK
<1>4. SlotInv'
  BY DEF SlotInv, TypeOK
<1>5. NoLostWakeup'
  BY DEF NoLostWakeup, TypeOK, Awake
<1>6. NoPhantomMessage'
  BY DEF NoPhantomMessage, TypeOK
<1> QED
  BY <1>1, <1>2, <1>3, <1>4, <1>5, <1>6

\* So does a Windows wait that consumes the event: the worker is awake instead.
LEMMA ConsumeEventInv ==
  ASSUME SyncInv, NEW w \in Workers, ConsumeEvent(w) PROVE SyncInv'
<1> USE DEF SyncInv, ConsumeEvent,
           poolVars, listVars, workerVars, callerVars, ownerVars, histVars
<1>1. TypeOK'
  BY DEF TypeOK
<1>2. LockInv'
  BY DEF LockInv, TypeOK
<1>3. OwnerInv'
  BY DEF OwnerInv, TypeOK
<1>4. SlotInv'
  BY DEF SlotInv, TypeOK
<1>5. NoLostWakeup'
  BY DEF NoLostWakeup, TypeOK, Awake
<1>6. NoPhantomMessage'
  BY DEF NoPhantomMessage, TypeOK
<1> QED
  BY <1>1, <1>2, <1>3, <1>4, <1>5, <1>6

\* So does a spurious wake-up on Linux.
LEMMA SpuriousWakeInv ==
  ASSUME SyncInv, NEW w \in Workers, SpuriousWake(w) PROVE SyncInv'
<1> USE DEF SyncInv, SpuriousWake,
           poolVars, listVars, workerVars, callerVars, ownerVars, histVars
<1>1. TypeOK'
  BY DEF TypeOK
<1>2. LockInv'
  BY DEF LockInv, TypeOK
<1>3. OwnerInv'
  BY DEF OwnerInv, TypeOK
<1>4. SlotInv'
  BY DEF SlotInv, TypeOK
<1>5. NoLostWakeup'
  BY DEF NoLostWakeup, TypeOK, Awake
<1>6. NoPhantomMessage'
  BY DEF NoPhantomMessage, TypeOK
<1> QED
  BY <1>1, <1>2, <1>3, <1>4, <1>5, <1>6

\* So does a pop: the slot the worker keeps the address of holds an accepted message.
LEMMA PopInv ==
  ASSUME SyncInv, NEW w \in Workers, Pop(w) PROVE SyncInv'
<1> USE DEF SyncInv, Pop,
           poolVars, listVars, workerVars, callerVars, ownerVars, histVars
<1>1. TypeOK'
  BY DEF TypeOK, TopAfterPop, PopSlot
<1>2. LockInv'
  BY DEF LockInv, TypeOK, TopAfterPop, PopSlot
<1>3. OwnerInv'
  BY DEF OwnerInv, TypeOK
<1>4. SlotInv'
  BY DEF SlotInv, TypeOK, TopAfterPop, PopSlot
<1>5. NoLostWakeup'
  BY DEF NoLostWakeup, TypeOK, Awake, TopAfterPop, PopSlot
<1>6. NoPhantomMessage'
  BY DEF NoPhantomMessage, TypeOK, TopAfterPop, PopSlot
<1> QED
  BY <1>1, <1>2, <1>3, <1>4, <1>5, <1>6

\* So does setting the busy flag.
LEMMA SetBusyInv ==
  ASSUME SyncInv, NEW w \in Workers, SetBusy(w) PROVE SyncInv'
<1> USE DEF SyncInv, SetBusy,
           poolVars, listVars, workerVars, callerVars, ownerVars, histVars
<1>1. TypeOK'
  BY DEF TypeOK
<1>2. LockInv'
  BY DEF LockInv, TypeOK
<1>3. OwnerInv'
  BY DEF OwnerInv, TypeOK
<1>4. SlotInv'
  BY DEF SlotInv, TypeOK
<1>5. NoLostWakeup'
  BY DEF NoLostWakeup, TypeOK, Awake
<1>6. NoPhantomMessage'
  BY DEF NoPhantomMessage, TypeOK
<1> QED
  BY <1>1, <1>2, <1>3, <1>4, <1>5, <1>6

\* So does the read of *msg_ptr: an overwritten slot holds another accepted message.
LEMMA CallBackInv ==
  ASSUME SyncInv, NEW w \in Workers, CallBack(w) PROVE SyncInv'
<1> USE DEF SyncInv, CallBack,
           poolVars, listVars, workerVars, callerVars, ownerVars, histVars
<1>1. TypeOK'
  BY DEF TypeOK, LockInv, OwnerInv, SlotInv, NoPhantomMessage
<1>2. LockInv'
  BY DEF LockInv, TypeOK
<1>3. OwnerInv'
  BY DEF OwnerInv, TypeOK
<1>4. SlotInv'
  BY DEF SlotInv, TypeOK
<1>5. NoLostWakeup'
  BY DEF NoLostWakeup, TypeOK, Awake
<1>6. NoPhantomMessage'
  BY DEF NoPhantomMessage, TypeOK, LockInv, OwnerInv, SlotInv
<1> QED
  BY <1>1, <1>2, <1>3, <1>4, <1>5, <1>6

\* So does the end of a callback.
LEMMA ReturnInv ==
  ASSUME SyncInv, NEW w \in Workers, Return(w) PROVE SyncInv'
<1> USE DEF SyncInv, Return,
           poolVars, listVars, workerVars, callerVars, ownerVars, histVars
<1>1. TypeOK'
  <2>1. arg[w] \in Msgs /\ handled' \in SUBSET Msgs /\ calls' \in Nat
    BY DEF TypeOK, NoPhantomMessage
  <2>2. thread_state' \in [Workers -> BOOLEAN]
    BY DEF TypeOK, Flag
  <2>3. arg' \in [Workers -> Msgs \cup {NoMsg}] /\ pc' \in [Workers -> WorkerPC]
    BY DEF TypeOK, WorkerPC
  <2> QED
    BY <2>1, <2>2, <2>3 DEF TypeOK, WorkerPC
<1>2. LockInv'
  BY DEF LockInv, TypeOK
<1>3. OwnerInv'
  BY DEF OwnerInv, TypeOK
<1>4. SlotInv'
  BY DEF SlotInv, TypeOK, Flag
<1>5. NoLostWakeup'
  BY DEF NoLostWakeup, TypeOK, Awake
<1>6. NoPhantomMessage'
  BY DEF NoPhantomMessage, TypeOK, Flag
<1> QED
  BY <1>1, <1>2, <1>3, <1>4, <1>5, <1>6

\* So does leaving the loop: the pool is stopped.
LEMMA SeeStopInv ==
  ASSUME SyncInv, NEW w \in Workers, SeeStop(w) PROVE SyncInv'
<1> USE DEF SyncInv, SeeStop,
           poolVars, listVars, workerVars, callerVars, ownerVars, histVars
<1>1. TypeOK'
  BY DEF TypeOK
<1>2. LockInv'
  BY DEF LockInv, TypeOK
<1>3. OwnerInv'
  BY DEF OwnerInv, TypeOK
<1>4. SlotInv'
  BY DEF SlotInv, TypeOK
<1>5. NoLostWakeup'
  BY DEF NoLostWakeup, TypeOK, Awake
<1>6. NoPhantomMessage'
  BY DEF NoPhantomMessage, TypeOK
<1> QED
  BY <1>1, <1>2, <1>3, <1>4, <1>5, <1>6

\* So does the last step of a worker, which passes the signal on.
LEMMA ExitInv ==
  ASSUME SyncInv, NEW w \in Workers, Exit(w)
  PROVE  SyncInv'
<1> USE DEF poolVars, listVars, workerVars, callerVars, ownerVars, histVars
<1> DEFINE p == [pc EXCEPT ![w] = "exited"]
<1>1. p \in [Workers -> WorkerPC] /\ Signal(p) /\ event \in BOOLEAN
  BY DEF SyncInv, TypeOK, Exit, PassSignal, WorkerPC
<1>2. /\ event' \in BOOLEAN
      /\ pc' \in [Workers -> WorkerPC]
      /\ \A v \in Workers : pc'[v] = p[v] \/ (pc[v] = "waiting" /\ pc'[v] = "lock")
      /\ event => event'
  BY <1>1, SignalWakes
<1>3. \/ event'
      \/ \E v \in Workers : pc'[v] = "lock"
      \/ pc' = p /\ \A v \in Workers : pc[v] # "waiting"
  BY <1>1, SignalReaches
<1>4. TypeOK'
  BY <1>2 DEF SyncInv, TypeOK, Exit, WorkerPC
<1>5. LockInv'
  BY <1>2, ZenonT(60) DEF SyncInv, TypeOK, LockInv, Exit
<1>6. OwnerInv'
  BY <1>2 DEF SyncInv, TypeOK, OwnerInv, Exit
<1>7. SlotInv'
  BY <1>2 DEF SyncInv, TypeOK, SlotInv, Exit
<1>8. NoLostWakeup'
  BY <1>2, <1>3 DEF SyncInv, TypeOK, LockInv, OwnerInv, NoLostWakeup, Awake, Exit
<1>9. NoPhantomMessage'
  BY <1>2 DEF SyncInv, TypeOK, NoPhantomMessage, Exit
<1> QED
  BY <1>4, <1>5, <1>6, <1>7, <1>8, <1>9 DEF SyncInv

\* So does the unlocked test of is_run in thread_pool_pushmsg.
LEMMA BeginPushInv ==
  ASSUME SyncInv, NEW c \in Callers, BeginPush(c) PROVE SyncInv'
<1> USE DEF SyncInv, BeginPush,
           poolVars, listVars, workerVars, callerVars, ownerVars, histVars
<1>1. TypeOK'
  <2>1. PICK m \in fresh : /\ fresh' = fresh \ {m}
                          /\ IF is_run
                             THEN /\ cpc' = [cpc EXCEPT ![c] = "push"]
                                  /\ cmsg' = [cmsg EXCEPT ![c] = m]
                             ELSE UNCHANGED <<cpc, cmsg>>
    OBVIOUS
  <2>2. cpc' \in [Callers -> {"idle", "push", "signal"}]
    BY <2>1, ZenonT(60) DEF TypeOK
  <2>3. cmsg' \in [Callers -> Msgs \cup {NoMsg}] /\ fresh' \in SUBSET Msgs
    BY <2>1 DEF TypeOK
  <2> QED
    BY <2>2, <2>3 DEF TypeOK
<1>2. LockInv'
  BY DEF LockInv, TypeOK
<1>3. OwnerInv'
  BY DEF OwnerInv, TypeOK
<1>4. SlotInv'
  <2>1. PICK m \in fresh : /\ fresh' = fresh \ {m}
                          /\ IF is_run
                             THEN /\ cpc' = [cpc EXCEPT ![c] = "push"]
                                  /\ cmsg' = [cmsg EXCEPT ![c] = m]
                             ELSE UNCHANGED <<cpc, cmsg>>
    OBVIOUS
  <2>2. \A d \in Callers : cpc'[d] = "push" => cmsg'[d] \in Msgs
    BY <2>1 DEF TypeOK, SlotInv
  <2> QED
    BY <2>2 DEF SlotInv
<1>5. NoLostWakeup'
  BY DEF NoLostWakeup, TypeOK, Awake
<1>6. NoPhantomMessage'
  BY DEF NoPhantomMessage, TypeOK
<1> QED
  BY <1>1, <1>2, <1>3, <1>4, <1>5, <1>6

\* So does the critical section of thread_pool_pushmsg: its signal is still to come.
LEMMA PushInv ==
  ASSUME SyncInv, NEW c \in Callers, Push(c) PROVE SyncInv'
<1> USE DEF SyncInv, Push, poolVars, listVars, workerVars, callerVars, ownerVars, histVars
<1>0. cmsg[c] \in Msgs
  BY DEF SlotInv
<1>1. TypeOK'
  <2>1. /\ top' \in 0 .. MsgNum
        /\ slots' \in [Slots -> Msgs \cup {NoMsg}]
        /\ accepted' \in SUBSET Msgs
    BY <1>0, SMTT(60) DEF TypeOK, PushMsg, Room
  <2>2. /\ cpc' \in [Callers -> {"idle", "push", "signal"}]
        /\ cmsg' \in [Callers -> Msgs \cup {NoMsg}]
    BY DEF TypeOK
  <2> QED
    BY <2>1, <2>2 DEF TypeOK
<1>2. LockInv'
  BY DEF LockInv, TypeOK, PushMsg, Room
<1>3. OwnerInv'
  BY DEF OwnerInv, TypeOK
<1>4. SlotInv'
  <2>1. \A i \in Slots : i < top' => slots'[i] \in accepted'
    BY <1>0 DEF TypeOK, SlotInv, PushMsg, Room
  <2>2. \A w \in Workers : pc'[w] \in {"popped", "busy"} =>
           slot'[w] \in Slots /\ slots'[slot'[w]] \in accepted'
    BY <1>0 DEF TypeOK, SlotInv, PushMsg, Room
  <2>3. \A d \in Callers : cpc'[d] = "push" => cmsg'[d] \in Msgs
    BY DEF TypeOK, SlotInv
  <2> QED
    BY <2>1, <2>2, <2>3 DEF SlotInv
<1>5. NoLostWakeup'
  BY DEF NoLostWakeup, TypeOK, Awake, PushMsg, Room
<1>6. NoPhantomMessage'
  BY DEF NoPhantomMessage, TypeOK, PushMsg, Room
<1> QED
  BY <1>1, <1>2, <1>3, <1>4, <1>5, <1>6

\* So does the signal after the unlock: if nobody was waiting, every worker that is
\* not awake is about to wait with an empty stack or leaves a stopped pool.
LEMMA EndPushInv ==
  ASSUME SyncInv, NEW c \in Callers, EndPush(c)
  PROVE  SyncInv'
<1> USE DEF poolVars, listVars, workerVars, callerVars, ownerVars, histVars
<1> DEFINE p == pc
<1>1. p \in [Workers -> WorkerPC] /\ Signal(p) /\ event \in BOOLEAN
  BY DEF SyncInv, TypeOK, EndPush, PushSignal, WorkerPC
<1>2. /\ event' \in BOOLEAN
      /\ pc' \in [Workers -> WorkerPC]
      /\ \A v \in Workers : pc'[v] = p[v] \/ (pc[v] = "waiting" /\ pc'[v] = "lock")
      /\ event => event'
  BY <1>1, SignalWakes
<1>3. \/ event'
      \/ \E v \in Workers : pc'[v] = "lock"
      \/ pc' = p /\ \A v \in Workers : pc[v] # "waiting"
  BY <1>1, SignalReaches
<1>4. TypeOK'
  BY <1>2 DEF SyncInv, TypeOK, EndPush, WorkerPC
<1>5. LockInv'
  BY <1>2 DEF SyncInv, TypeOK, LockInv, EndPush
<1>6. OwnerInv'
  BY <1>2 DEF SyncInv, TypeOK, OwnerInv, EndPush
<1>7. SlotInv'
  BY <1>2 DEF SyncInv, TypeOK, SlotInv, EndPush
<1>8. NoLostWakeup'
  <2> SUFFICES ASSUME is_run, top > 0, ~event', Awake' = {}
               PROVE  FALSE
    BY DEF NoLostWakeup, EndPush
  <2>1. \A v \in Workers : pc'[v] # "lock"
    BY DEF Awake
  <2>2. pc' = pc /\ \A v \in Workers : pc[v] # "waiting"
    BY <1>3, <2>1
  <2>3. \A v \in Workers : pc[v] \in {"gap", "leave", "exited"}
    BY <2>2 DEF SyncInv, TypeOK, Awake
  <2> QED
    BY <2>3 DEF SyncInv, LockInv, OwnerInv, TypeOK
<1>9. NoPhantomMessage'
  BY <1>2 DEF SyncInv, TypeOK, NoPhantomMessage, EndPush
<1> QED
  BY <1>4, <1>5, <1>6, <1>7, <1>8, <1>9 DEF SyncInv

\* So does thread_pool_start ...
LEMMA StartInv ==
  ASSUME SyncInv, Start PROVE SyncInv'
<1> USE DEF SyncInv, Start,
           poolVars, listVars, workerVars, callerVars, ownerVars, histVars
<1>1. TypeOK'
  BY DEF TypeOK
<1>2. LockInv'
  BY DEF LockInv, TypeOK
<1>3. OwnerInv'
  BY DEF OwnerInv, TypeOK
<1>4. SlotInv'
  BY DEF SlotInv, TypeOK
<1>5. NoLostWakeup'
  BY DEF NoLostWakeup, TypeOK, Awake
<1>6. NoPhantomMessage'
  BY DEF NoPhantomMessage, TypeOK
<1> QED
  BY <1>1, <1>2, <1>3, <1>4, <1>5, <1>6

\* ... and each thread it creates.
LEMMA StartThreadInv ==
  ASSUME SyncInv, StartThread PROVE SyncInv'
<1> USE DEF SyncInv, StartThread,
           poolVars, listVars, workerVars, callerVars, ownerVars, histVars
<1>1. TypeOK'
  BY DEF TypeOK, LockInv, OwnerInv
<1>2. LockInv'
  BY DEF LockInv, TypeOK, OwnerInv
<1>3. OwnerInv'
  BY DEF OwnerInv, TypeOK
<1>4. SlotInv'
  BY DEF SlotInv, TypeOK
<1>5. NoLostWakeup'
  BY DEF NoLostWakeup, TypeOK, Awake
<1>6. NoPhantomMessage'
  BY DEF NoPhantomMessage, TypeOK
<1> QED
  BY <1>1, <1>2, <1>3, <1>4, <1>5, <1>6

\* So does thread_pool_wait,
LEMMA WaitInv ==
  ASSUME SyncInv, Wait PROVE SyncInv'
<1> USE DEF SyncInv, Wait,
           poolVars, listVars, workerVars, callerVars, ownerVars, histVars
<1>1. TypeOK'
  BY DEF TypeOK
<1>2. LockInv'
  BY DEF LockInv, TypeOK
<1>3. OwnerInv'
  BY DEF OwnerInv, TypeOK
<1>4. SlotInv'
  BY DEF SlotInv, TypeOK
<1>5. NoLostWakeup'
  BY DEF NoLostWakeup, TypeOK, Awake
<1>6. NoPhantomMessage'
  BY DEF NoPhantomMessage, TypeOK
<1> QED
  BY <1>1, <1>2, <1>3, <1>4, <1>5, <1>6

\* ... its unlocked read of the stack's top ...
LEMMA ReadTopInv ==
  ASSUME SyncInv, ReadTop PROVE SyncInv'
<1> USE DEF SyncInv, ReadTop,
           poolVars, listVars, workerVars, callerVars, ownerVars, histVars
<1>1. TypeOK'
  BY DEF TypeOK
<1>2. LockInv'
  BY DEF LockInv, TypeOK
<1>3. OwnerInv'
  BY DEF OwnerInv, TypeOK
<1>4. SlotInv'
  BY DEF SlotInv, TypeOK
<1>5. NoLostWakeup'
  BY DEF NoLostWakeup, TypeOK, Awake
<1>6. NoPhantomMessage'
  BY DEF NoPhantomMessage, TypeOK
<1> QED
  BY <1>1, <1>2, <1>3, <1>4, <1>5, <1>6

\* ... and of the busy flags.
LEMMA ScanFlagInv ==
  ASSUME SyncInv, ScanFlag PROVE SyncInv'
<1> USE DEF SyncInv, ScanFlag,
           poolVars, listVars, workerVars, callerVars, ownerVars, histVars
<1>1. TypeOK'
  BY SMTT(60) DEF TypeOK, LockInv, OwnerInv
<1>2. LockInv'
  BY DEF LockInv, TypeOK
<1>3. OwnerInv'
  BY SMTT(60) DEF OwnerInv, TypeOK
<1>4. SlotInv'
  BY DEF SlotInv, TypeOK
<1>5. NoLostWakeup'
  BY DEF NoLostWakeup, TypeOK, Awake
<1>6. NoPhantomMessage'
  BY DEF NoPhantomMessage, TypeOK
<1> QED
  BY <1>1, <1>2, <1>3, <1>4, <1>5, <1>6

\* So does the unlocked write to is_run in thread_pool_stop,
LEMMA StopInv ==
  ASSUME SyncInv, Stop PROVE SyncInv'
<1> USE DEF SyncInv, Stop,
           poolVars, listVars, workerVars, callerVars, ownerVars, histVars
<1>1. TypeOK'
  <2>1. asked' \in SUBSET Msgs /\ oi' \in 0 .. WorkerNum
    OBVIOUS
  <2>2. is_run' \in BOOLEAN
    BY Zenon
  <2>3. opc' = "stop_signal"
    OBVIOUS
  <2> QED
    BY <2>1, <2>2, <2>3 DEF TypeOK
<1>2. LockInv'
  BY DEF LockInv, TypeOK
<1>3. OwnerInv'
  BY DEF OwnerInv, TypeOK
<1>4. SlotInv'
  BY DEF SlotInv, TypeOK
<1>5. NoLostWakeup'
  BY DEF NoLostWakeup, TypeOK, Awake
<1>6. NoPhantomMessage'
  BY DEF NoPhantomMessage, TypeOK
<1> QED
  BY <1>1, <1>2, <1>3, <1>4, <1>5, <1>6

\* ... each of its signals ...
LEMMA StopSignalInv ==
  ASSUME SyncInv, StopSignal
  PROVE  SyncInv'
<1> USE DEF poolVars, listVars, workerVars, callerVars, ownerVars, histVars
<1> DEFINE p == pc
<1>1. p \in [Workers -> WorkerPC] /\ Signal(p) /\ event \in BOOLEAN
  BY DEF SyncInv, TypeOK, StopSignal, WorkerPC
<1>2. /\ event' \in BOOLEAN
      /\ pc' \in [Workers -> WorkerPC]
      /\ \A v \in Workers : pc'[v] = p[v] \/ (pc[v] = "waiting" /\ pc'[v] = "lock")
      /\ event => event'
  BY <1>1, SignalWakes
<1>3. \/ event'
      \/ \E v \in Workers : pc'[v] = "lock"
      \/ pc' = p /\ \A v \in Workers : pc[v] # "waiting"
  BY <1>1, SignalReaches
<1>4. TypeOK'
  BY <1>2 DEF SyncInv, TypeOK, StopSignal, WorkerPC
<1>5. LockInv'
  BY <1>2 DEF SyncInv, TypeOK, LockInv, StopSignal
<1>6. OwnerInv'
  BY <1>2 DEF SyncInv, TypeOK, OwnerInv, StopSignal
<1>7. SlotInv'
  BY <1>2 DEF SyncInv, TypeOK, SlotInv, StopSignal
<1>8. NoLostWakeup'
  BY <1>2, <1>3 DEF SyncInv, TypeOK, LockInv, OwnerInv, NoLostWakeup, Awake, StopSignal
<1>9. NoPhantomMessage'
  BY <1>2 DEF SyncInv, TypeOK, NoPhantomMessage, StopSignal
<1> QED
  BY <1>4, <1>5, <1>6, <1>7, <1>8, <1>9 DEF SyncInv

\* ... and each join.
LEMMA StopJoinInv ==
  ASSUME SyncInv, StopJoin PROVE SyncInv'
<1> USE DEF SyncInv, StopJoin,
           poolVars, listVars, workerVars, callerVars, ownerVars, histVars
<1>1. TypeOK'
  BY DEF TypeOK, LockInv, OwnerInv, Joinable
<1>2. LockInv'
  BY DEF LockInv, TypeOK, Joinable
<1>3. OwnerInv'
  BY DEF OwnerInv, TypeOK, Joinable
<1>4. SlotInv'
  BY DEF SlotInv, TypeOK, Joinable
<1>5. NoLostWakeup'
  BY DEF NoLostWakeup, TypeOK, Awake, Joinable
<1>6. NoPhantomMessage'
  BY DEF NoPhantomMessage, TypeOK, Joinable
<1> QED
  BY <1>1, <1>2, <1>3, <1>4, <1>5, <1>6

\* So does thread_pool_delete.
LEMMA DeleteInv ==
  ASSUME SyncInv, Delete PROVE SyncInv'
<1> USE DEF SyncInv, Delete,
           poolVars, listVars, workerVars, callerVars, ownerVars, histVars
<1>1. TypeOK'
  BY DEF TypeOK
<1>2. LockInv'
  BY DEF LockInv, TypeOK
<1>3. OwnerInv'
  BY DEF OwnerInv, TypeOK
<1>4. SlotInv'
  BY DEF SlotInv, TypeOK
<1>5. NoLostWakeup'
  BY DEF NoLostWakeup, TypeOK, Awake
<1>6. NoPhantomMessage'
  BY DEF NoPhantomMessage, TypeOK
<1> QED
  BY <1>1, <1>2, <1>3, <1>4, <1>5, <1>6

-----------------------------------------------------------------------------
\* A step that changes nothing keeps the invariant.
LEMMA StutterInv == SyncInv /\ UNCHANGED vars => SyncInv'
<1> SUFFICES ASSUME SyncInv, UNCHANGED vars PROVE SyncInv'
  OBVIOUS
<1> USE DEF vars,
           poolVars, listVars, workerVars, callerVars, ownerVars, histVars
<1>1. TypeOK'
  BY DEF SyncInv, TypeOK
<1>2. LockInv' /\ OwnerInv' /\ SlotInv'
  BY DEF SyncInv, LockInv, OwnerInv, SlotInv
<1>3. NoLostWakeup' /\ NoPhantomMessage'
  BY DEF SyncInv, NoLostWakeup, NoPhantomMessage, Awake
<1> QED
  BY <1>1, <1>2, <1>3 DEF SyncInv

\* Every step keeps the invariant.
LEMMA NextInv == SyncInv /\ [Next]_vars => SyncInv'
<1> SUFFICES ASSUME SyncInv, [Next]_vars PROVE SyncInv'
  OBVIOUS
<1>1. ASSUME NEW w \in Workers, WorkerStep(w) \/ SpuriousWake(w) PROVE SyncInv'
  BY <1>1, TakeIndexInv, FindEmptyInv, CondWaitInv, ConsumeEventInv, PopInv,
     SetBusyInv, CallBackInv, ReturnInv, SeeStopInv, ExitInv, SpuriousWakeInv
     DEF WorkerStep
<1>2. ASSUME NEW c \in Callers, BeginPush(c) \/ CallerStep(c) PROVE SyncInv'
  BY <1>2, BeginPushInv, PushInv, EndPushInv DEF CallerStep
<1>3. ASSUME OwnerStep \/ Start \/ Wait \/ Stop \/ Delete PROVE SyncInv'
  BY <1>3, StartThreadInv, ReadTopInv, ScanFlagInv, StopSignalInv, StopJoinInv,
     StartInv, WaitInv, StopInv, DeleteInv DEF OwnerStep
<1>4. CASE UNCHANGED vars
  BY <1>4, StutterInv
<1> QED
  BY <1>1, <1>2, <1>3, <1>4 DEF Next

\* The inductive invariant holds in every state of the pool.
THEOREM Invariance == Spec => []SyncInv
BY InitInv, NextInv, PTL DEF Spec

\* Type correctness of thread_pool_s, the condition variable and every thread.
THEOREM TypeCorrect == Spec => []TypeOK
<1>1. SyncInv => TypeOK
  BY DEF SyncInv
<1> QED
  BY <1>1, Invariance, PTL

\* thread_pool_pushmsg's late signal is enough: no accepted message is ever left
\* to a pool whose workers all sleep with no wake-up on its way.
THEOREM WakeupSafe == Spec => []NoLostWakeup
<1>1. SyncInv => NoLostWakeup
  BY DEF SyncInv
<1> QED
  BY <1>1, Invariance, PTL

\* A callback only ever gets a message some push accepted, in spite of the
\* unlocked read through the pointer stack_pop returned.
THEOREM PhantomFree == Spec => []NoPhantomMessage
<1>1. SyncInv => NoPhantomMessage
  BY DEF SyncInv
<1> QED
  BY <1>1, Invariance, PTL

\* After thread_pool_stop or _delete has returned no thread of the pool is left
\* and nobody holds its lock.
THEOREM QuietWhenStopped == Spec => []StoppedMeansQuiet
<1>1. SyncInv => StoppedMeansQuiet
  BY DEF SyncInv, TypeOK, LockInv, OwnerInv, StoppedMeansQuiet
<1> QED
  BY <1>1, Invariance, PTL
-----------------------------------------------------------------------------
\* Sets of workers are finite, and there are WorkerNum of them.
LEMMA WorkerSets ==
  /\ IsFiniteSet(Workers) /\ Cardinality(Workers) = WorkerNum
  /\ \A S \in SUBSET Workers :
       /\ IsFiniteSet(S) /\ Cardinality(S) \in Nat /\ Cardinality(S) <= WorkerNum
       /\ \A w \in Workers \ S : Cardinality(S \cup {w}) = Cardinality(S) + 1
       /\ \A w \in S : Cardinality(S \ {w}) = Cardinality(S) - 1
<1>1. IsFiniteSet(Workers) /\ Cardinality(Workers) = WorkerNum
  BY FS_Interval
<1>2. ASSUME NEW S \in SUBSET Workers
      PROVE  /\ IsFiniteSet(S) /\ Cardinality(S) \in Nat
             /\ Cardinality(S) <= WorkerNum
  <2>1. IsFiniteSet(S) /\ Cardinality(S) <= WorkerNum
    BY <1>1, FS_Subset
  <2> QED
    BY <2>1, FS_CardinalityType
<1>3. ASSUME NEW S \in SUBSET Workers, NEW w \in Workers \ S
      PROVE  Cardinality(S \cup {w}) = Cardinality(S) + 1
  BY <1>2, FS_AddElement
<1>4. ASSUME NEW S \in SUBSET Workers, NEW w \in S
      PROVE  Cardinality(S \ {w}) = Cardinality(S) - 1
  BY <1>2, FS_RemoveElement
<1> QED
  BY <1>1, <1>2, <1>3, <1>4

\* Sets of messages are finite.
LEMMA MessageSets ==
  \A S \in SUBSET Msgs :
    /\ IsFiniteSet(S) /\ Cardinality(S) \in Nat
    /\ \A m \in Msgs \ S : Cardinality(S \cup {m}) = Cardinality(S) + 1
<1> SUFFICES ASSUME NEW S \in SUBSET Msgs
             PROVE  /\ IsFiniteSet(S) /\ Cardinality(S) \in Nat
                    /\ \A m \in Msgs \ S :
                         Cardinality(S \cup {m}) = Cardinality(S) + 1
  OBVIOUS
<1>1. IsFiniteSet(S)
  BY FS_Subset
<1> QED
  BY <1>1, FS_CardinalityType, FS_AddElement

\* A worker that works on a message is in the pool's first round and has a number
\* below WorkerNum, so its flag is inside work_thread_state.
LEMMA NumbersInRange ==
  ASSUME SyncInv, RoundInv, NumberInv, NEW w \in InFlight
  PROVE  /\ w \in Workers /\ index[w] \in Workers
         /\ \A v \in InFlight : index[v] = index[w] => v = w
<1>1. w \in Workers /\ Numbered(w)
  BY DEF InFlight, Numbered
<1>2. opc \notin {"idle", "deleted"}
  BY <1>1 DEF SyncInv, OwnerInv, Numbered
<1>3. starts = 1
  BY <1>2 DEF SyncInv, TypeOK, RoundInv
<1> DEFINE S == {v \in Workers : Numbered(v)} \cup Joined
<1>4. /\ thread_index = Cardinality(S)
      /\ index[w] < thread_index
      /\ \A v \in Workers : Numbered(v) /\ index[v] = index[w] => v = w
  BY <1>1, <1>2, <1>3 DEF NumberInv
<1>5. Cardinality(S) <= WorkerNum
  <2>1. S \in SUBSET Workers
    BY DEF Joined
  <2> QED
    BY <2>1, WorkerSets
<1>6. index[w] \in Workers
  BY <1>1, <1>4, <1>5 DEF SyncInv, TypeOK
<1>7. \A v \in InFlight : v \in Workers /\ Numbered(v)
  BY DEF InFlight, Numbered
<1> QED
  BY <1>1, <1>4, <1>6, <1>7

-----------------------------------------------------------------------------
(***************************************************************************)
(* What leaves a part of the accounting alone.                             *)
(***************************************************************************)

\* Nobody takes a number and nobody is joined.
LEMMA NumberFrame ==
  ASSUME NumberInv, UNCHANGED <<starts, thread_index, index>>, Joined' = Joined,
         \A w \in Workers : Numbered(w)' <=> Numbered(w),
         opc \in {"idle", "deleted"} => opc' \in {"idle", "deleted"} \/ starts # 1
  PROVE  NumberInv'
<1>1. {w \in Workers : Numbered(w)}' = {w \in Workers : Numbered(w)}
  OBVIOUS
<1> QED
  BY <1>1 DEF NumberInv

\* No flag is written and no worker begins or ends a callback.
LEMMA FlagFrame ==
  ASSUME FlagInv, UNCHANGED <<thread_state, index>>,
         \A w \in Workers :
           pc'[w] \in {"busy", "callback"} <=> pc[w] \in {"busy", "callback"}
  PROVE  FlagInv'
BY DEF FlagInv

\* No message is offered or accepted.
LEMMA OfferFrame ==
  ASSUME OfferInv, UNCHANGED <<accepted, fresh, cpc, cmsg>>
  PROVE  OfferInv'
BY DEF OfferInv

\* No message is accepted, taken or finished.
LEMMA CountFrame ==
  ASSUME CallbackCount, UNCHANGED <<calls, top, accepted>>,
         \A w \in Workers : pc'[w] \in {"popped", "busy", "callback"}
                              <=> pc[w] \in {"popped", "busy", "callback"}
  PROVE  CallbackCount' /\ InFlight' = InFlight
<1>1. InFlight' = InFlight
  BY DEF InFlight
<1> QED
  BY <1>1 DEF CallbackCount

-----------------------------------------------------------------------------
\* The initial state satisfies the accounting.
LEMMA InitAccount == Init => AccountInv
<1> SUFFICES ASSUME Init PROVE AccountInv
  OBVIOUS
<1>1. RoundInv /\ NumberInv /\ OfferInv
  BY DEF Init, RoundInv, NumberInv, OfferInv
<1>2. FlagInv
  BY DEF Init, FlagInv
<1>3. CallbackCount
  <2>1. InFlight = {} /\ accepted = {} /\ top = 0 /\ calls = 0
    BY DEF Init, InFlight
  <2> QED
    BY <2>1, FS_EmptySet DEF CallbackCount
<1> QED
  BY <1>1, <1>2, <1>3 DEF AccountInv

\* A worker takes a number nobody else has: thread_index counts the numbers
\* given out.
LEMMA TakeIndexAccount ==
  ASSUME SyncInv, AccountInv, NEW w \in Workers, TakeIndex(w)
  PROVE  AccountInv'
<1> USE DEF TakeIndex, AccountInv,
           poolVars, listVars, workerVars, callerVars, ownerVars, histVars
<1>0. /\ pc \in [Workers -> WorkerPC] /\ index \in [Workers -> Nat]
      /\ thread_index \in Nat
  BY DEF SyncInv, TypeOK, WorkerPC
<1>1. RoundInv'
  BY <1>0 DEF RoundInv, InFlight, SyncInv, OwnerInv
<1>2. NumberInv'
  <2> SUFFICES ASSUME starts = 1, opc \notin {"idle", "deleted"}
               PROVE  NumberInv'
    BY DEF NumberInv
  <2> DEFINE S == {v \in Workers : Numbered(v)} \cup Joined
  <2>1. S \in SUBSET Workers /\ S' = S \cup {w}
    BY <1>0 DEF Numbered, Joined
  <2>2. w \notin S
    BY <1>0 DEF Numbered, Joined, SyncInv, OwnerInv
  <2>3. Cardinality(S') = Cardinality(S) + 1
    BY <2>1, <2>2, WorkerSets
  <2>4. thread_index' = Cardinality(S')
    BY <2>3 DEF NumberInv, NextIndex
  <2>5. \A v \in Workers : Numbered(v)' <=> Numbered(v) \/ v = w
    BY <1>0 DEF Numbered
  <2>6. \A v \in Workers : index'[v] = IF v = w THEN thread_index ELSE index[v]
    BY <1>0
  <2>7. \A v \in Workers : Numbered(v) =>
           /\ index[v] < thread_index
           /\ \A u \in Workers : Numbered(u) /\ index[u] = index[v] => u = v
    BY DEF NumberInv
  <2>8. ASSUME NEW v \in Workers, Numbered(v)'
        PROVE  index'[v] < thread_index'
    BY <1>0, <2>5, <2>6, <2>7, <2>8 DEF NextIndex
  <2>9. ASSUME NEW v \in Workers, Numbered(v)', NEW u \in Workers, Numbered(u)',
               index'[u] = index'[v]
        PROVE  u = v
    <3>1. (Numbered(v) \/ v = w) /\ (Numbered(u) \/ u = w)
      BY <2>5, <2>9
    <3>2. index[v] \in Nat /\ index[u] \in Nat
      BY <1>0
    <3> QED
      BY <1>0, <2>6, <2>7, <2>9, <3>1, <3>2
  <2> QED
    BY <2>4, <2>8, <2>9 DEF NumberInv
<1>3. FlagInv'
  BY <1>0 DEF FlagInv
<1>4. OfferInv'
  BY OfferFrame
<1>5. CallbackCount'
  BY <1>0, CountFrame
<1> QED
  BY <1>1, <1>2, <1>3, <1>4, <1>5

\* A worker that finds the pool empty, waits or wakes up changes no count ...
LEMMA FindEmptyAccount ==
  ASSUME SyncInv, AccountInv, NEW w \in Workers, FindEmpty(w)
  PROVE  AccountInv'
<1> USE DEF FindEmpty, AccountInv,
           poolVars, listVars, workerVars, callerVars, ownerVars, histVars
<1>1. pc \in [Workers -> WorkerPC]
  BY DEF SyncInv, TypeOK, WorkerPC
<1>2. CallbackCount' /\ InFlight' = InFlight
  BY <1>1, CountFrame
<1>3. RoundInv'
  BY <1>2 DEF RoundInv
<1>4. NumberInv'
  <2>1. Joined' = Joined /\ \A v \in Workers : Numbered(v)' <=> Numbered(v)
    BY <1>1 DEF Numbered, Joined
  <2> QED
    BY <2>1, NumberFrame
<1>5. FlagInv'
  BY <1>1, FlagFrame
<1>6. OfferInv'
  BY OfferFrame
<1> QED
  BY <1>2, <1>3, <1>4, <1>5, <1>6

\* (the same for the next step of a wait)
LEMMA CondWaitAccount ==
  ASSUME SyncInv, AccountInv, NEW w \in Workers, CondWait(w)
  PROVE  AccountInv'
<1> USE DEF CondWait, AccountInv,
           poolVars, listVars, workerVars, callerVars, ownerVars, histVars
<1>1. pc \in [Workers -> WorkerPC]
  BY DEF SyncInv, TypeOK, WorkerPC
<1>2. CallbackCount' /\ InFlight' = InFlight
  BY <1>1, CountFrame
<1>3. RoundInv'
  BY <1>2 DEF RoundInv
<1>4. NumberInv'
  <2>1. Joined' = Joined /\ \A v \in Workers : Numbered(v)' <=> Numbered(v)
    BY <1>1 DEF Numbered, Joined
  <2> QED
    BY <2>1, NumberFrame
<1>5. FlagInv'
  BY <1>1, FlagFrame
<1>6. OfferInv'
  BY OfferFrame
<1> QED
  BY <1>2, <1>3, <1>4, <1>5, <1>6

\* (the same for the next step of a wait)
LEMMA ConsumeEventAccount ==
  ASSUME SyncInv, AccountInv, NEW w \in Workers, ConsumeEvent(w)
  PROVE  AccountInv'
<1> USE DEF ConsumeEvent, AccountInv,
           poolVars, listVars, workerVars, callerVars, ownerVars, histVars
<1>1. pc \in [Workers -> WorkerPC]
  BY DEF SyncInv, TypeOK, WorkerPC
<1>2. CallbackCount' /\ InFlight' = InFlight
  BY <1>1, CountFrame
<1>3. RoundInv'
  BY <1>2 DEF RoundInv
<1>4. NumberInv'
  <2>1. Joined' = Joined /\ \A v \in Workers : Numbered(v)' <=> Numbered(v)
    BY <1>1 DEF Numbered, Joined
  <2> QED
    BY <2>1, NumberFrame
<1>5. FlagInv'
  BY <1>1, FlagFrame
<1>6. OfferInv'
  BY OfferFrame
<1> QED
  BY <1>2, <1>3, <1>4, <1>5, <1>6

\* (the same for the next step of a wait)
LEMMA SpuriousWakeAccount ==
  ASSUME SyncInv, AccountInv, NEW w \in Workers, SpuriousWake(w)
  PROVE  AccountInv'
<1> USE DEF SpuriousWake, AccountInv,
           poolVars, listVars, workerVars, callerVars, ownerVars, histVars
<1>1. pc \in [Workers -> WorkerPC]
  BY DEF SyncInv, TypeOK, WorkerPC
<1>2. CallbackCount' /\ InFlight' = InFlight
  BY <1>1, CountFrame
<1>3. RoundInv'
  BY <1>2 DEF RoundInv
<1>4. NumberInv'
  <2>1. Joined' = Joined /\ \A v \in Workers : Numbered(v)' <=> Numbered(v)
    BY <1>1 DEF Numbered, Joined
  <2> QED
    BY <2>1, NumberFrame
<1>5. FlagInv'
  BY <1>1, FlagFrame
<1>6. OfferInv'
  BY OfferFrame
<1> QED
  BY <1>2, <1>3, <1>4, <1>5, <1>6

\* ... nor does one that finds the pool stopped.
LEMMA SeeStopAccount ==
  ASSUME SyncInv, AccountInv, NEW w \in Workers, SeeStop(w)
  PROVE  AccountInv'
<1> USE DEF SeeStop, AccountInv,
           poolVars, listVars, workerVars, callerVars, ownerVars, histVars
<1>1. pc \in [Workers -> WorkerPC]
  BY DEF SyncInv, TypeOK, WorkerPC
<1>2. CallbackCount' /\ InFlight' = InFlight
  BY <1>1, CountFrame
<1>3. RoundInv'
  BY <1>2 DEF RoundInv
<1>4. NumberInv'
  <2>1. Joined' = Joined /\ \A v \in Workers : Numbered(v)' <=> Numbered(v)
    BY <1>1 DEF Numbered, Joined
  <2> QED
    BY <2>1, NumberFrame
<1>5. FlagInv'
  BY <1>1, FlagFrame
<1>6. OfferInv'
  BY OfferFrame
<1> QED
  BY <1>2, <1>3, <1>4, <1>5, <1>6

\* A pop moves a message from the stack to the worker.
LEMMA PopAccount ==
  ASSUME SyncInv, AccountInv, NEW w \in Workers, Pop(w)
  PROVE  AccountInv'
<1> USE DEF Pop, AccountInv,
           poolVars, listVars, workerVars, callerVars, ownerVars, histVars
<1>1. pc \in [Workers -> WorkerPC] /\ top \in Nat /\ calls \in Nat
  BY DEF SyncInv, TypeOK, WorkerPC
<1>2. RoundInv'
  BY DEF RoundInv
<1>3. NumberInv'
  <2>1. Joined' = Joined /\ \A v \in Workers : Numbered(v)' <=> Numbered(v)
    BY <1>1 DEF Numbered, Joined
  <2> QED
    BY <2>1, NumberFrame
<1>4. FlagInv'
  BY <1>1, FlagFrame
<1>5. OfferInv'
  BY OfferFrame
<1>6. CallbackCount'
  <2>1. InFlight' = InFlight \cup {w} /\ w \in Workers \ InFlight
    BY <1>1 DEF InFlight
  <2>2. InFlight \in SUBSET Workers
    BY DEF InFlight
  <2>3. Cardinality(InFlight') = Cardinality(InFlight) + 1
    BY <2>1, <2>2, WorkerSets
  <2>4. Cardinality(InFlight) \in Nat
    BY <2>2, WorkerSets
  <2> QED
    BY <1>1, <2>3, <2>4 DEF CallbackCount, TopAfterPop
<1> QED
  BY <1>2, <1>3, <1>4, <1>5, <1>6

\* The busy flag that is set was clear, because the number is the worker's own.
LEMMA SetBusyAccount ==
  ASSUME SyncInv, AccountInv, NEW w \in Workers, SetBusy(w)
  PROVE  AccountInv'
<1> USE DEF SetBusy, AccountInv,
           poolVars, listVars, workerVars, callerVars, ownerVars, histVars
<1>1. pc \in [Workers -> WorkerPC] /\ thread_state \in [Workers -> BOOLEAN]
  BY DEF SyncInv, TypeOK, WorkerPC
<1>2. CallbackCount' /\ InFlight' = InFlight
  BY <1>1, CountFrame
<1>3. RoundInv'
  BY <1>2 DEF RoundInv
<1>4. NumberInv'
  <2>1. Joined' = Joined /\ \A v \in Workers : Numbered(v)' <=> Numbered(v)
    BY <1>1 DEF Numbered, Joined
  <2> QED
    BY <2>1, NumberFrame
<1>5. FlagInv'
  <2>1. w \in InFlight
    BY <1>1 DEF InFlight
  <2>2. index[w] \in Workers
    BY <2>1, NumbersInRange
  <2>3. \A v \in Workers : pc'[v] \in {"busy", "callback"}
                             <=> pc[v] \in {"busy", "callback"} \/ v = w
    BY <1>1
  <2>4. \A i \in Workers : thread_state'[i] <=> i = index[w] \/ thread_state[i]
    BY <1>1, <2>2
  <2>5. ASSUME NEW i \in Workers
        PROVE  thread_state'[i] <=>
                 \E v \in Workers : pc'[v] \in {"busy", "callback"} /\ index'[v] = i
    BY <2>3, <2>4 DEF FlagInv
  <2> QED
    BY <2>5 DEF FlagInv
<1>6. OfferInv'
  BY OfferFrame
<1> QED
  BY <1>2, <1>3, <1>4, <1>5, <1>6

\* The callback begins.
LEMMA CallBackAccount ==
  ASSUME SyncInv, AccountInv, NEW w \in Workers, CallBack(w)
  PROVE  AccountInv'
<1> USE DEF CallBack, AccountInv,
           poolVars, listVars, workerVars, callerVars, ownerVars, histVars
<1>1. pc \in [Workers -> WorkerPC]
  BY DEF SyncInv, TypeOK, WorkerPC
<1>2. CallbackCount' /\ InFlight' = InFlight
  BY <1>1, CountFrame
<1>3. RoundInv'
  BY <1>2 DEF RoundInv
<1>4. NumberInv'
  <2>1. Joined' = Joined /\ \A v \in Workers : Numbered(v)' <=> Numbered(v)
    BY <1>1 DEF Numbered, Joined
  <2> QED
    BY <2>1, NumberFrame
<1>5. FlagInv'
  BY <1>1, FlagFrame
<1>6. OfferInv'
  BY OfferFrame
<1> QED
  BY <1>2, <1>3, <1>4, <1>5, <1>6

\* A finished callback is counted, and clears only the worker's own flag.
LEMMA ReturnAccount ==
  ASSUME SyncInv, AccountInv, NEW w \in Workers, Return(w)
  PROVE  AccountInv'
<1> USE DEF Return, AccountInv,
           poolVars, listVars, workerVars, callerVars, ownerVars, histVars
<1>1. /\ pc \in [Workers -> WorkerPC] /\ thread_state \in [Workers -> BOOLEAN]
      /\ top \in Nat /\ calls \in Nat
  BY DEF SyncInv, TypeOK, WorkerPC
<1>2. w \in InFlight /\ InFlight' = InFlight \ {w}
  BY <1>1 DEF InFlight
<1>3. RoundInv'
  BY <1>2 DEF RoundInv
<1>4. NumberInv'
  <2>1. Joined' = Joined /\ \A v \in Workers : Numbered(v)' <=> Numbered(v)
    BY <1>1 DEF Numbered, Joined
  <2> QED
    BY <2>1, NumberFrame
<1>5. FlagInv'
  <2>1. /\ index[w] \in Workers
        /\ \A v \in InFlight : index[v] = index[w] => v = w
    BY <1>2, NumbersInRange
  <2>2. \A v \in Workers : pc'[v] \in {"busy", "callback"}
                             <=> pc[v] \in {"busy", "callback"} /\ v # w
    BY <1>1
  <2>3. \A v \in Workers : pc[v] \in {"busy", "callback"} => v \in InFlight
    BY DEF InFlight
  <2>4. \A i \in Workers : thread_state'[i] <=> i # index[w] /\ thread_state[i]
    BY <1>1, <2>1 DEF Flag
  <2>5. ASSUME NEW i \in Workers
        PROVE  thread_state'[i] <=>
                 \E v \in Workers : pc'[v] \in {"busy", "callback"} /\ index'[v] = i
    BY <2>1, <2>2, <2>3, <2>4 DEF FlagInv
  <2> QED
    BY <2>5 DEF FlagInv
<1>6. OfferInv'
  BY OfferFrame
<1>7. CallbackCount'
  <2>1. InFlight \in SUBSET Workers
    BY DEF InFlight
  <2>2. Cardinality(InFlight') = Cardinality(InFlight) - 1
    BY <1>2, <2>1, WorkerSets
  <2>3. Cardinality(InFlight) \in Nat
    BY <2>1, WorkerSets
  <2> QED
    BY <1>1, <2>2, <2>3 DEF CallbackCount
<1> QED
  BY <1>3, <1>4, <1>5, <1>6, <1>7

\* A signal wakes a worker up, which changes no count: when a worker leaves,
LEMMA ExitAccount ==
  ASSUME SyncInv, AccountInv, NEW w \in Workers, Exit(w)
  PROVE  AccountInv'
<1> USE DEF AccountInv,
           poolVars, listVars, workerVars, callerVars, ownerVars, histVars
<1> DEFINE p == [pc EXCEPT ![w] = "exited"]
<1>1. /\ pc \in [Workers -> WorkerPC]
      /\ p \in [Workers -> WorkerPC] /\ Signal(p) /\ event \in BOOLEAN
  BY DEF SyncInv, TypeOK, WorkerPC, Exit, PassSignal
<1>2. /\ pc' \in [Workers -> WorkerPC]
      /\ \A v \in Workers : pc'[v] = p[v] \/ (pc[v] = "waiting" /\ pc'[v] = "lock")
  BY <1>1, SignalWakes
<1>3. CallbackCount' /\ InFlight' = InFlight
  BY <1>1, <1>2, CountFrame DEF Exit
<1>4. RoundInv'
  BY <1>3 DEF RoundInv, Exit
<1>5. NumberInv'
  <2>1. Joined' = Joined /\ \A v \in Workers : Numbered(v)' <=> Numbered(v)
    BY <1>1, <1>2 DEF Numbered, Joined, Exit
  <2> QED
    BY <2>1, NumberFrame DEF Exit
<1>6. FlagInv'
  BY <1>1, <1>2, FlagFrame DEF Exit
<1>7. OfferInv'
  BY OfferFrame DEF Exit
<1> QED
  BY <1>3, <1>4, <1>5, <1>6, <1>7

\* ... after a push ...
LEMMA EndPushAccount ==
  ASSUME SyncInv, AccountInv, NEW c \in Callers, EndPush(c)
  PROVE  AccountInv'
<1> USE DEF AccountInv,
           poolVars, listVars, workerVars, callerVars, ownerVars, histVars
<1> DEFINE p == pc
<1>1. /\ pc \in [Workers -> WorkerPC]
      /\ p \in [Workers -> WorkerPC] /\ Signal(p) /\ event \in BOOLEAN
  BY DEF SyncInv, TypeOK, WorkerPC, EndPush, PushSignal
<1>2. /\ pc' \in [Workers -> WorkerPC]
      /\ \A v \in Workers : pc'[v] = p[v] \/ (pc[v] = "waiting" /\ pc'[v] = "lock")
  BY <1>1, SignalWakes
<1>3. CallbackCount' /\ InFlight' = InFlight
  BY <1>1, <1>2, CountFrame DEF EndPush
<1>4. RoundInv'
  BY <1>3 DEF RoundInv, EndPush
<1>5. NumberInv'
  <2>1. Joined' = Joined /\ \A v \in Workers : Numbered(v)' <=> Numbered(v)
    BY <1>1, <1>2 DEF Numbered, Joined, EndPush
  <2> QED
    BY <2>1, NumberFrame DEF EndPush
<1>6. FlagInv'
  BY <1>1, <1>2, FlagFrame DEF EndPush
<1>7. OfferInv'
  BY DEF OfferInv, EndPush, SyncInv, TypeOK
<1> QED
  BY <1>3, <1>4, <1>5, <1>6, <1>7

\* ... and while the pool is stopped.
LEMMA StopSignalAccount ==
  ASSUME SyncInv, AccountInv, StopSignal
  PROVE  AccountInv'
<1> USE DEF AccountInv,
           poolVars, listVars, workerVars, callerVars, ownerVars, histVars
<1> DEFINE p == pc
<1>1. /\ pc \in [Workers -> WorkerPC]
      /\ p \in [Workers -> WorkerPC] /\ Signal(p) /\ event \in BOOLEAN
  BY DEF SyncInv, TypeOK, WorkerPC, StopSignal
<1>2. /\ pc' \in [Workers -> WorkerPC]
      /\ \A v \in Workers : pc'[v] = p[v] \/ (pc[v] = "waiting" /\ pc'[v] = "lock")
  BY <1>1, SignalWakes
<1>3. CallbackCount' /\ InFlight' = InFlight
  BY <1>1, <1>2, CountFrame DEF StopSignal
<1>4. RoundInv'
  BY <1>3 DEF RoundInv, StopSignal
<1>5. NumberInv'
  <2>1. Joined' = Joined /\ \A v \in Workers : Numbered(v)' <=> Numbered(v)
    BY <1>1, <1>2 DEF Numbered, Joined, StopSignal
  <2> QED
    BY <2>1, NumberFrame DEF StopSignal
<1>6. FlagInv'
  BY <1>1, <1>2, FlagFrame DEF StopSignal
<1>7. OfferInv'
  BY OfferFrame DEF StopSignal
<1> QED
  BY <1>3, <1>4, <1>5, <1>6, <1>7

\* A call offers a message nobody has offered before.
LEMMA BeginPushAccount ==
  ASSUME SyncInv, AccountInv, NEW c \in Callers, BeginPush(c)
  PROVE  AccountInv'
<1> USE DEF AccountInv,
           poolVars, listVars, workerVars, callerVars, ownerVars, histVars
<1>1. PICK m \in fresh : /\ fresh' = fresh \ {m}
                         /\ IF is_run
                            THEN /\ cpc' = [cpc EXCEPT ![c] = "push"]
                                 /\ cmsg' = [cmsg EXCEPT ![c] = m]
                            ELSE UNCHANGED <<cpc, cmsg>>
  BY DEF BeginPush
<1>2. CallbackCount' /\ InFlight' = InFlight
  BY CountFrame DEF BeginPush
<1>3. RoundInv'
  BY <1>2 DEF RoundInv, BeginPush
<1>4. NumberInv' /\ FlagInv'
  BY DEF BeginPush, NumberInv, Numbered, Joined, FlagInv
<1>5. OfferInv'
  <2>1. /\ cpc \in [Callers -> {"idle", "push", "signal"}]
        /\ cmsg \in [Callers -> Msgs \cup {NoMsg}]
    BY DEF SyncInv, TypeOK
  <2>2. CASE is_run
    BY <1>1, <2>1, <2>2 DEF OfferInv, BeginPush
  <2>3. CASE ~is_run
    BY <1>1, <2>1, <2>3 DEF OfferInv, BeginPush
  <2> QED
    BY <2>2, <2>3
<1> QED
  BY <1>2, <1>3, <1>4, <1>5

\* An accepted message is new, so the stack's top and the accepted messages are
\* counted up together; a refused one changes neither.
LEMMA PushAccount ==
  ASSUME SyncInv, AccountInv, NEW c \in Callers, Push(c)
  PROVE  AccountInv'
<1> USE DEF AccountInv,
           poolVars, listVars, workerVars, callerVars, ownerVars, histVars
<1>1. /\ cpc \in [Callers -> {"idle", "push", "signal"}]
      /\ cmsg \in [Callers -> Msgs \cup {NoMsg}]
      /\ accepted \in SUBSET Msgs /\ top \in Nat /\ calls \in Nat
  BY DEF SyncInv, TypeOK
<1>2. cmsg[c] \in Msgs \ accepted
  BY DEF Push, OfferInv, SyncInv, SlotInv
<1>3. RoundInv' /\ NumberInv' /\ FlagInv'
  BY DEF Push, RoundInv, InFlight, NumberInv, Numbered, Joined, FlagInv
<1>4. OfferInv'
  BY <1>1, <1>2 DEF Push, PushMsg, OfferInv
<1>5. CallbackCount'
  <2>1. InFlight' = InFlight
    BY DEF Push, InFlight
  <2>2. Cardinality(InFlight) \in Nat
    <3>1. InFlight \in SUBSET Workers
      BY DEF InFlight
    <3> QED
      BY <3>1, WorkerSets
  <2>3. CASE Room
    <3>1. top' = top + 1 /\ accepted' = accepted \cup {cmsg[c]}
      BY <2>3 DEF Push, PushMsg
    <3>2. Cardinality(accepted') = Cardinality(accepted) + 1
      BY <1>1, <1>2, <3>1, MessageSets
    <3> QED
      BY <1>1, <2>1, <2>2, <3>1, <3>2 DEF CallbackCount, Push
  <2>4. CASE ~Room
    BY <2>1, <2>4 DEF CallbackCount, Push, PushMsg
  <2> QED
    BY <2>3, <2>4
<1> QED
  BY <1>3, <1>4, <1>5

\* The first start finds every count at zero; a later one finds a stopped pool.
LEMMA StartAccount ==
  ASSUME SyncInv, AccountInv, Start
  PROVE  AccountInv'
<1> USE DEF Start, AccountInv,
           poolVars, listVars, workerVars, callerVars, ownerVars, histVars
<1>1. /\ pc \in [Workers -> WorkerPC] /\ index \in [Workers -> Nat]
      /\ oi \in 0 .. WorkerNum /\ starts \in Nat
  BY DEF SyncInv, TypeOK, WorkerPC
<1>2. CallbackCount' /\ InFlight' = InFlight
  BY <1>1, CountFrame
<1>3. RoundInv'
  BY <1>1, <1>2 DEF RoundInv, InFlight, SyncInv, OwnerInv
<1>4. NumberInv'
  <2> SUFFICES ASSUME starts' = 1 PROVE NumberInv'
    BY DEF NumberInv
  <2>1. starts = 0 /\ thread_index = 0
    BY <1>1 DEF RoundInv
  <2>2. \A w \in Workers : ~Numbered(w)'
    BY DEF Numbered, SyncInv, OwnerInv
  <2>3. ({w \in Workers : Numbered(w)} \cup Joined)' = {}
    BY <2>2 DEF Joined
  <2> QED
    BY <2>1, <2>2, <2>3, FS_EmptySet DEF NumberInv
<1>5. FlagInv'
  BY <1>1, FlagFrame
<1>6. OfferInv'
  BY OfferFrame
<1> QED
  BY <1>2, <1>3, <1>4, <1>5, <1>6

\* A created thread has no number yet.
LEMMA StartThreadAccount ==
  ASSUME SyncInv, AccountInv, StartThread
  PROVE  AccountInv'
<1> USE DEF StartThread, AccountInv,
           poolVars, listVars, workerVars, callerVars, ownerVars, histVars
<1>1. /\ pc \in [Workers -> WorkerPC] /\ index \in [Workers -> Nat]
      /\ oi \in 0 .. WorkerNum /\ starts \in Nat
  BY DEF SyncInv, TypeOK, WorkerPC
<1>2. CallbackCount' /\ InFlight' = InFlight
  BY <1>1, CountFrame DEF SyncInv, OwnerInv
<1>3. RoundInv'
  BY <1>1, <1>2 DEF RoundInv
<1>4. NumberInv'
  <2>1. Joined' = Joined /\ \A v \in Workers : Numbered(v)' <=> Numbered(v)
    BY <1>1 DEF Numbered, Joined, SyncInv, OwnerInv
  <2> QED
    BY <2>1, NumberFrame
<1>5. FlagInv'
  BY <1>1, FlagFrame DEF SyncInv, OwnerInv
<1>6. OfferInv'
  BY OfferFrame
<1> QED
  BY <1>2, <1>3, <1>4, <1>5, <1>6

\* thread_pool_wait changes no count,
LEMMA WaitAccount ==
  ASSUME SyncInv, AccountInv, Wait
  PROVE  AccountInv'
<1> USE DEF Wait, AccountInv,
           poolVars, listVars, workerVars, callerVars, ownerVars, histVars
<1>1. /\ pc \in [Workers -> WorkerPC] /\ index \in [Workers -> Nat]
      /\ oi \in 0 .. WorkerNum /\ starts \in Nat
  BY DEF SyncInv, TypeOK, WorkerPC
<1>2. CallbackCount' /\ InFlight' = InFlight
  BY <1>1, CountFrame
<1>3. RoundInv'
  BY <1>1, <1>2 DEF RoundInv
<1>4. NumberInv'
  <2>1. Joined' = Joined /\ \A v \in Workers : Numbered(v)' <=> Numbered(v)
    BY <1>1 DEF Numbered, Joined
  <2> QED
    BY <2>1, NumberFrame
<1>5. FlagInv'
  BY <1>1, FlagFrame
<1>6. OfferInv'
  BY OfferFrame
<1> QED
  BY <1>2, <1>3, <1>4, <1>5, <1>6

\* ... nor do its reads of the top
LEMMA ReadTopAccount ==
  ASSUME SyncInv, AccountInv, ReadTop
  PROVE  AccountInv'
<1> USE DEF ReadTop, AccountInv,
           poolVars, listVars, workerVars, callerVars, ownerVars, histVars
<1>1. /\ pc \in [Workers -> WorkerPC] /\ index \in [Workers -> Nat]
      /\ oi \in 0 .. WorkerNum /\ starts \in Nat
  BY DEF SyncInv, TypeOK, WorkerPC
<1>2. CallbackCount' /\ InFlight' = InFlight
  BY <1>1, CountFrame
<1>3. RoundInv'
  BY <1>1, <1>2 DEF RoundInv
<1>4. NumberInv'
  <2>1. Joined' = Joined /\ \A v \in Workers : Numbered(v)' <=> Numbered(v)
    BY <1>1 DEF Numbered, Joined
  <2> QED
    BY <2>1, NumberFrame
<1>5. FlagInv'
  BY <1>1, FlagFrame
<1>6. OfferInv'
  BY OfferFrame
<1> QED
  BY <1>2, <1>3, <1>4, <1>5, <1>6

\* ... and of the flags.
LEMMA ScanFlagAccount ==
  ASSUME SyncInv, AccountInv, ScanFlag
  PROVE  AccountInv'
<1> USE DEF ScanFlag, AccountInv,
           poolVars, listVars, workerVars, callerVars, ownerVars, histVars
<1>1. /\ pc \in [Workers -> WorkerPC] /\ index \in [Workers -> Nat]
      /\ oi \in 0 .. WorkerNum /\ starts \in Nat
  BY DEF SyncInv, TypeOK, WorkerPC
<1>2. CallbackCount' /\ InFlight' = InFlight
  BY <1>1, CountFrame
<1>3. RoundInv'
  BY <1>1, <1>2 DEF RoundInv
<1>4. NumberInv'
  <2>1. Joined' = Joined /\ \A v \in Workers : Numbered(v)' <=> Numbered(v)
    BY <1>1 DEF Numbered, Joined
  <2> QED
    BY <2>1, NumberFrame
<1>5. FlagInv'
  BY <1>1, FlagFrame
<1>6. OfferInv'
  BY OfferFrame
<1> QED
  BY <1>2, <1>3, <1>4, <1>5, <1>6

\* Stopping the pool ends its first round.
LEMMA StopAccount ==
  ASSUME SyncInv, AccountInv, Stop
  PROVE  AccountInv'
<1> USE DEF Stop, AccountInv,
           poolVars, listVars, workerVars, callerVars, ownerVars, histVars
<1>1. /\ pc \in [Workers -> WorkerPC] /\ index \in [Workers -> Nat]
      /\ oi \in 0 .. WorkerNum /\ starts \in Nat
  BY DEF SyncInv, TypeOK, WorkerPC
<1>2. CallbackCount' /\ InFlight' = InFlight
  BY <1>1, CountFrame
<1>3. RoundInv'
  BY <1>1, <1>2 DEF RoundInv
<1>4. NumberInv'
  <2>1. Joined' = Joined /\ \A v \in Workers : Numbered(v)' <=> Numbered(v)
    BY <1>1 DEF Numbered, Joined
  <2> QED
    BY <2>1, NumberFrame
<1>5. FlagInv'
  BY <1>1, FlagFrame
<1>6. OfferInv'
  BY OfferFrame
<1> QED
  BY <1>2, <1>3, <1>4, <1>5, <1>6

\* A joined thread keeps its number taken until the last one is joined.
LEMMA StopJoinAccount ==
  ASSUME SyncInv, AccountInv, StopJoin
  PROVE  AccountInv'
<1> USE DEF StopJoin, AccountInv,
           poolVars, listVars, workerVars, callerVars, ownerVars, histVars
<1>1. /\ pc \in [Workers -> WorkerPC] /\ index \in [Workers -> Nat]
      /\ oi \in Workers /\ pc[oi] = "exited"
  BY DEF SyncInv, TypeOK, WorkerPC, OwnerInv, Joinable
<1>2. \A w \in Workers : /\ pc'[w] = IF w = oi THEN "idle" ELSE pc[w]
                         /\ index'[w] = IF w = oi THEN 0 ELSE index[w]
  BY <1>1
<1>3. CallbackCount' /\ InFlight' = InFlight
  BY <1>1, <1>2, CountFrame
<1>4. RoundInv'
  <2>1. ~is_run /\ opc # "idle"
    BY DEF SyncInv, OwnerInv
  <2> QED
    BY <1>3, <2>1 DEF RoundInv
<1>5. NumberInv'
  <2>1. CASE oi + 1 = WorkerNum
    BY <2>1 DEF NumberInv
  <2>2. CASE oi + 1 # WorkerNum
    <3>1. ({w \in Workers : Numbered(w)} \cup Joined)'
            = {w \in Workers : Numbered(w)} \cup Joined
      BY <1>1, <1>2, <2>2 DEF Numbered, Joined
    <3>2. \A w \in Workers : Numbered(w)' => Numbered(w) /\ index'[w] = index[w]
      BY <1>1, <1>2 DEF Numbered
    <3> QED
      BY <3>1, <3>2 DEF NumberInv
  <2> QED
    BY <2>1, <2>2
<1>6. FlagInv'
  <2>1. \A w \in Workers :
          /\ pc'[w] \in {"busy", "callback"} <=> pc[w] \in {"busy", "callback"}
          /\ pc[w] \in {"busy", "callback"} => index'[w] = index[w]
    BY <1>1, <1>2
  <2> QED
    BY <2>1 DEF FlagInv
<1>7. OfferInv'
  BY OfferFrame
<1> QED
  BY <1>3, <1>4, <1>5, <1>6, <1>7

\* thread_pool_delete changes no count.
LEMMA DeleteAccount ==
  ASSUME SyncInv, AccountInv, Delete
  PROVE  AccountInv'
<1> USE DEF Delete, AccountInv,
           poolVars, listVars, workerVars, callerVars, ownerVars, histVars
<1>1. /\ pc \in [Workers -> WorkerPC] /\ index \in [Workers -> Nat]
      /\ oi \in 0 .. WorkerNum /\ starts \in Nat
  BY DEF SyncInv, TypeOK, WorkerPC
<1>2. CallbackCount' /\ InFlight' = InFlight
  BY <1>1, CountFrame
<1>3. RoundInv'
  BY <1>1, <1>2 DEF RoundInv
<1>4. NumberInv'
  <2>1. Joined' = Joined /\ \A v \in Workers : Numbered(v)' <=> Numbered(v)
    BY <1>1 DEF Numbered, Joined
  <2> QED
    BY <2>1, NumberFrame
<1>5. FlagInv'
  BY <1>1, FlagFrame
<1>6. OfferInv'
  BY OfferFrame
<1> QED
  BY <1>2, <1>3, <1>4, <1>5, <1>6

-----------------------------------------------------------------------------
\* A step that changes nothing keeps the accounting.
LEMMA StutterAccount ==
  ASSUME AccountInv, UNCHANGED vars PROVE AccountInv'
<1> USE DEF AccountInv, vars,
           poolVars, listVars, workerVars, callerVars, ownerVars, histVars
<1>1. RoundInv' /\ FlagInv' /\ OfferInv'
  BY DEF RoundInv, InFlight, FlagInv, OfferInv
<1>2. NumberInv' /\ CallbackCount'
  BY DEF NumberInv, Numbered, Joined, CallbackCount, InFlight
<1> QED
  BY <1>1, <1>2

\* Every step keeps the whole invariant.
LEMMA NextIInv == IInv /\ [Next]_vars => IInv'
<1> SUFFICES ASSUME SyncInv, AccountInv, [Next]_vars PROVE SyncInv' /\ AccountInv'
  BY DEF IInv
<1>1. ASSUME NEW w \in Workers, WorkerStep(w) \/ SpuriousWake(w) PROVE AccountInv'
  BY <1>1, TakeIndexAccount, FindEmptyAccount, CondWaitAccount,
     ConsumeEventAccount, PopAccount, SetBusyAccount, CallBackAccount,
     ReturnAccount, SeeStopAccount, ExitAccount, SpuriousWakeAccount
     DEF WorkerStep
<1>2. ASSUME NEW c \in Callers, BeginPush(c) \/ CallerStep(c) PROVE AccountInv'
  BY <1>2, BeginPushAccount, PushAccount, EndPushAccount DEF CallerStep
<1>3. ASSUME OwnerStep \/ Start \/ Wait \/ Stop \/ Delete PROVE AccountInv'
  BY <1>3, StartThreadAccount, ReadTopAccount, ScanFlagAccount,
     StopSignalAccount, StopJoinAccount, StartAccount, WaitAccount, StopAccount,
     DeleteAccount DEF OwnerStep
<1>4. ASSUME UNCHANGED vars PROVE AccountInv'
  BY <1>4, StutterAccount
<1>5. AccountInv'
  BY <1>1, <1>2, <1>3, <1>4 DEF Next
<1> QED
  BY <1>5, NextInv

\* The whole inductive invariant holds in every state of the pool.
THEOREM WholeInvariance == Spec => []IInv
<1>1. Init => IInv
  BY InitInv, InitAccount DEF IInv
<1> QED
  BY <1>1, NextIInv, PTL DEF Spec

\* Pushed messages = queued + in flight + callbacks done: no message is dropped
\* and none costs two callbacks, whatever the threads do between pop and call.
THEOREM CallbacksCounted == Spec => []CallbackCount
<1>1. IInv => CallbackCount
  BY DEF IInv, AccountInv
<1> QED
  BY <1>1, WholeInvariance, PTL

\* The busy flags are written without a lock, each by one worker only, and no
\* worker writes outside work_thread_state, over restarts too.
THEOREM FlagsNeverCollide == Spec => []BusyFlagsExact
<1>1. ASSUME IInv PROVE BusyFlagsExact
  <2>1. \A w \in InFlight : /\ index[w] \in Workers
                            /\ \A v \in InFlight : index[v] = index[w] => v = w
    BY <1>1, NumbersInRange DEF IInv, AccountInv
  <2>2. ASSUME NEW i \in Workers PROVE Cardinality(Flagged(i)) <= 1
    <3>1. \A v, w \in Flagged(i) : v = w
      BY <2>1 DEF Flagged, InFlight
    <3>2. Flagged(i) = {} \/ \E w \in Workers : Flagged(i) = {w}
      BY <3>1 DEF Flagged
    <3>3. Cardinality(Flagged(i)) \in {0, 1}
      BY <3>2, FS_EmptySet, FS_Singleton
    <3> QED
      BY <3>3
  <2>3. ASSUME NEW i \in Workers PROVE thread_state[i] <=> Flagged(i) # {}
    BY <1>1 DEF IInv, AccountInv, FlagInv, Flagged
  <2> QED
    BY <2>1, <2>2, <2>3 DEF BusyFlagsExact
<1> QED
  BY <1>1, WholeInvariance, PTL

-----------------------------------------------------------------------------
(***************************************************************************)
(* Refinement: every step of the pool is a step of WorkPool or none.       *)
(***************************************************************************)

\* A step that neither opens nor closes the pool and moves no message is a
\* stuttering step of WorkPool.
LEMMA AbsStutter ==
  ASSUME UNCHANGED <<is_run, accepted, top, calls>>, InFlight' = InFlight,
         \A w \in Workers : pc'[w] = "idle" <=> pc[w] = "idle"
  PROVE  UNCHANGED Abs!vars
<1>1. Phase' = Phase
  BY DEF Phase
<1> QED
  BY <1>1 DEF Abs!vars

LEMMA InitRefines == Init => Abs!Init
<1> SUFFICES ASSUME Init PROVE Abs!Init
  OBVIOUS
<1>1. Phase = "new" /\ InFlight = {}
  BY DEF Init, Phase, InFlight
<1>2. Cardinality(accepted) = 0
  BY FS_EmptySet DEF Init
<1> QED
  BY <1>1, <1>2 DEF Init, Abs!Init

\* A pop takes a message, the end of a callback finishes it, and everything else
\* a worker does is invisible.
LEMMA WorkerRefines ==
  ASSUME IInv, NEW w \in Workers, WorkerStep(w) \/ SpuriousWake(w)
  PROVE  [Abs!Next]_(Abs!vars)
<1> USE DEF poolVars, listVars, workerVars, callerVars, ownerVars, histVars
<1>1. pc \in [Workers -> WorkerPC] /\ top \in Nat /\ event \in BOOLEAN
  BY DEF IInv, SyncInv, TypeOK, WorkerPC
<1>2. CASE Pop(w)
  <2>1. Phase = "open" /\ Phase' = "open"
    BY <1>1, <1>2 DEF Pop, Phase
  <2>2. InFlight' = InFlight \cup {w} /\ w \notin InFlight
    BY <1>1, <1>2 DEF Pop, InFlight
  <2>3. Abs!Take(w)
    BY <1>1, <1>2, <2>1, <2>2 DEF Pop, TopAfterPop, Abs!Take
  <2> QED
    BY <2>3 DEF Abs!Next
<1>3. CASE Return(w)
  <2>1. Phase' = Phase
    BY <1>1, <1>3 DEF Return, Phase
  <2>2. InFlight' = InFlight \ {w} /\ w \in InFlight
    BY <1>1, <1>3 DEF Return, InFlight
  <2>3. Abs!Finish(w)
    BY <1>3, <2>1, <2>2 DEF Return, Abs!Finish
  <2> QED
    BY <2>3 DEF Abs!Next
<1>4. CASE Exit(w)
  <2> DEFINE p == [pc EXCEPT ![w] = "exited"]
  <2>1. p \in [Workers -> WorkerPC] /\ Signal(p)
    BY <1>1, <1>4 DEF Exit, PassSignal, WorkerPC
  <2>2. \A v \in Workers : pc'[v] = p[v] \/ (pc[v] = "waiting" /\ pc'[v] = "lock")
    BY <1>1, <2>1, SignalWakes
  <2>3. \A v \in Workers : pc'[v] = "idle" <=> pc[v] = "idle"
    BY <1>1, <1>4, <2>2 DEF Exit
  <2>4. InFlight' = InFlight
    BY <1>1, <1>4, <2>2 DEF Exit, InFlight
  <2> QED
    BY <1>4, <2>3, <2>4, AbsStutter DEF Exit
<1>5. CASE \/ TakeIndex(w) \/ FindEmpty(w) \/ CondWait(w) \/ ConsumeEvent(w)
           \/ SetBusy(w) \/ CallBack(w) \/ SeeStop(w) \/ SpuriousWake(w)
  <2>1. /\ UNCHANGED <<is_run, accepted, top, calls>>
        /\ \E from, to \in WorkerPC :
             /\ pc[w] = from /\ pc' = [pc EXCEPT ![w] = to]
             /\ from # "idle" /\ to # "idle"
             /\ from \in {"popped", "busy", "callback"}
                  <=> to \in {"popped", "busy", "callback"}
    BY <1>5 DEF TakeIndex, FindEmpty, CondWait, ConsumeEvent, SetBusy, CallBack,
                SeeStop, SpuriousWake, WorkerPC
  <2>2. \A v \in Workers : pc'[v] = "idle" <=> pc[v] = "idle"
    BY <1>1, <2>1
  <2>3. InFlight' = InFlight
    BY <1>1, <2>1 DEF InFlight
  <2> QED
    BY <2>1, <2>2, <2>3, AbsStutter
<1> QED
  BY <1>2, <1>3, <1>4, <1>5 DEF WorkerStep

\* An accepted push is a submission; its other steps are invisible.
LEMMA CallerRefines ==
  ASSUME IInv, NEW c \in Callers, BeginPush(c) \/ CallerStep(c)
  PROVE  [Abs!Next]_(Abs!vars)
<1> USE DEF poolVars, listVars, workerVars, callerVars, ownerVars, histVars
<1>1. /\ pc \in [Workers -> WorkerPC] /\ top \in Nat /\ event \in BOOLEAN
      /\ accepted \in SUBSET Msgs
  BY DEF IInv, SyncInv, TypeOK, WorkerPC
<1>2. CASE BeginPush(c)
  <2>1. InFlight' = InFlight
    BY <1>2 DEF BeginPush, InFlight
  <2> QED
    BY <1>2, <2>1, AbsStutter DEF BeginPush
<1>3. CASE Push(c) /\ Room
  <2>1. Phase' = Phase /\ InFlight' = InFlight
    BY <1>3 DEF Push, Phase, InFlight
  <2>2. cmsg[c] \in Msgs \ accepted
    BY <1>3 DEF Push, IInv, AccountInv, OfferInv, SyncInv, SlotInv
  <2>3. top' = top + 1 /\ accepted' = accepted \cup {cmsg[c]}
    BY <1>3 DEF Push, PushMsg
  <2>4. Cardinality(accepted') = Cardinality(accepted) + 1
    BY <1>1, <2>2, <2>3, MessageSets
  <2>5. Abs!Submit
    BY <1>3, <2>1, <2>3, <2>4 DEF Push, Room, Abs!Submit
  <2> QED
    BY <2>5 DEF Abs!Next
<1>4. CASE Push(c) /\ ~Room
  <2>1. InFlight' = InFlight
    BY <1>4 DEF Push, InFlight
  <2> QED
    BY <1>4, <2>1, AbsStutter DEF Push, PushMsg
<1>5. CASE EndPush(c)
  <2>1. pc \in [Workers -> WorkerPC] /\ Signal(pc)
    BY <1>1, <1>5 DEF EndPush, PushSignal
  <2>2. \A v \in Workers : pc'[v] = pc[v] \/ (pc[v] = "waiting" /\ pc'[v] = "lock")
    BY <1>1, <2>1, SignalWakes
  <2>3. InFlight' = InFlight
    BY <2>2 DEF InFlight
  <2> QED
    BY <1>5, <2>2, <2>3, AbsStutter DEF EndPush
<1> QED
  BY <1>2, <1>3, <1>4, <1>5 DEF CallerStep

\* The first thread created opens the pool, thread_pool_stop and _delete close it.
LEMMA OwnerRefines ==
  ASSUME IInv, OwnerStep \/ Start \/ Wait \/ Stop \/ Delete
  PROVE  [Abs!Next]_(Abs!vars)
<1> USE DEF poolVars, listVars, workerVars, callerVars, ownerVars, histVars
<1>1. /\ pc \in [Workers -> WorkerPC] /\ event \in BOOLEAN /\ is_run \in BOOLEAN
  BY DEF IInv, SyncInv, TypeOK, WorkerPC
<1>2. CASE StartThread
  <2>1. oi \in Workers /\ pc[oi] = "idle"
    BY <1>2 DEF StartThread, IInv, SyncInv, TypeOK, OwnerInv
  <2>2. InFlight' = InFlight
    BY <1>1, <1>2, <2>1 DEF StartThread, InFlight
  <2>3. UNCHANGED <<is_run, accepted, top, calls>>
    BY <1>2 DEF StartThread
  <2>4. CASE Phase = "new"
    <3>1. Phase' = "open"
      BY <1>1, <1>2, <2>1, <2>4 DEF StartThread, Phase
    <3>2. Abs!Open
      BY <2>2, <2>3, <2>4, <3>1 DEF Abs!Open
    <3> QED
      BY <3>2 DEF Abs!Next
  <2>5. CASE Phase # "new"
    <3>1. Phase' = Phase
      BY <1>1, <1>2, <2>1, <2>5 DEF StartThread, Phase
    <3> QED
      BY <2>2, <2>3, <3>1 DEF Abs!vars
  <2> QED
    BY <2>4, <2>5
<1>3. CASE Stop \/ Delete
  <2>1. InFlight' = InFlight /\ UNCHANGED <<accepted, top, calls>>
    BY <1>3 DEF Stop, Delete, InFlight
  <2>2. Phase' = "closed"
    BY <1>3 DEF Stop, Delete, Phase
  <2>3. CASE Phase = "closed"
    BY <2>1, <2>2, <2>3 DEF Abs!vars
  <2>4. CASE Phase # "closed"
    <3>1. Abs!Close
      BY <2>1, <2>2, <2>4 DEF Abs!Close
    <3> QED
      BY <3>1 DEF Abs!Next
  <2> QED
    BY <2>3, <2>4
<1>4. CASE StopSignal
  <2>1. pc \in [Workers -> WorkerPC] /\ Signal(pc)
    BY <1>1, <1>4 DEF StopSignal
  <2>2. \A v \in Workers : pc'[v] = pc[v] \/ (pc[v] = "waiting" /\ pc'[v] = "lock")
    BY <1>1, <2>1, SignalWakes
  <2>3. InFlight' = InFlight
    BY <2>2 DEF InFlight
  <2> QED
    BY <1>4, <2>2, <2>3, AbsStutter DEF StopSignal
<1>5. CASE StopJoin
  <2>1. oi \in Workers /\ pc[oi] = "exited" /\ ~is_run
    BY <1>5 DEF StopJoin, Joinable, IInv, SyncInv, TypeOK, OwnerInv
  <2>2. InFlight' = InFlight
    BY <1>1, <1>5, <2>1 DEF StopJoin, InFlight
  <2>3. Phase' = Phase
    BY <1>5, <2>1 DEF StopJoin, Phase
  <2> QED
    BY <1>5, <2>2, <2>3 DEF StopJoin, Abs!vars
<1>6. CASE Start \/ Wait \/ ReadTop \/ ScanFlag
  <2>1. InFlight' = InFlight /\ UNCHANGED <<is_run, accepted, top, calls, pc>>
    BY <1>6 DEF Start, Wait, ReadTop, ScanFlag, InFlight
  <2> QED
    BY <2>1, AbsStutter
<1> QED
  BY <1>2, <1>3, <1>4, <1>5, <1>6 DEF OwnerStep

\* The pool implements WorkPool: whatever the interleaving, each accepted message
\* is taken once, by an idle worker of an open pool, and finished once.
THEOREM RefinesWorkPool == Spec => Abs!SafeSpec
<1>1. IInv /\ [Next]_vars => [Abs!Next]_(Abs!vars)
  <2> SUFFICES ASSUME IInv, [Next]_vars PROVE [Abs!Next]_(Abs!vars)
    OBVIOUS
  <2>1. CASE UNCHANGED vars
    <3>1. InFlight' = InFlight
      BY <2>1 DEF vars, workerVars, InFlight
    <3> QED
      BY <2>1, <3>1, AbsStutter DEF vars, poolVars, listVars, histVars, workerVars
  <2> QED
    BY <2>1, WorkerRefines, CallerRefines, OwnerRefines DEF Next
<1> QED
  BY <1>1, InitRefines, WholeInvariance, PTL DEF Spec, Abs!SafeSpec
=============================================================================
