----------------------------- MODULE TimeAction -----------------------------
(***************************************************************************)
(* common/timeaction.c: a manager of one-shot timers, driven by one thread *)
(* that calls timeaction_mgr_schedule again and again; callbacks may add   *)
(* and delete timers themselves.  The binary search of                     *)
(* timeaction_mgr_compositor is modelled comparison by comparison, because *)
(* it does not always end.  Time is counted truly in clock; the code sees  *)
(* it modulo Wrap, the range of getnowtime's unsigned int.                 *)
(***************************************************************************)
EXTENDS Integers, Sequences, FiniteSets

CONSTANTS Timers,     \* the timers offered, each in one call of add
          Delays,     \* the delays asked for; add refuses one below 1
          StartNodes, \* num of timeaction_mgr_new
          MaxNodes,   \* bound: beyond it the malloc of timeaction_mgr_init fails
          MaxTime,    \* bound of clock
          Wrap,       \* getnowtime counts modulo Wrap
          NoTimer

ASSUME TimeAssumption ==
  /\ StartNodes \in Nat \ {0}
  /\ MaxNodes \in Nat /\ StartNodes <= MaxNodes
  /\ Delays \subseteq Nat \ {0}
  /\ MaxTime \in Nat
  /\ Wrap \in Nat \ {0}
  /\ NoTimer \notin Timers

ERROR_COMPOSITOR_INDEX == -1
Ids == 0 .. MaxNodes - 1

VARIABLES
  node_num, free_node_ids,           \* fields of timeaction_mgr_s
  compositor_list, compositor_start, compositor_num,
  left_time, callback, arg,          \* node_array; callback: is it not NULL
  clock,                             \* true time, in milliseconds
  pc,                                \* where the thread is
  back, cur, low, high,              \* add: where it returns to, its locals
  now,                               \* schedule: the clock when it read now
  fresh, handle, due,                \* history: timers not offered yet, id
                                     \* returned and true deadline of the others
  fired, cleared,                    \* history: timers called back, timers
                                     \* a del disarmed
  filled                             \* history: since the last growth every
                                     \* node was pending at once

nodeVars == <<left_time, callback, arg>>
listVars == <<compositor_list, compositor_start, compositor_num>>
addVars  == <<back, cur, low, high>>
histVars == <<fresh, handle, due, fired, cleared, filled>>
vars == <<node_num, free_node_ids, listVars, nodeVars, clock, pc, addVars, now,
          histVars>>

\* The part of compositor_list in use, and the ids it holds.
Window  == compositor_start .. compositor_start + compositor_num - 1
Pending == {compositor_list[i] : i \in Window}
HeadId  == compositor_list[compositor_start]
-----------------------------------------------------------------------------
(* timeaction_mgr_new.  The ids are pushed in order, the last one on top. *)
Init ==
  /\ node_num = StartNodes
  /\ free_node_ids = [i \in 1 .. StartNodes |-> i - 1]
  /\ compositor_list = [i \in Ids |-> ERROR_COMPOSITOR_INDEX]
  /\ compositor_start = 0
  /\ compositor_num = 0
  /\ left_time = [i \in Ids |-> 0]
  /\ callback = [i \in Ids |-> FALSE]
  /\ arg = [i \in Ids |-> NoTimer]
  /\ clock = 0
  /\ pc = "idle"
  /\ back = "idle"
  /\ cur = 0
  /\ low = 0
  /\ high = 0
  /\ now = 0
  /\ fresh = Timers
  /\ handle = [t \in Timers |-> ERROR_COMPOSITOR_INDEX]
  /\ due = [t \in Timers |-> 0]
  /\ fired = {}
  /\ cleared = {}
  /\ filled = FALSE

Tick ==
  /\ clock < MaxTime
  /\ clock' = clock + 1
  /\ UNCHANGED <<node_num, free_node_ids, listVars, nodeVars, pc, addVars, now,
                 histVars>>

(***************************************************************************)
(* timeaction_mgr_add, called by the program or from inside a callback.    *)
(***************************************************************************)
Deadline_Unwrapped(d) == clock + d
Deadline(d) == (d + (clock % Wrap)) % Wrap

\* Take the id on top of the stack ids, fill in its node, begin the search.
TakeNode(ids, t, d) ==
  LET id == ids[Len(ids)] IN
  /\ free_node_ids' = SubSeq(ids, 1, Len(ids) - 1)
  /\ callback' = [callback EXCEPT ![id] = TRUE]
  /\ arg' = [arg EXCEPT ![id] = t]
  /\ left_time' = [left_time EXCEPT ![id] = Deadline(d)]
  /\ low' = 0
  /\ high' = compositor_num - 1
  /\ cur' = id
  /\ back' = pc
  /\ pc' = "search"
  /\ handle' = [handle EXCEPT ![t] = id]
  /\ due' = [due EXCEPT ![t] = clock + d]

\* timeaction_mgr_init doubles the nodes: the ids of the new half.
GrownIds_Old == [i \in 1 .. node_num |-> i - 1]
GrownIds == [i \in 1 .. node_num |-> node_num + i - 1]

Grow ==
  /\ 2 * node_num <= MaxNodes
  /\ node_num' = 2 * node_num
  /\ filled' = FALSE

\* With no node left and no memory for more, add returns -1.
BeginAdd(t, d) ==
  /\ pc \in {"idle", "callback"}
  /\ t \in fresh
  /\ fresh' = fresh \ {t}
  /\ \/ /\ free_node_ids # <<>>
        /\ TakeNode(free_node_ids, t, d)
        /\ UNCHANGED <<node_num, filled>>
     \/ /\ free_node_ids = <<>>
        /\ Grow
        /\ TakeNode(GrownIds, t, d)
     \/ /\ free_node_ids = <<>>
        /\ UNCHANGED <<node_num, free_node_ids, nodeVars, pc, addVars, handle,
                       due, filled>>
  /\ UNCHANGED <<listVars, clock, now, fired, cleared>>

\* One comparison of the binary search.  When the new deadline is the earlier
\* one the code sets high to middle + 1, so high never drops below low.
Middle == (low + high) \div 2
Earlier == left_time[cur] < left_time[compositor_list[compositor_start + Middle]]
NewLow_Middle == Middle
NewLow == Middle + 1
NewHigh_Below == Middle - 1
NewHigh == Middle + 1

Compare ==
  /\ pc = "search"
  /\ low <= high
  /\ IF Earlier THEN high' = NewHigh /\ low' = low
                ELSE low' = NewLow /\ high' = high
  /\ UNCHANGED <<node_num, free_node_ids, listVars, nodeVars, clock, pc, back,
                 cur, now, histVars>>

\* cur inserted behind the first pos entries of the window.
Insert_Front(pos) ==
  [i \in Ids |-> IF i = compositor_start THEN cur
                 ELSE IF i \in Window \cup {compositor_start + compositor_num}
                      THEN compositor_list[i - 1]
                      ELSE compositor_list[i]]
Insert(pos) ==
  [i \in Ids |-> IF i = compositor_start + pos THEN cur
                 ELSE IF i > compositor_start + pos
                         /\ i <= compositor_start + compositor_num
                      THEN compositor_list[i - 1]
                      ELSE compositor_list[i]]

\* When the window has reached the end of the array it is moved to the front.
Compacted_Short(list, num) ==
  [i \in Ids |-> IF i < num - 1 THEN list[compositor_start + i]
                                ELSE ERROR_COMPOSITOR_INDEX]
Compacted(list, num) ==
  [i \in Ids |-> IF i < num THEN list[compositor_start + i]
                            ELSE ERROR_COMPOSITOR_INDEX]

AtEnd_Never(num) == FALSE
AtEnd(num) == num + compositor_start = node_num

EndAdd ==
  /\ pc = "search"
  /\ low > high
  /\ compositor_start + compositor_num < node_num
  /\ LET list == Insert(high + 1)
         num  == compositor_num + 1
     IN /\ compositor_num' = num
        /\ IF AtEnd(num)
           THEN /\ compositor_list' = Compacted(list, num)
                /\ compositor_start' = 0
           ELSE /\ compositor_list' = list
                /\ compositor_start' = compositor_start
        /\ filled' = (filled \/ num = node_num)
  /\ pc' = back
  /\ back' = "idle" /\ cur' = 0 /\ low' = 0 /\ high' = 0
  /\ UNCHANGED <<node_num, free_node_ids, nodeVars, clock, now, fresh, handle,
                 due, fired, cleared>>

\* The window already ends at the end of the array, the state firing leaves
\* behind when all nodes were pending: the insertion writes past the array.
\* What the program does after that is undefined, and the model stops here.
Overrun ==
  /\ pc = "search"
  /\ low > high
  /\ compositor_start + compositor_num >= node_num
  /\ pc' = "overrun"
  /\ UNCHANGED <<node_num, free_node_ids, listVars, nodeVars, clock, addVars,
                 now, histVars>>

(***************************************************************************)
(* timeaction_mgr_del: the node is only disarmed, and by its id, whichever *)
(* timer that id stands for by now.                                        *)
(***************************************************************************)
DelId(t) == handle[t]

Del(t) ==
  /\ pc \in {"idle", "callback"}
  /\ DelId(t) >= 0 /\ DelId(t) < node_num
  /\ callback' = [callback EXCEPT ![DelId(t)] = FALSE]
  /\ cleared' = IF DelId(t) \in Pending /\ callback[DelId(t)]
                THEN cleared \cup {arg[DelId(t)]} ELSE cleared
  /\ UNCHANGED <<node_num, free_node_ids, listVars, left_time, arg, clock, pc,
                 addVars, now, fresh, handle, due, fired, filled>>

(***************************************************************************)
(* timeaction_mgr_schedule.                                                *)
(***************************************************************************)
BeginSchedule ==
  /\ pc = "idle"
  /\ now' = clock
  /\ pc' = "schedule"
  /\ UNCHANGED <<node_num, free_node_ids, listVars, nodeVars, clock, addVars,
                 histVars>>

\* timeaction_mgr_erase
NextStart == IF compositor_start + 1 = node_num THEN 0 ELSE compositor_start + 1

Erase ==
  /\ compositor_list' =
       [compositor_list EXCEPT ![compositor_start] = ERROR_COMPOSITOR_INDEX]
  /\ compositor_start' = NextStart
  /\ compositor_num' = compositor_num - 1
  /\ free_node_ids' = Append(free_node_ids, HeadId)

\* A disarmed timer at the head is taken out, due or not.
DropDeleted ==
  /\ pc = "schedule"
  /\ HeadId # ERROR_COMPOSITOR_INDEX /\ ~callback[HeadId]
  /\ Erase
  /\ UNCHANGED <<node_num, nodeVars, clock, pc, addVars, now, histVars>>

NotYet_Never(id) == FALSE
NotYet(id) == left_time[id] > (now % Wrap)

\* The node is free again before its callback runs.
Fire ==
  /\ pc = "schedule"
  /\ HeadId # ERROR_COMPOSITOR_INDEX /\ callback[HeadId] /\ ~NotYet(HeadId)
  /\ Erase
  /\ fired' = fired \cup {arg[HeadId]}
  /\ pc' = "callback"
  /\ UNCHANGED <<node_num, nodeVars, clock, addVars, now, fresh, handle, due,
                 cleared, filled>>

EndCallback ==
  /\ pc = "callback"
  /\ pc' = "schedule"
  /\ UNCHANGED <<node_num, free_node_ids, listVars, nodeVars, clock, addVars,
                 now, histVars>>

EndSchedule ==
  /\ pc = "schedule"
  /\ HeadId # ERROR_COMPOSITOR_INDEX => callback[HeadId] /\ NotYet(HeadId)
  /\ now' = 0
  /\ pc' = "idle"
  /\ UNCHANGED <<node_num, free_node_ids, listVars, nodeVars, clock, addVars,
                 histVars>>
-----------------------------------------------------------------------------
AddStep      == Compare \/ EndAdd \/ Overrun
ScheduleStep == BeginSchedule \/ DropDeleted \/ Fire \/ EndCallback \/ EndSchedule

Next ==
  \/ Tick
  \/ \E t \in Timers : Del(t) \/ \E d \in Delays : BeginAdd(t, d)
  \/ AddStep \/ ScheduleStep

Spec == Init /\ [][Next]_vars

\* The thread runs: a search goes on, schedule is called for ever (the loop of
\* a main program) and callbacks return.  Time passes.  Nobody has to add or
\* delete a timer.
FairSpec == Spec /\ WF_vars(AddStep) /\ WF_vars(ScheduleStep) /\ WF_vars(Tick)
-----------------------------------------------------------------------------
\* Types of the state.
TypeOK ==
  /\ node_num \in 1 .. MaxNodes
  /\ free_node_ids \in Seq(Ids)
  /\ compositor_list \in [Ids -> Ids \cup {ERROR_COMPOSITOR_INDEX}]
  /\ compositor_start \in Ids
  /\ compositor_num \in 0 .. MaxNodes
  /\ left_time \in [Ids -> 0 .. Wrap - 1]
  /\ callback \in [Ids -> BOOLEAN]
  /\ arg \in [Ids -> Timers \cup {NoTimer}]
  /\ clock \in 0 .. MaxTime
  /\ pc \in {"idle", "search", "schedule", "callback", "overrun"}
  /\ back \in {"idle", "callback"}
  /\ cur \in Ids
  /\ low \in Nat
  /\ high \in Int
  /\ now \in 0 .. MaxTime
  /\ fresh \subseteq Timers
  /\ handle \in [Timers -> Ids \cup {ERROR_COMPOSITOR_INDEX}]
  /\ due \in [Timers -> Nat]
  /\ fired \subseteq Timers
  /\ cleared \subseteq Timers
  /\ filled \in BOOLEAN

\* The node being added, which is in no list yet.
Adding == IF pc \in {"search", "overrun"} THEN {cur} ELSE {}

\* No node is leaked or in two places: each of the node_num ids is on the free
\* stack once, pending once or the one being added, and compositor_list holds
\* ERROR_COMPOSITOR_INDEX everywhere outside its window, where schedule stops.
FreeIds == {free_node_ids[i] : i \in 1 .. Len(free_node_ids)}
NodesConserved ==
  /\ Len(free_node_ids) = Cardinality(FreeIds)
  /\ compositor_num = Cardinality(Pending)
  /\ FreeIds \cap Pending = {}
  /\ FreeIds \cup Pending = (0 .. node_num - 1) \ Adding
  /\ \A i \in Ids \ Window : compositor_list[i] = ERROR_COMPOSITOR_INDEX

\* The pending timers are in the order of their deadlines, as the loop of
\* timeaction_mgr_schedule and the binary search both take for granted.
PendingSorted ==
  \A i, j \in Window :
    i <= j => left_time[compositor_list[i]] <= left_time[compositor_list[j]]

\* timeaction_mgr_add writes past compositor_list only if all nodes were
\* pending at once since the manager last grew: an oversized manager is safe.
OverrunOnlyAfterFull == pc = "overrun" => filled

\* A timer is called back at most once, never after a del disarmed it, and no
\* earlier than its deadline unless the millisecond counter wraps in between.
Epoch(time) == time \div Wrap
FiresRight ==
  [][\A t \in Timers : pc = "schedule" /\ pc' = "callback" /\ t = arg[HeadId] =>
       /\ t \notin fired
       /\ t \notin cleared
       /\ due[t] <= now \/ Epoch(due[t]) # Epoch(now)]_vars

\* When timeaction_mgr_schedule returns no armed timer is overdue, unless the
\* counter wraps between the deadline and the moment schedule looked at it.
NoneOverdue ==
  [][pc = "schedule" /\ pc' = "idle" =>
       \A id \in Pending : callback[id] =>
         \/ due[arg[id]] > now
         \/ Epoch(due[arg[id]]) # Epoch(now)]_vars

\* A timer that add accepted stays pending and armed until it is called back or
\* disarmed, over growth, compaction and the reuse of nodes.
NoTimerLost ==
  \A t \in Timers :
    (handle[t] >= 0 /\ t \notin fired \cup cleared) =>
      /\ arg[handle[t]] = t /\ callback[handle[t]]
      /\ handle[t] \in Pending \cup Adding

\* An add whose deadline comes before that of some pending timer never returns:
\* the search widens again whenever it should narrow from above.
Later(i) == left_time[cur] < left_time[compositor_list[i]]
Hopeless == pc = "search" /\ \E i \in Window : Later(i)
EarlierAddHangs == [][Hopeless => pc' = "search"]_vars

\* Every other add's search ends.
LaterAddReturns == (pc = "search" /\ ~Hopeless) ~> pc # "search"

\* While the counter does not wrap, a pending timer is called back once its
\* time has come, unless a del disarms it or an add hangs or overruns.
TimerFires ==
  \A t \in Timers :
    (t \notin fresh /\ handle[t] >= 0 /\ due[t] <= MaxTime)
      ~> (t \in fired \cup cleared \/ Hopeless \/ pc = "overrun")
-----------------------------------------------------------------------------
(***************************************************************************)
(* The inductive invariant IInv, proved in TimeActionProofs: OrderInv, the *)
(* window, its order and the search, and TimerInv, the nodes and the       *)
(* timers they stand for.                                                  *)
(***************************************************************************)

\* The window lies inside the part of compositor_list the nodes account for,
\* and outside it there is nothing.
WindowInv ==
  /\ compositor_start < node_num
  /\ compositor_start + compositor_num <= node_num
  /\ node_num <= MaxNodes
  /\ \A i \in Window : compositor_list[i] \in 0 .. node_num - 1
  /\ \A i \in Ids \ Window : compositor_list[i] = ERROR_COMPOSITOR_INDEX

\* No id is in two places.
OnePlace(id) ==
  /\ \A i \in Window : compositor_list[i] # id
  /\ \A k \in 1 .. Len(free_node_ids) : free_node_ids[k] # id
IdsInv ==
  /\ free_node_ids \in Seq(0 .. node_num - 1)
  /\ \A k, l \in 1 .. Len(free_node_ids) :
       free_node_ids[k] = free_node_ids[l] => k = l
  /\ \A k \in 1 .. Len(free_node_ids), i \in Window :
       free_node_ids[k] # compositor_list[i]
  /\ \A i, j \in Window : compositor_list[i] = compositor_list[j] => i = j
  /\ pc = "search" => cur < node_num /\ OnePlace(cur)

\* The search never passes the first later deadline; if there is none, it never
\* lowers high.
SearchInv ==
  pc = "search" =>
    /\ high <= compositor_num
    /\ IF Hopeless THEN \E i \in Window : /\ Later(i)
                                          /\ low <= i - compositor_start
                                          /\ i - compositor_start <= high
                   ELSE high = compositor_num - 1 /\ low <= compositor_num

\* A manager whose nodes were never all pending keeps room behind the window.
RoomInv ==
  /\ ~filled => compositor_start + compositor_num < node_num
  /\ OverrunOnlyAfterFull

\* An armed node belongs to a timer.
ArmedInv == \A id \in Ids : callback[id] => arg[id] \in Timers

OrderInv == /\ TypeOK /\ WindowInv /\ IdsInv /\ ArmedInv
            /\ PendingSorted /\ SearchInv /\ RoomInv

\* Every node is on the free stack, pending or being added, also when the
\* insertion of the last has no room.
PlacesInv ==
  /\ 0 .. node_num - 1 \subseteq FreeIds \cup Pending \cup Adding
  /\ pc = "overrun" => cur < node_num /\ OnePlace(cur)

\* A timer not offered yet has no node and no history.
FreshInv ==
  \A t \in fresh : handle[t] < 0 /\ t \notin fired \cup cleared

\* An armed node that is pending or being added stands for one timer, which has
\* the node's id, is neither called back nor disarmed, and whose deadline the
\* node holds as the wrapping counter counts it.
NodesInv ==
  \A id \in Pending \cup Adding : callback[id] =>
    /\ handle[arg[id]] = id
    /\ arg[id] \notin fresh \cup fired \cup cleared
    /\ left_time[id] = due[arg[id]] % Wrap

TimerInv == PlacesInv /\ FreshInv /\ NodesInv /\ NoTimerLost

\* Together, for every number of timers and nodes and every clock.
IInv == OrderInv /\ TimerInv
=============================================================================
