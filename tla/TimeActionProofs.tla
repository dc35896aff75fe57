-------------------------- MODULE TimeActionProofs --------------------------
(***************************************************************************)
(* Proofs about common/timeaction.c (module TimeAction), for every number  *)
(* of timers and nodes, every bound of time and every range of the clock:  *)
(* the window stays sorted, an add overruns compositor_list only after all *)
(* nodes were pending, an add before a pending timer never returns, no     *)
(* node is leaked, no accepted timer is lost, and a timer fires once,      *)
(* never after a del and never before its time unless the counter wraps.   *)
(***************************************************************************)
EXTENDS TimeAction, SequenceTheorems, FiniteSetTheorems, FunctionTheorems, TLAPS

USE TimeAssumption DEF Ids, Window, ERROR_COMPOSITOR_INDEX

\* A deadline is a value of the wrapping clock (timeaction_mgr_add, 258).
LEMMA DeadlineType ==
  ASSUME NEW d \in Delays, clock \in Nat
  PROVE  Deadline(d) \in 0 .. Wrap - 1
<1>1. \A x \in Nat : x % Wrap \in 0 .. Wrap - 1
  OBVIOUS
<1>2. d + (clock % Wrap) \in Nat
  BY <1>1
<1> QED
  BY <1>1, <1>2 DEF Deadline

\* The manager is new: no timer is pending.
LEMMA InitInv == Init => OrderInv
<1> SUFFICES ASSUME Init PROVE OrderInv
  OBVIOUS
<1> USE DEF Init
<1>1. TypeOK
  <2>1. free_node_ids \in Seq(Ids)
    OBVIOUS
  <2>2. node_num \in 1 .. MaxNodes /\ 0 \in Ids /\ 0 \in 0 .. Wrap - 1
    OBVIOUS
  <2>3. /\ compositor_list \in [Ids -> Ids \cup {ERROR_COMPOSITOR_INDEX}]
        /\ left_time \in [Ids -> 0 .. Wrap - 1]
        /\ callback \in [Ids -> BOOLEAN]
        /\ arg \in [Ids -> Timers \cup {NoTimer}]
    BY <2>2
  <2>4. /\ handle \in [Timers -> Ids \cup {ERROR_COMPOSITOR_INDEX}]
        /\ due \in [Timers -> Nat]
    OBVIOUS
  <2>5. /\ compositor_start \in Ids /\ compositor_num \in 0 .. MaxNodes
        /\ clock \in 0 .. MaxTime /\ now \in 0 .. MaxTime
        /\ cur \in Ids /\ low \in Nat /\ high \in Int
    BY <2>2
  <2> QED
    BY <2>1, <2>2, <2>3, <2>4, <2>5 DEF TypeOK
<1>2. WindowInv
  BY DEF WindowInv
<1>3. IdsInv
  BY DEF IdsInv
<1>4. PendingSorted
  BY DEF PendingSorted
<1>5. SearchInv
  BY DEF SearchInv
<1>6. RoomInv
  BY DEF RoomInv, OverrunOnlyAfterFull
<1>7. ArmedInv
  BY DEF ArmedInv
<1> QED
  BY <1>1, <1>2, <1>3, <1>4, <1>5, <1>6, <1>7 DEF OrderInv

\* Time passes (getnowtime).
LEMMA TickInv == ASSUME OrderInv, Tick PROVE OrderInv'
<1> USE DEF OrderInv, Tick, nodeVars, listVars, addVars, histVars
<1>1. TypeOK'
  BY DEF TypeOK
<1>2. WindowInv'
  BY DEF WindowInv
<1>3. IdsInv'
  BY DEF IdsInv, OnePlace
<1>4. PendingSorted'
  BY DEF PendingSorted
<1>5. SearchInv'
  BY DEF SearchInv, Hopeless, Later
<1>6. RoomInv'
  BY DEF RoomInv, OverrunOnlyAfterFull
<1>7. ArmedInv'
  BY DEF ArmedInv
<1> QED
  BY <1>1, <1>2, <1>3, <1>4, <1>5, <1>6, <1>7

\* One comparison of the search (timeaction_mgr_compositor, 215-226).
LEMMA CompareInv == ASSUME OrderInv, Compare PROVE OrderInv'
<1> USE DEF OrderInv, Compare, nodeVars, listVars, addVars, histVars
<1> DEFINE m == Middle
<1>1. /\ low \in Nat /\ high \in Int /\ low <= high
      /\ compositor_start \in Nat /\ compositor_num \in Nat
  BY DEF TypeOK
<1>2. /\ m \in Nat /\ low <= m /\ m <= high
      /\ m <= compositor_num - 1
      /\ compositor_start + m \in Window
  <2>1. m \in Nat /\ low <= m /\ m <= high
    BY <1>1 DEF Middle
  <2>2. m <= compositor_num - 1
    <3>1. CASE Hopeless
      <4>1. PICK i \in Window : low <= i - compositor_start
        BY <3>1 DEF SearchInv
      <4>2. low <= compositor_num - 1 /\ high <= compositor_num
        BY <4>1, <1>1 DEF SearchInv
      <4> QED
        BY <4>2, <1>1 DEF Middle
    <3>2. CASE ~Hopeless
      BY <3>2, <2>1, <1>1 DEF SearchInv
    <3> QED
      BY <3>1, <3>2
  <2> QED
    BY <2>1, <2>2, <1>1
<1>3. TypeOK'
  <2>1. low' \in Nat /\ high' \in Int
    <3>1. m + 1 \in Nat
      BY <1>2
    <3> HIDE DEF m
    <3>2. CASE Earlier
      BY <1>1, <3>1, <3>2 DEF NewHigh, m
    <3>3. CASE ~Earlier
      BY <1>1, <3>1, <3>3 DEF NewLow, m
    <3> QED
      BY <3>2, <3>3
  <2> QED
    BY <2>1, Zenon DEF TypeOK
<1>4. WindowInv'
  BY DEF WindowInv
<1>5. IdsInv'
  BY DEF IdsInv, OnePlace
<1>6. PendingSorted'
  BY DEF PendingSorted
<1>7. SearchInv'
  <2>1. Hopeless' <=> Hopeless
    BY DEF Hopeless, Later
  <2>2. \A i \in Window : Later(i)' <=> Later(i)
    BY DEF Later
  <2>3. CASE Earlier
    <3>1. Later(compositor_start + m)
      BY <2>3 DEF Earlier, Later
    <3>2. Hopeless
      BY <3>1, <1>2 DEF Hopeless
    <3> QED
      BY <1>1, <1>2, <2>1, <2>2, <2>3, <3>1, <3>2 DEF SearchInv, NewHigh
  <2>4. CASE ~Earlier
    <3>1. \A i \in Window : i <= compositor_start + m => ~Later(i)
      <4> SUFFICES ASSUME NEW i \in Window, i <= compositor_start + m PROVE ~Later(i)
        OBVIOUS
      <4>1. left_time[compositor_list[i]] <= left_time[compositor_list[compositor_start + m]]
        BY <1>2 DEF PendingSorted
      <4>2. ~(left_time[cur] < left_time[compositor_list[compositor_start + m]])
        BY <2>4 DEF Earlier
      <4>3. /\ compositor_list[i] \in Ids
            /\ compositor_list[compositor_start + m] \in Ids
        BY <1>2 DEF WindowInv, TypeOK
      <4>4. /\ left_time[cur] \in Int /\ left_time[compositor_list[i]] \in Int
            /\ left_time[compositor_list[compositor_start + m]] \in Int
        BY <4>3, SMTT(60) DEF TypeOK
      <4> QED
        BY <4>1, <4>2, <4>4 DEF Later
    <3>2. CASE Hopeless
      <4>1. PICK i \in Window : /\ Later(i)
                                /\ low <= i - compositor_start
                                /\ i - compositor_start <= high
        BY <3>2 DEF SearchInv
      <4>2. m + 1 <= i - compositor_start
        BY <4>1, <3>1, <1>1, <1>2
      <4> QED
        BY <2>1, <2>2, <2>4, <3>2, <4>1, <4>2 DEF SearchInv, NewLow
    <3>3. CASE ~Hopeless
      BY <1>1, <1>2, <2>1, <2>4, <3>3 DEF SearchInv, NewLow
    <3> QED
      BY <3>2, <3>3
  <2> QED
    BY <2>3, <2>4
<1>8. RoomInv'
  BY DEF RoomInv, OverrunOnlyAfterFull
<1>9. ArmedInv'
  BY DEF ArmedInv
<1> QED
  BY <1>3, <1>4, <1>5, <1>6, <1>7, <1>8, <1>9

\* Taking the last of some free ids, old or grown, and filling in its node
\* (timeaction_mgr_add, 245-258).
LEMMA TakeNodeInv ==
  ASSUME OrderInv, pc \in {"idle", "callback"},
         NEW t \in Timers, NEW d \in Delays, NEW ids,
         node_num' \in Nat, node_num <= node_num', node_num' <= MaxNodes,
         ids \in Seq(0 .. node_num' - 1), ids # <<>>,
         \A k, l \in 1 .. Len(ids) : ids[k] = ids[l] => k = l,
         \A k \in 1 .. Len(ids), i \in Window : ids[k] # compositor_list[i],
         TakeNode(ids, t, d),
         fresh' = fresh \ {t}, filled' \in BOOLEAN,
         ~filled' => compositor_start + compositor_num < node_num',
         UNCHANGED <<listVars, clock, now, fired, cleared>>
  PROVE  OrderInv'
<1> DEFINE id == ids[Len(ids)]
<1>1. /\ Len(ids) \in Nat \ {0}
      /\ Len(ids) \in 1 .. Len(ids)
      /\ id \in 0 .. node_num' - 1 /\ id < node_num'
      /\ id \in Ids
  OBVIOUS
<1>2. /\ free_node_ids' = SubSeq(ids, 1, Len(ids) - 1)
      /\ callback' = [callback EXCEPT ![id] = TRUE]
      /\ arg' = [arg EXCEPT ![id] = t]
      /\ left_time' = [left_time EXCEPT ![id] = Deadline(d)]
      /\ low' = 0 /\ high' = compositor_num - 1 /\ cur' = id
      /\ back' = pc /\ pc' = "search"
      /\ handle' = [handle EXCEPT ![t] = id]
      /\ due' = [due EXCEPT ![t] = clock + d]
      /\ compositor_list' = compositor_list
      /\ compositor_start' = compositor_start
      /\ compositor_num' = compositor_num
      /\ clock' = clock /\ now' = now
      /\ fired' = fired /\ cleared' = cleared
  BY DEF TakeNode, listVars
<1> HIDE DEF id
<1>3. Window' = Window
  BY <1>2
<1>4. /\ free_node_ids' \in Seq(0 .. node_num' - 1)
      /\ free_node_ids' \in Seq(Ids)
      /\ Len(free_node_ids') = Len(ids) - 1
      /\ \A k \in 1 .. Len(ids) - 1 : free_node_ids'[k] = ids[k]
  <2> DEFINE n == Len(ids) - 1
  <2>1. \A k \in 1 .. n : ids[k] \in 0 .. node_num' - 1 /\ ids[k] \in Ids
    BY <1>1, SMTT(60)
  <2>2. n \in Nat /\ n \in Int /\ 1 \in Int
    BY <1>1
  <2>3. free_node_ids' = SubSeq(ids, 1, n)
    BY <1>2
  <2> HIDE DEF n
  <2>4. /\ free_node_ids' \in Seq(0 .. node_num' - 1)
        /\ free_node_ids' \in Seq(Ids)
    BY <2>1, <2>2, <2>3, SubSeqProperties, Zenon
  <2>5. Len(SubSeq(ids, 1, n)) = n
    BY <2>2
  <2>6. \A k \in 1 .. n : SubSeq(ids, 1, n)[k] = ids[k]
    BY <2>2
  <2> QED
    BY <2>3, <2>4, <2>5, <2>6, Zenon DEF n
<1>5. \A i \in Window : compositor_list[i] # id
  BY <1>1 DEF id
<1>6. /\ TypeOK /\ compositor_start \in Nat /\ compositor_num \in Nat
      /\ node_num \in Nat
  <2>1. TypeOK
    BY DEF OrderInv
  <2>2. /\ node_num \in 1 .. MaxNodes /\ compositor_start \in Ids
        /\ compositor_num \in 0 .. MaxNodes
    BY <2>1, Zenon DEF TypeOK
  <2> QED
    BY <2>1, <2>2
<1>7. TypeOK'
  <2>1. Deadline(d) \in 0 .. Wrap - 1 /\ clock + d \in Nat
    BY <1>6, DeadlineType DEF TypeOK
  <2>2. /\ node_num' \in 1 .. MaxNodes /\ free_node_ids' \in Seq(Ids)
        /\ low' \in Nat /\ high' \in Int /\ cur' \in Ids
        /\ pc' \in {"idle", "search", "schedule", "callback", "overrun"}
        /\ back' \in {"idle", "callback"}
    BY <1>1, <1>2, <1>4, <1>6, SMTT(60)
  <2>3. /\ left_time' \in [Ids -> 0 .. Wrap - 1]
        /\ callback' \in [Ids -> BOOLEAN]
        /\ arg' \in [Ids -> Timers \cup {NoTimer}]
    BY <1>1, <1>2, <1>6, <2>1, Zenon DEF TypeOK
  <2>4. /\ handle' \in [Timers -> Ids \cup {ERROR_COMPOSITOR_INDEX}]
        /\ due' \in [Timers -> Nat]
    BY <1>1, <1>2, <1>6, <2>1, Zenon DEF TypeOK
  <2>5. /\ compositor_list' \in [Ids -> Ids \cup {ERROR_COMPOSITOR_INDEX}]
        /\ compositor_start' \in Ids /\ compositor_num' \in 0 .. MaxNodes
        /\ clock' \in 0 .. MaxTime /\ now' \in 0 .. MaxTime
        /\ fresh' \subseteq Timers /\ fired' \subseteq Timers
        /\ cleared' \subseteq Timers /\ filled' \in BOOLEAN
    BY <1>2, <1>6, Zenon DEF TypeOK
  <2> QED
    BY <2>2, <2>3, <2>4, <2>5 DEF TypeOK
<1>8. WindowInv'
  <2>1. WindowInv
    BY DEF OrderInv
  <2> QED
    BY <1>2, <1>6, <2>1 DEF WindowInv
<1>9. IdsInv'
  <2>1. \A k \in 1 .. Len(free_node_ids') :
          /\ k \in 1 .. Len(ids) /\ k # Len(ids)
          /\ free_node_ids'[k] = ids[k]
    <3> SUFFICES ASSUME NEW k \in 1 .. Len(free_node_ids')
                 PROVE  /\ k \in 1 .. Len(ids) /\ k # Len(ids)
                        /\ free_node_ids'[k] = ids[k]
      OBVIOUS
    <3>1. k \in 1 .. Len(ids) - 1
      BY <1>4
    <3>2. k \in 1 .. Len(ids) /\ k # Len(ids)
      <4> DEFINE n == Len(ids)
      <4>1. n \in Nat /\ k \in 1 .. n - 1
        BY <1>1, <3>1
      <4> HIDE DEF n
      <4>2. k \in 1 .. n /\ k # n
        BY <4>1
      <4> QED
        BY <4>2 DEF n
    <3> QED
      BY <1>4, <3>1, <3>2, Zenon
  <2>2. \A k, l \in 1 .. Len(free_node_ids') :
          free_node_ids'[k] = free_node_ids'[l] => k = l
    BY <2>1, Zenon
  <2>3. \A k \in 1 .. Len(free_node_ids') :
          /\ free_node_ids'[k] # id
          /\ \A i \in Window : free_node_ids'[k] # compositor_list[i]
    BY <1>1, <2>1, Zenon DEF id
  <2>4. \A i, j \in Window : compositor_list[i] = compositor_list[j] => i = j
    BY DEF OrderInv, IdsInv
  <2>5. cur' < node_num'
    BY <1>1, <1>2, Zenon
  <2> HIDE DEF Window
  <2> QED
    <3>1. \A i \in Window' : compositor_list'[i] # cur'
      BY <1>2, <1>3, <1>5, Zenon
    <3>2. \A k \in 1 .. Len(free_node_ids') : free_node_ids'[k] # cur'
      BY <1>2, <2>3, Zenon
    <3>3. \A k \in 1 .. Len(free_node_ids'), i \in Window' :
            free_node_ids'[k] # compositor_list'[i]
      BY <1>2, <1>3, <2>3, Zenon
    <3>4. \A i, j \in Window' : compositor_list'[i] = compositor_list'[j] => i = j
      BY <1>2, <1>3, <2>4, Zenon
    <3> QED
      BY <1>4, <2>2, <2>5, <3>1, <3>2, <3>3, <3>4, Zenon DEF IdsInv, OnePlace
<1>10. ArmedInv'
  <2>1. ArmedInv
    BY DEF OrderInv
  <2> QED
    BY <1>1, <1>2, <1>6, <2>1 DEF ArmedInv, TypeOK
<1>11. \A i \in Window : left_time'[compositor_list[i]] = left_time[compositor_list[i]]
  <2>1. \A i \in Window : compositor_list[i] \in Ids
    BY <1>6 DEF OrderInv, WindowInv
  <2> QED
    BY <1>2, <1>5, <1>6, <2>1 DEF TypeOK
<1>12. PendingSorted'
  <2>1. PendingSorted
    BY DEF OrderInv
  <2> HIDE DEF Window
  <2> QED
    BY <1>2, <1>3, <1>11, <2>1 DEF PendingSorted
<1>13. SearchInv'
  <2>1. /\ low' <= compositor_num' /\ high' <= compositor_num'
        /\ high' = compositor_num' - 1
        /\ \A i \in Window' : /\ low' <= i - compositor_start'
                              /\ i - compositor_start' <= high'
    BY <1>2, <1>6
  <2> HIDE DEF Window
  <2> QED
    BY <2>1, Zenon DEF SearchInv, Hopeless
<1>14. RoomInv'
  <2>1. pc' # "overrun"
    BY <1>2
  <2> HIDE DEF Window
  <2> QED
    BY <1>2, <2>1, Zenon DEF RoomInv, OverrunOnlyAfterFull
<1> QED
  BY <1>7, <1>8, <1>9, <1>10, <1>12, <1>13, <1>14 DEF OrderInv

\* The insertion at the end of the search (timeaction_mgr_compositor, 228-231)
\* and the compaction (timeaction_mgr_add, 261-266).  A search that ends found no
\* later deadline, so the new id goes behind all others.
LEMMA EndAddInv == ASSUME OrderInv, EndAdd PROVE OrderInv'
<1> DEFINE end  == compositor_start + compositor_num
           list == Insert(high + 1)
           num  == compositor_num + 1
<1>1. /\ TypeOK /\ WindowInv
      /\ compositor_start \in Nat /\ compositor_num \in Nat /\ node_num \in Nat
      /\ low \in Nat /\ high \in Int /\ low > high
      /\ cur \in Ids /\ cur < node_num /\ OnePlace(cur)
      /\ end < node_num /\ node_num <= MaxNodes /\ end \in Ids
  <2>1. TypeOK /\ WindowInv /\ IdsInv
    BY DEF OrderInv
  <2>2. pc = "search" /\ low > high /\ end < node_num
    BY DEF EndAdd
  <2>3. cur < node_num /\ OnePlace(cur)
    BY <2>1, <2>2 DEF IdsInv
  <2>4. /\ compositor_start \in Nat /\ compositor_num \in Nat /\ node_num \in Nat
        /\ low \in Nat /\ high \in Int /\ cur \in Ids /\ node_num <= MaxNodes
    BY <2>1 DEF TypeOK
  <2> QED
    BY <2>1, <2>2, <2>3, <2>4
<1>2. ~Hopeless /\ high + 1 = compositor_num
  BY <1>1 DEF OrderInv, EndAdd, SearchInv
<1>3. /\ AtEnd(num) => compositor_list' = Compacted(list, num) /\ compositor_start' = 0
      /\ ~AtEnd(num) => compositor_list' = list /\ compositor_start' = compositor_start
      /\ compositor_num' = num
      /\ filled' = (filled \/ num = node_num)
      /\ pc' = back /\ back' = "idle" /\ cur' = 0 /\ low' = 0 /\ high' = 0
      /\ node_num' = node_num /\ free_node_ids' = free_node_ids
      /\ left_time' = left_time /\ callback' = callback /\ arg' = arg
      /\ clock' = clock /\ now' = now /\ fresh' = fresh /\ handle' = handle
      /\ due' = due /\ fired' = fired /\ cleared' = cleared
  BY Zenon DEF EndAdd, nodeVars
<1>4. /\ list \in [Ids -> Ids \cup {ERROR_COMPOSITOR_INDEX}]
      /\ list[end] = cur
      /\ \A i \in Ids : i # end => list[i] = compositor_list[i]
  BY <1>1, <1>2 DEF Insert, TypeOK
<1> HIDE DEF list
<1>5. \A i \in Window : /\ compositor_list[i] \in Ids
                        /\ compositor_list[i] < node_num
                        /\ compositor_list[i] # cur
                        /\ left_time[compositor_list[i]] <= left_time[cur]
  <2>1. \A i \in Window : /\ compositor_list[i] \in Ids
                          /\ compositor_list[i] < node_num
    BY <1>1 DEF WindowInv
  <2>2. \A i \in Window : compositor_list[i] # cur
    BY <1>1 DEF OnePlace
  <2>3. \A i \in Window : ~(left_time[cur] < left_time[compositor_list[i]])
    BY <1>2 DEF OrderInv, EndAdd, Hopeless, Later
  <2>4. \A i \in Window : left_time[cur] \in Int /\ left_time[compositor_list[i]] \in Int
    BY <1>1, <2>1 DEF TypeOK
  <2> QED
    BY <2>1, <2>2, <2>3, <2>4
<1>6. \A i \in Ids \ Window : compositor_list[i] = ERROR_COMPOSITOR_INDEX
  BY <1>1 DEF WindowInv
<1>7. \E shift \in Nat :
        /\ compositor_start' \in Nat
        /\ compositor_start' + shift = compositor_start
        /\ compositor_start' + num <= node_num
        /\ num = node_num \/ compositor_start' + num < node_num
        /\ compositor_list' \in [Ids -> Ids \cup {ERROR_COMPOSITOR_INDEX}]
        /\ \A i \in Window' : compositor_list'[i] = list[i + shift]
        /\ \A i \in Ids \ Window' : compositor_list'[i] = ERROR_COMPOSITOR_INDEX
  <2>1. CASE AtEnd(num)
    <3>1. compositor_list' = Compacted(list, num) /\ compositor_start' = 0
      BY <1>3, <2>1
    <3>2. Window' = 0 .. num - 1
      BY <1>1, <1>3, <3>1
    <3>3. /\ compositor_start' + compositor_start = compositor_start
          /\ compositor_start' + num <= node_num
          /\ num = node_num \/ compositor_start' + num < node_num
      BY <1>1, <3>1
    <3>4. \A i \in Ids : compositor_list'[i] = IF i < num THEN list[compositor_start + i]
                                               ELSE ERROR_COMPOSITOR_INDEX
      BY <3>1 DEF Compacted
    <3>5. \A i \in Ids : i < num => compositor_start + i \in Ids
      BY <1>1
    <3>6. compositor_list' \in [Ids -> Ids \cup {ERROR_COMPOSITOR_INDEX}]
      BY <1>4, <3>1, <3>5 DEF Compacted
    <3>7. \A i \in 0 .. num - 1 : compositor_list'[i] = list[i + compositor_start]
      <4> SUFFICES ASSUME NEW i \in 0 .. num - 1
                   PROVE  compositor_list'[i] = list[i + compositor_start]
        OBVIOUS
      <4>1. i \in Ids /\ i < num /\ compositor_start + i = i + compositor_start
        BY <1>1
      <4> QED
        BY <3>4, <4>1, Zenon
    <3>8. \A i \in Ids \ (0 .. num - 1) : compositor_list'[i] = ERROR_COMPOSITOR_INDEX
      <4> SUFFICES ASSUME NEW i \in Ids \ (0 .. num - 1)
                   PROVE  compositor_list'[i] = ERROR_COMPOSITOR_INDEX
        OBVIOUS
      <4>1. i \in Ids /\ ~(i < num)
        BY <1>1
      <4> QED
        BY <3>4, <4>1, Zenon
    <3>9. compositor_start' \in Nat /\ compositor_start \in Nat
      BY <1>1, <3>1
    <3> HIDE DEF Window, num
    <3> QED
      BY <3>2, <3>3, <3>6, <3>7, <3>8, <3>9, Zenon
  <2>2. CASE ~AtEnd(num)
    <3>1. compositor_list' = list /\ compositor_start' = compositor_start
      BY <1>3, <2>2
    <3>2. Window' = Window \cup {end}
      BY <1>1, <1>3, <3>1
    <3>3. compositor_start' + 0 = compositor_start /\ compositor_start' + num < node_num
      BY <1>1, <2>2, <3>1 DEF AtEnd
    <3>4. \A i \in Window' : compositor_list'[i] = list[i + 0]
      BY <1>1, <3>1, <3>2
    <3>5. \A i \in Ids \ Window' : compositor_list'[i] = ERROR_COMPOSITOR_INDEX
      BY <1>4, <1>6, <3>1, <3>2
    <3> WITNESS 0 \in Nat
    <3> QED
      BY <1>1, <1>4, <3>1, <3>3, <3>4, <3>5
  <2> QED
    BY <2>1, <2>2
<1>8. PICK shift \in Nat :
        /\ compositor_start' \in Nat
        /\ compositor_start' + shift = compositor_start
        /\ compositor_start' + num <= node_num
        /\ num = node_num \/ compositor_start' + num < node_num
        /\ compositor_list' \in [Ids -> Ids \cup {ERROR_COMPOSITOR_INDEX}]
        /\ \A i \in Window' : compositor_list'[i] = list[i + shift]
        /\ \A i \in Ids \ Window' : compositor_list'[i] = ERROR_COMPOSITOR_INDEX
  BY <1>7
<1>9. /\ compositor_num' = compositor_num + 1
      /\ \E start \in Nat : compositor_start' = start
  BY <1>3, <1>8, Zenon
<1> PICK start \in Nat : compositor_start' = start
  BY <1>9
<1>10. /\ compositor_start' = start
       /\ compositor_num' = compositor_num + 1
       /\ start \in Nat /\ shift \in Nat
       /\ start + shift = compositor_start
       /\ start + compositor_num + 1 <= node_num
       /\ compositor_start + compositor_num < node_num
       /\ compositor_start \in Nat /\ compositor_num \in Nat
       /\ node_num \in Nat /\ node_num <= MaxNodes /\ MaxNodes \in Nat
  BY <1>1, <1>8, <1>9
<1>11. \A i \in Window' :
        /\ i \in Int
        /\ \/ i + shift = end /\ compositor_list'[i] = cur
           \/ /\ i + shift \in Window
              /\ compositor_list'[i] = compositor_list[i + shift]
        /\ \A j \in Window' : j <= i => j + shift <= i + shift
        /\ \A j \in Window' : j + shift = i + shift => j = i
  <2> SUFFICES ASSUME NEW i \in Window'
               PROVE  /\ i \in Int
                      /\ \/ i + shift = end /\ compositor_list'[i] = cur
                         \/ /\ i + shift \in Window
                            /\ compositor_list'[i] = compositor_list[i + shift]
                      /\ \A j \in Window' : j <= i => j + shift <= i + shift
                      /\ \A j \in Window' : j + shift = i + shift => j = i
    OBVIOUS
  <2>1. \A j \in Window' : /\ j \in Int /\ start <= j
                           /\ j <= start + compositor_num
    BY <1>10
  <2>3. /\ i \in Int
        /\ \A j \in Window' : j <= i => j + shift <= i + shift
        /\ \A j \in Window' : j + shift = i + shift => j = i
    BY <2>1
  <2>4. compositor_start <= i + shift /\ i + shift <= end
    BY <1>10, <2>1
  <2>5. i + shift = end \/ i + shift \in Window
    BY <1>10, <2>3, <2>4
  <2>6. i + shift \in Window => i + shift # end
    BY <1>10
  <2>7. i + shift \in Ids
    BY <1>10, <2>3, <2>4
  <2>2. compositor_list'[i] = list[i + shift]
    BY <1>8
  <2> HIDE DEF Window, end
  <2> QED
    BY <1>4, <2>2, <2>3, <2>5, <2>6, <2>7
<1> HIDE DEF Window, end, list
<1>12. \A i \in Window' : /\ compositor_list'[i] \in Ids
                          /\ compositor_list'[i] < node_num
  BY <1>1, <1>5, <1>11
<1>13. TypeOK'
  <2>1. compositor_start' \in Ids
    BY <1>10
  <2>6. compositor_num' \in 0 .. MaxNodes
    BY <1>10
  <2>7. cur' \in Ids /\ low' \in Nat /\ high' \in Int
    <3>1. 0 \in Ids /\ 0 \in Nat /\ 0 \in Int
      BY <1>1
    <3> QED
      BY <1>3, <3>1, Zenon
  <2>2. /\ back \in {"idle", "callback"} /\ filled \in BOOLEAN
    BY <1>1 DEF TypeOK
  <2>3. /\ back' \in {"idle", "callback"}
        /\ pc' \in {"idle", "search", "schedule", "callback", "overrun"}
    BY <1>3, <2>2
  <2>4. filled' \in BOOLEAN
    BY <1>3, Zenon
  <2>5. /\ node_num' \in 1 .. MaxNodes /\ free_node_ids' \in Seq(Ids)
        /\ left_time' \in [Ids -> 0 .. Wrap - 1]
        /\ callback' \in [Ids -> BOOLEAN]
        /\ arg' \in [Ids -> Timers \cup {NoTimer}]
        /\ clock' \in 0 .. MaxTime /\ now' \in 0 .. MaxTime /\ fresh' \subseteq Timers
        /\ handle' \in [Timers -> Ids \cup {ERROR_COMPOSITOR_INDEX}]
        /\ due' \in [Timers -> Nat]
        /\ fired' \subseteq Timers /\ cleared' \subseteq Timers
    BY <1>1, <1>3, Zenon DEF TypeOK
  <2> QED
    BY <1>8, <2>1, <2>3, <2>4, <2>5, <2>6, <2>7, Zenon DEF TypeOK
<1>14. WindowInv'
  <2>1. node_num' = node_num
    BY <1>3, Zenon
  <2>3. compositor_start' < node_num'
    BY <1>10, <2>1
  <2>4. compositor_start' + compositor_num' <= node_num' /\ node_num' <= MaxNodes
    BY <1>10, <2>1
  <2>2. \A i \in Window' : compositor_list'[i] \in 0 .. node_num' - 1
    BY <1>1, <1>3, <1>12
  <2> QED
    BY <1>8, <2>2, <2>3, <2>4, Zenon DEF WindowInv
<1>15. IdsInv'
  <2>1. IdsInv
    BY DEF OrderInv
  <2>2. \A i, j \in Window' : compositor_list'[i] = compositor_list'[j] => i = j
    BY <1>5, <1>11, <2>1 DEF IdsInv
  <2>3. \A k \in 1 .. Len(free_node_ids), i \in Window' :
          free_node_ids[k] # compositor_list'[i]
    BY <1>1, <1>11, <2>1 DEF IdsInv, OnePlace
  <2>4. pc' # "search"
    BY <1>1, <1>3 DEF TypeOK
  <2> QED
    BY <1>3, <2>1, <2>2, <2>3, <2>4, Zenon DEF IdsInv
<1>16. ArmedInv'
  BY <1>3 DEF OrderInv, ArmedInv
<1>17. PendingSorted'
  <2> SUFFICES ASSUME NEW i \in Window', NEW j \in Window', i <= j
               PROVE  left_time[compositor_list'[i]] <= left_time[compositor_list'[j]]
    BY <1>3, Zenon DEF PendingSorted
  <2>1. i + shift <= j + shift
    BY <1>11
  <2>2. \A k \in Window : k < end
    BY <1>1 DEF Window, end
  <2>3. CASE j + shift = end /\ compositor_list'[j] = cur
    <3>1. left_time[cur] <= left_time[cur]
      BY <1>1 DEF TypeOK
    <3> QED
      BY <1>5, <1>11, <2>3, <3>1
  <2>4. CASE /\ j + shift \in Window
             /\ compositor_list'[j] = compositor_list[j + shift]
    <3>1. i + shift # end
      BY <1>1, <1>11, <2>1, <2>2, <2>4 DEF end
    <3>2. /\ i + shift \in Window
          /\ compositor_list'[i] = compositor_list[i + shift]
      BY <1>11, <3>1
    <3> QED
      BY <2>1, <2>4, <3>2, Zenon DEF OrderInv, PendingSorted
  <2> QED
    BY <1>11, <2>3, <2>4
<1>18. SearchInv'
  <2>1. pc' # "search"
    BY <1>1, <1>3 DEF TypeOK
  <2> QED
    BY <2>1 DEF SearchInv
<1>19. RoomInv'
  <2>1. pc' # "overrun"
    BY <1>1, <1>3 DEF TypeOK
  <2>2. ~filled' => num # node_num
    BY <1>3, Zenon
  <2>3. num # node_num => compositor_start' + compositor_num' < node_num'
    BY <1>1, <1>3, <1>8
  <2> QED
    BY <2>1, <2>2, <2>3, Zenon DEF RoomInv, OverrunOnlyAfterFull
<1> QED
  BY <1>13, <1>14, <1>15, <1>16, <1>17, <1>18, <1>19 DEF OrderInv

\* An insertion with no room left: the write behind compositor_list (229-230).
LEMMA OverrunInv == ASSUME OrderInv, Overrun PROVE OrderInv'
<1> USE DEF OrderInv, Overrun, nodeVars, listVars, addVars, histVars
<1>1. TypeOK'
  BY DEF TypeOK
<1>2. WindowInv'
  BY DEF WindowInv
<1>3. IdsInv'
  BY DEF IdsInv, OnePlace
<1>4. PendingSorted'
  BY DEF PendingSorted
<1>5. SearchInv'
  BY DEF SearchInv
<1>6. RoomInv'
  BY DEF RoomInv, OverrunOnlyAfterFull, TypeOK
<1>7. ArmedInv'
  BY DEF ArmedInv
<1> QED
  BY <1>1, <1>2, <1>3, <1>4, <1>5, <1>6, <1>7

\* timeaction_mgr_del disarms a node and moves nothing (272-278).
LEMMA DelInv == ASSUME OrderInv, NEW t \in Timers, Del(t) PROVE OrderInv'
<1> USE DEF OrderInv, Del, listVars, addVars
<1>1. DelId(t) \in Ids
  BY DEF DelId, TypeOK, WindowInv
<1>2. TypeOK'
  BY <1>1 DEF TypeOK, ArmedInv
<1>3. WindowInv'
  BY DEF WindowInv
<1>4. IdsInv'
  BY DEF IdsInv, OnePlace
<1>5. PendingSorted'
  BY DEF PendingSorted
<1>6. SearchInv'
  BY DEF SearchInv
<1>7. RoomInv'
  BY DEF RoomInv, OverrunOnlyAfterFull
<1>8. ArmedInv'
  BY <1>1 DEF ArmedInv, TypeOK
<1> QED
  BY <1>2, <1>3, <1>4, <1>5, <1>6, <1>7, <1>8

\* timeaction_mgr_add: the id comes from the free stack or from the new half, or
\* there is none and add returns -1 (234-258).
LEMMA BeginAddInv ==
  ASSUME OrderInv, NEW t \in Timers, NEW d \in Delays, BeginAdd(t, d)
  PROVE  OrderInv'
<1>1. /\ TypeOK /\ WindowInv /\ IdsInv /\ RoomInv
      /\ compositor_start \in Nat /\ compositor_num \in Nat /\ node_num \in Nat
      /\ node_num > 0 /\ node_num <= MaxNodes /\ filled \in BOOLEAN
      /\ compositor_start + compositor_num <= node_num
  BY DEF OrderInv, TypeOK, WindowInv
<1>2. /\ pc \in {"idle", "callback"} /\ fresh' = fresh \ {t}
      /\ UNCHANGED <<listVars, clock, now, fired, cleared>>
  BY DEF BeginAdd
<1>3. CASE /\ free_node_ids # <<>>
           /\ TakeNode(free_node_ids, t, d)
           /\ UNCHANGED <<node_num, filled>>
  <2>1. /\ free_node_ids \in Seq(0 .. node_num' - 1)
        /\ \A k, l \in 1 .. Len(free_node_ids) :
             free_node_ids[k] = free_node_ids[l] => k = l
        /\ \A k \in 1 .. Len(free_node_ids), i \in Window :
             free_node_ids[k] # compositor_list[i]
    BY <1>1, <1>3 DEF IdsInv
  <2>2. /\ node_num' \in Nat /\ node_num <= node_num' /\ node_num' <= MaxNodes
        /\ filled' \in BOOLEAN
        /\ ~filled' => compositor_start + compositor_num < node_num'
    BY <1>1, <1>3 DEF RoomInv
  <2> HIDE DEF Window
  <2> QED
    BY <1>2, <1>3, <2>1, <2>2, TakeNodeInv, Zenon
<1>4. CASE /\ free_node_ids = <<>>
           /\ Grow
           /\ TakeNode(GrownIds, t, d)
  <2>1. node_num' = 2 * node_num /\ 2 * node_num <= MaxNodes /\ filled' = FALSE
    BY <1>4 DEF Grow
  <2>2. /\ node_num' \in Nat /\ node_num <= node_num' /\ node_num' <= MaxNodes
        /\ filled' \in BOOLEAN
        /\ compositor_start + compositor_num < node_num'
    <3>1. /\ 2 * node_num \in Nat /\ node_num <= 2 * node_num
          /\ compositor_start + compositor_num < 2 * node_num
      BY <1>1
    <3> QED
      BY <2>1, <3>1, Zenon
  <2>3. /\ Len(GrownIds) = node_num
        /\ \A k \in 1 .. node_num : GrownIds[k] = node_num + k - 1
    BY <1>1 DEF GrownIds
  <2>4. GrownIds \in Seq(0 .. node_num' - 1)
    BY <1>1, <2>1 DEF GrownIds
  <2>5. GrownIds # <<>>
    BY <1>1, <2>3
  <2>6. \A k, l \in 1 .. Len(GrownIds) : GrownIds[k] = GrownIds[l] => k = l
    BY <1>1, <2>3
  <2>7. \A k \in 1 .. Len(GrownIds), i \in Window : GrownIds[k] # compositor_list[i]
    <3>1. \A i \in Window : compositor_list[i] \in 0 .. node_num - 1
      BY <1>1 DEF WindowInv
    <3> HIDE DEF Window
    <3> QED
      BY <1>1, <2>3, <3>1
  <2> HIDE DEF Window
  <2> QED
    BY <1>2, <1>4, <2>2, <2>4, <2>5, <2>6, <2>7, TakeNodeInv, Zenon
<1>5. CASE UNCHANGED <<node_num, free_node_ids, nodeVars, pc, addVars, handle, due,
                       filled>>
  <2> USE <1>2, <1>5 DEF listVars, nodeVars, addVars, OrderInv
  <2>1. TypeOK'
    BY DEF TypeOK
  <2>2. WindowInv'
    BY DEF WindowInv
  <2>3. IdsInv'
    BY DEF IdsInv, OnePlace
  <2>4. PendingSorted'
    BY DEF PendingSorted
  <2>5. SearchInv'
    BY DEF SearchInv
  <2>6. RoomInv'
    BY DEF RoomInv, OverrunOnlyAfterFull
  <2>7. ArmedInv'
    BY DEF ArmedInv
  <2> QED
    BY <2>1, <2>2, <2>3, <2>4, <2>5, <2>6, <2>7
<1> QED
  BY <1>3, <1>4, <1>5, Zenon DEF BeginAdd

\* timeaction_mgr_erase takes the head out of the window; the start wraps to the
\* front of the array only when nothing is left (timeaction_mgr_erase, 160-171).
LEMMA EraseInv ==
  ASSUME OrderInv, pc = "schedule", HeadId # ERROR_COMPOSITOR_INDEX, Erase,
         pc' \in {"schedule", "callback"}, fired' \subseteq Timers,
         UNCHANGED <<node_num, nodeVars, clock, addVars, now, fresh, handle,
                     due, cleared, filled>>
  PROVE  OrderInv'
<1>1. /\ TypeOK /\ WindowInv /\ IdsInv /\ PendingSorted /\ RoomInv /\ ArmedInv
      /\ compositor_start \in Nat /\ compositor_num \in Nat /\ node_num \in Nat
      /\ compositor_start \in Ids
      /\ compositor_start < node_num /\ node_num <= MaxNodes
      /\ compositor_start + compositor_num <= node_num
  BY DEF OrderInv, TypeOK, WindowInv
<1>2. compositor_start \in Window
  BY <1>1 DEF WindowInv, HeadId
<1>3. /\ compositor_num > 0
      /\ HeadId \in 0 .. node_num - 1 /\ HeadId \in Ids
  BY <1>1, <1>2 DEF WindowInv, HeadId
<1>4. /\ compositor_list' =
           [compositor_list EXCEPT ![compositor_start] = ERROR_COMPOSITOR_INDEX]
      /\ compositor_start' = NextStart
      /\ compositor_num' = compositor_num - 1
      /\ free_node_ids' = Append(free_node_ids, HeadId)
      /\ node_num' = node_num /\ left_time' = left_time /\ callback' = callback
      /\ arg' = arg /\ clock' = clock /\ back' = back /\ cur' = cur /\ low' = low
      /\ high' = high /\ now' = now /\ fresh' = fresh /\ handle' = handle
      /\ due' = due /\ cleared' = cleared /\ filled' = filled
  BY Zenon DEF Erase, nodeVars, addVars
<1> DEFINE start == NextStart
<1>5. /\ start \in Nat /\ start < node_num /\ start \in Ids
      /\ start + (compositor_num - 1) <= node_num
      /\ \/ start + (compositor_num - 1) = compositor_start + compositor_num
         \/ start + (compositor_num - 1) < node_num
  BY <1>1, <1>3 DEF NextStart
<1>6. /\ Window' = Window \ {compositor_start}
      /\ Window' \subseteq Window
  <2>1. Window' = start .. start + (compositor_num - 1) - 1
    BY <1>4
  <2>2. start .. start + (compositor_num - 1) - 1 = Window \ {compositor_start}
    BY <1>1, <1>3 DEF NextStart
  <2> QED
    BY <2>1, <2>2
<1> HIDE DEF Window, start
<1>7. \A i \in Ids : i # compositor_start => compositor_list'[i] = compositor_list[i]
  BY <1>1, <1>4 DEF TypeOK
<1>8. \A i \in Window : i \in Ids
  BY <1>1 DEF Window
<1>9. \A i \in Window' : /\ i \in Window /\ i # compositor_start
                        /\ compositor_list'[i] = compositor_list[i]
  BY <1>6, <1>7, <1>8
<1>10. TypeOK'
  <2>1. free_node_ids' \in Seq(Ids)
    BY <1>1, <1>3, <1>4 DEF TypeOK
  <2>2. /\ compositor_start' \in Ids /\ compositor_num' \in 0 .. MaxNodes
    BY <1>1, <1>3, <1>4, <1>5 DEF start
  <2>3. compositor_list' \in [Ids -> Ids \cup {ERROR_COMPOSITOR_INDEX}]
    BY <1>1, <1>4 DEF TypeOK
  <2>4. pc' \in {"idle", "search", "schedule", "callback", "overrun"}
    OBVIOUS
  <2> QED
    BY <1>1, <1>4, <2>1, <2>2, <2>3, <2>4, Zenon DEF TypeOK
<1>11. WindowInv'
  <2>1. /\ compositor_start' < node_num' /\ node_num' <= MaxNodes
        /\ compositor_start' + compositor_num' <= node_num'
    BY <1>1, <1>4, <1>5 DEF start
  <2>2. \A i \in Window' : compositor_list'[i] \in 0 .. node_num' - 1
    BY <1>1, <1>4, <1>9, Zenon DEF WindowInv
  <2>3. \A i \in Ids \ Window' : compositor_list'[i] = ERROR_COMPOSITOR_INDEX
    <3> SUFFICES ASSUME NEW i \in Ids \ Window'
                 PROVE  compositor_list'[i] = ERROR_COMPOSITOR_INDEX
      OBVIOUS
    <3>1. CASE i = compositor_start
      BY <1>1, <1>4, <3>1 DEF TypeOK
    <3>2. CASE i # compositor_start
      BY <1>1, <1>6, <1>7, <3>2 DEF WindowInv
    <3> QED
      BY <3>1, <3>2
  <2> QED
    BY <2>1, <2>2, <2>3, Zenon DEF WindowInv
<1>12. IdsInv'
  <2> DEFINE n == Len(free_node_ids)
  <2>1. /\ free_node_ids \in Seq(0 .. node_num - 1) /\ n \in Nat
        /\ free_node_ids' \in Seq(0 .. node_num' - 1)
        /\ Len(free_node_ids') = n + 1
        /\ free_node_ids'[n + 1] = HeadId
        /\ \A k \in 1 .. n : free_node_ids'[k] = free_node_ids[k]
    BY <1>1, <1>3, <1>4 DEF IdsInv
  <2>2. \A k \in 1 .. n : free_node_ids[k] # HeadId
    BY <1>1, <1>2 DEF IdsInv, HeadId
  <2>3. \A k, l \in 1 .. n : free_node_ids[k] = free_node_ids[l] => k = l
    BY <1>1 DEF IdsInv
  <2>4. \A k \in 1 .. n, i \in Window : free_node_ids[k] # compositor_list[i]
    BY <1>1 DEF IdsInv
  <2>5. \A i, j \in Window : compositor_list[i] = compositor_list[j] => i = j
    BY <1>1 DEF IdsInv
  <2> HIDE DEF n
  <2>6. \A k \in 1 .. n + 1 : k \in 1 .. n \/ k = n + 1
    BY <2>1
  <2>7. \A k, l \in 1 .. n + 1 : free_node_ids'[k] = free_node_ids'[l] => k = l
    BY <2>1, <2>2, <2>3, <2>6, Zenon
  <2>8. \A k \in 1 .. n + 1, i \in Window' : free_node_ids'[k] # compositor_list'[i]
    <3> SUFFICES ASSUME NEW k \in 1 .. n + 1, NEW i \in Window'
                 PROVE  free_node_ids'[k] # compositor_list[i]
      BY <1>9, Zenon
    <3>1. i \in Window /\ i # compositor_start
      BY <1>9, Zenon
    <3>2. CASE k \in 1 .. n
      BY <2>1, <2>4, <3>1, <3>2, Zenon
    <3>3. CASE k = n + 1
      BY <1>2, <2>1, <2>5, <3>1, <3>3, Zenon DEF HeadId
    <3> QED
      BY <2>6, <3>2, <3>3, Zenon
  <2>9. \A i, j \in Window' : compositor_list'[i] = compositor_list'[j] => i = j
    BY <1>9, <2>5, Zenon
  <2>10. pc' # "search"
    OBVIOUS
  <2> QED
    BY <2>1, <2>7, <2>8, <2>9, <2>10, Zenon DEF IdsInv
<1>13. ArmedInv'
  BY <1>1, <1>4, Zenon DEF ArmedInv
<1>14. PendingSorted'
  BY <1>1, <1>4, <1>9, Zenon DEF PendingSorted
<1>15. SearchInv'
  BY DEF SearchInv
<1>16. RoomInv'
  <2>1. ~filled => compositor_start + compositor_num < node_num
    BY <1>1 DEF RoomInv
  <2>2. ~filled => start + (compositor_num - 1) < node_num
    BY <1>5, <2>1
  <2>3. pc' # "overrun"
    OBVIOUS
  <2>4. /\ compositor_start' + compositor_num' = start + (compositor_num - 1)
        /\ node_num' = node_num /\ filled' = filled
    BY <1>4, Zenon DEF start
  <2>5. start + (compositor_num - 1) < node_num
        => compositor_start' + compositor_num' < node_num'
    BY <2>4
  <2>6. ~filled' => compositor_start' + compositor_num' < node_num'
    <3>1. filled' = filled
      BY <2>4
    <3>2. ~filled' => ~filled
      BY <3>1
    <3> QED
      BY <2>2, <2>5, <3>2, Zenon
  <2> QED
    BY <2>3, <2>6, Zenon DEF RoomInv, OverrunOnlyAfterFull
<1> QED
  BY <1>10, <1>11, <1>12, <1>13, <1>14, <1>15, <1>16 DEF OrderInv

\* schedule takes a disarmed timer off the head (timeaction_mgr_schedule,
\* 191-194).
LEMMA DropDeletedInv == ASSUME OrderInv, DropDeleted PROVE OrderInv'
<1>1. /\ pc = "schedule" /\ HeadId # ERROR_COMPOSITOR_INDEX /\ Erase
      /\ pc' \in {"schedule", "callback"}
      /\ UNCHANGED <<node_num, nodeVars, clock, addVars, now, fresh, handle,
                     due, cleared, filled>>
  BY DEF DropDeleted, histVars
<1>2. fired' \subseteq Timers
  BY DEF DropDeleted, histVars, OrderInv, TypeOK
<1> QED
  BY <1>1, <1>2, EraseInv

\* schedule takes a timer whose time has come off the head and calls it back
\* (timeaction_mgr_schedule, 195-205).
LEMMA FireInv == ASSUME OrderInv, Fire PROVE OrderInv'
<1>1. /\ pc = "schedule" /\ HeadId # ERROR_COMPOSITOR_INDEX /\ callback[HeadId]
      /\ Erase /\ fired' = fired \cup {arg[HeadId]}
      /\ pc' \in {"schedule", "callback"}
      /\ UNCHANGED <<node_num, nodeVars, clock, addVars, now, fresh, handle,
                     due, cleared, filled>>
  BY DEF Fire
<1>2. HeadId \in Ids
  BY <1>1 DEF HeadId, OrderInv, TypeOK
<1>3. fired' \subseteq Timers
  BY <1>1, <1>2 DEF OrderInv, TypeOK, ArmedInv
<1> QED
  BY <1>1, <1>3, EraseInv

\* The rest of timeaction_mgr_schedule moves nothing (173-185, 204-206).
LEMMA ScheduleInv ==
  ASSUME OrderInv, BeginSchedule \/ EndCallback \/ EndSchedule PROVE OrderInv'
<1>1. /\ now' \in {now, clock, 0} /\ pc' \in {"idle", "schedule"}
      /\ UNCHANGED <<node_num, free_node_ids, listVars, nodeVars, clock, addVars,
                     histVars>>
  BY Zenon DEF BeginSchedule, EndCallback, EndSchedule
<1> USE <1>1 DEF OrderInv, listVars, nodeVars, addVars, histVars
<1>2. TypeOK'
  BY DEF TypeOK
<1>3. WindowInv'
  BY DEF WindowInv
<1>4. IdsInv'
  BY DEF IdsInv
<1>5. PendingSorted'
  BY DEF PendingSorted
<1>6. SearchInv'
  BY DEF SearchInv
<1>7. RoomInv'
  BY DEF RoomInv, OverrunOnlyAfterFull
<1>8. ArmedInv'
  BY DEF ArmedInv
<1> QED
  BY <1>2, <1>3, <1>4, <1>5, <1>6, <1>7, <1>8

\* A step that changes nothing keeps the invariant.
LEMMA StutterInv == ASSUME OrderInv, UNCHANGED vars PROVE OrderInv'
<1> USE DEF OrderInv, vars, listVars, nodeVars, addVars, histVars
<1>1. TypeOK'
  BY DEF TypeOK
<1>2. WindowInv'
  BY DEF WindowInv
<1>3. IdsInv'
  BY DEF IdsInv, OnePlace
<1>4. PendingSorted'
  BY DEF PendingSorted
<1>5. SearchInv'
  BY DEF SearchInv, Hopeless, Later
<1>6. RoomInv'
  BY DEF RoomInv, OverrunOnlyAfterFull
<1>7. ArmedInv'
  BY DEF ArmedInv
<1> QED
  BY <1>1, <1>2, <1>3, <1>4, <1>5, <1>6, <1>7

\* Every step keeps the inductive invariant.
LEMMA NextInv == ASSUME OrderInv, [Next]_vars PROVE OrderInv'
<1>1. CASE Tick
  BY <1>1, TickInv
<1>2. CASE \E t \in Timers : Del(t) \/ \E d \in Delays : BeginAdd(t, d)
  <2> PICK t \in Timers : Del(t) \/ \E d \in Delays : BeginAdd(t, d)
    BY <1>2
  <2>1. CASE Del(t)
    BY <2>1, DelInv
  <2>2. CASE \E d \in Delays : BeginAdd(t, d)
    <3> PICK d \in Delays : BeginAdd(t, d)
      BY <2>2
    <3> QED
      BY BeginAddInv
  <2> QED
    BY <2>1, <2>2
<1>3. CASE AddStep
  BY <1>3, CompareInv, EndAddInv, OverrunInv DEF AddStep
<1>4. CASE ScheduleStep
  BY <1>4, DropDeletedInv, FireInv, ScheduleInv DEF ScheduleStep
<1>5. CASE UNCHANGED vars
  BY <1>5, StutterInv
<1> QED
  BY <1>1, <1>2, <1>3, <1>4, <1>5 DEF Next

\* OrderInv is an invariant of the timer manager (common/timeaction.c).
THEOREM Invariance == Spec => []OrderInv
<1> QED
  BY InitInv, NextInv, PTL DEF Spec

\* The state of the manager keeps its types: in particular the window and every
\* id stay inside the arrays (timeaction_mgr_s).
THEOREM TimerTypeCorrect == Spec => []TypeOK
<1>1. OrderInv => TypeOK
  BY DEF OrderInv
<1> QED
  BY <1>1, Invariance, PTL

\* The pending timers are always in the order of their deadlines
\* (timeaction_mgr_compositor, 215-231), whatever the wraps of the clock.
THEOREM AlwaysSorted == Spec => []PendingSorted
<1>1. OrderInv => PendingSorted
  BY DEF OrderInv
<1> QED
  BY <1>1, Invariance, PTL

\* timeaction_mgr_add writes past compositor_list only if every node was pending
\* at once since the manager last grew (timeaction_mgr_compositor, 229-230).
THEOREM RoomIfNeverFull == Spec => []OverrunOnlyAfterFull
<1>1. OrderInv => OverrunOnlyAfterFull
  BY DEF OrderInv, RoomInv
<1> QED
  BY <1>1, Invariance, PTL

\* An add whose deadline comes before that of a pending timer never leaves the
\* search of timeaction_mgr_compositor (215-226), whatever the number of timers.
THEOREM EarlierNeverReturns == Spec => EarlierAddHangs
<1>1. OrderInv /\ [Next]_vars => (Hopeless => pc' = "search") \/ UNCHANGED vars
  <2> SUFFICES ASSUME OrderInv, Next, Hopeless PROVE pc' = "search"
    BY DEF vars
  <2>1. pc = "search"
    BY DEF Hopeless
  <2>2. low <= high
    <3>1. TypeOK /\ \E i \in Window : /\ low <= i - compositor_start
                                     /\ i - compositor_start <= high
      BY <2>1 DEF OrderInv, SearchInv
    <3>2. /\ low \in Int /\ high \in Int
          /\ compositor_start \in Int /\ compositor_num \in Int
      BY <3>1 DEF TypeOK
    <3> QED
      BY <3>1, <3>2
  <2>3. ~(low > high)
    BY <2>2 DEF OrderInv, TypeOK
  <2>4. CASE Tick
    BY <2>1, <2>4 DEF Tick
  <2>5. CASE Compare
    BY <2>1, <2>5 DEF Compare
  <2> QED
    BY <2>1, <2>3, <2>4, <2>5, Zenon
    DEF Next, Del, BeginAdd, AddStep, EndAdd, Overrun, ScheduleStep,
        BeginSchedule, DropDeleted, Fire, EndCallback, EndSchedule
<1> QED
  BY <1>1, Invariance, PTL DEF Spec, EarlierAddHangs
-----------------------------------------------------------------------------
(***************************************************************************)
(* Arithmetic of the wrapping counter.                                     *)
(***************************************************************************)

\* Quotient and remainder are unique.
LEMMA DivUnique ==
  ASSUME NEW n \in Nat \ {0}, NEW q \in Int, NEW r \in 0 .. n - 1
  PROVE  (n * q + r) % n = r /\ (n * q + r) \div n = q
OBVIOUS

\* x is its wrapped value in its epoch.
LEMMA DivMod ==
  ASSUME NEW n \in Nat \ {0}, NEW x \in Int
  PROVE  x = n * (x \div n) + (x % n) /\ x % n \in 0 .. n - 1 /\ x \div n \in Int
OBVIOUS

\* A wrapped time is a number.
LEMMA WrapType == \A x \in Nat : x % Wrap \in Int
OBVIOUS

\* Adding to a wrapped value and wrapping again wraps the sum.
LEMMA ModPlus ==
  ASSUME NEW n \in Nat \ {0}, NEW c \in Int, NEW d \in Int
  PROVE  (d + (c % n)) % n = (c + d) % n
<1>1. PICK q \in Int, r \in 0 .. n - 1 : c = n * q + r /\ c % n = r
  BY DivMod
<1>2. d + r \in Int
  BY <1>1
<1>3. PICK k \in Int, m \in 0 .. n - 1 : d + r = n * k + m /\ (d + r) % n = m
  BY <1>2, DivMod
<1>4. c + d = n * (q + k) + m /\ q + k \in Int
  BY <1>1, <1>3
<1>5. (n * (q + k) + m) % n = m
  BY <1>4, DivUnique
<1> QED
  BY <1>1, <1>3, <1>4, <1>5

\* add computes the wrapped deadline from the wrapped clock.
LEMMA DeadlineWraps ==
  ASSUME NEW d \in Delays, clock \in Nat
  PROVE  Deadline(d) = (clock + d) % Wrap
<1>1. d \in Int /\ clock \in Int
  OBVIOUS
<1>2. (d + (clock % Wrap)) % Wrap = (clock + d) % Wrap
  BY <1>1, ModPlus
<1> QED
  BY <1>2, Zenon DEF Deadline

\* In one epoch, the order of wrapped times is the order of times.
LEMMA EpochOrder ==
  ASSUME NEW x \in Nat, NEW y \in Nat, Epoch(x) = Epoch(y)
  PROVE  x % Wrap <= y % Wrap <=> x <= y
<1>1. /\ x = Wrap * (x \div Wrap) + (x % Wrap) /\ x % Wrap \in Int
      /\ y = Wrap * (y \div Wrap) + (y % Wrap) /\ y % Wrap \in Int
      /\ x \div Wrap \in Int /\ y \div Wrap \in Int
  BY DivMod
<1>2. x \div Wrap = y \div Wrap
  BY DEF Epoch
<1> QED
  BY <1>1, <1>2

-----------------------------------------------------------------------------
(***************************************************************************)
(* How the operations move nodes between the free stack, the window and    *)
(* the node being added.                                                   *)
(***************************************************************************)

\* What the order invariant says of the sets.
LEMMA Places ==
  ASSUME OrderInv
  PROVE  /\ Pending \subseteq 0 .. node_num - 1
         /\ FreeIds \subseteq 0 .. node_num - 1
         /\ 0 .. node_num - 1 \subseteq Ids
         /\ FreeIds \cap Pending = {}
         /\ pc = "search" => cur \notin FreeIds \cup Pending
<1>1. WindowInv /\ IdsInv /\ TypeOK
  BY DEF OrderInv
<1>2. Pending \subseteq 0 .. node_num - 1
  BY <1>1 DEF WindowInv, Pending
<1>3. FreeIds \subseteq 0 .. node_num - 1
  <2>1. free_node_ids \in Seq(0 .. node_num - 1)
    BY <1>1 DEF IdsInv
  <2>2. \A k \in 1 .. Len(free_node_ids) : free_node_ids[k] \in 0 .. node_num - 1
    BY <2>1, ElementOfSeq, Zenon
  <2> QED
    BY <2>2, Zenon DEF FreeIds
<1>4. FreeIds \cap Pending = {}
  BY <1>1 DEF IdsInv, FreeIds, Pending
<1>5. pc = "search" => cur \notin FreeIds \cup Pending
  BY <1>1 DEF IdsInv, OnePlace, FreeIds, Pending
<1>6. 0 .. node_num - 1 \subseteq Ids
  BY <1>1 DEF WindowInv, TypeOK
<1> QED
  BY <1>2, <1>3, <1>4, <1>5, <1>6

\* An insertion puts the new id into the window, wherever the window is moved.
LEMMA EndAddPlaces ==
  ASSUME OrderInv, EndAdd
  PROVE  Pending' = Pending \cup {cur} /\ FreeIds' = FreeIds
<1> DEFINE end  == compositor_start + compositor_num
           list == Insert(high + 1)
           num  == compositor_num + 1
<1>1. /\ compositor_start \in Nat /\ compositor_num \in Nat /\ node_num \in Nat
      /\ low \in Nat /\ high \in Int /\ low > high
      /\ end < node_num /\ node_num <= MaxNodes /\ MaxNodes \in Nat
  BY DEF OrderInv, TypeOK, WindowInv, EndAdd
<1>2. high + 1 = compositor_num
  BY <1>1 DEF OrderInv, EndAdd, SearchInv
<1>3. \A i \in Ids : i < end => list[i] = compositor_list[i]
  BY <1>1, <1>2 DEF Insert
<1>4. list[end] = cur /\ end \in Ids
  BY <1>1, <1>2 DEF Insert
<1>5. Pending = {list[i] : i \in compositor_start .. end - 1}
  BY <1>1, <1>3 DEF Pending
<1> HIDE DEF list
<1>6. Pending \cup {cur} = {list[i] : i \in compositor_start .. end}
  BY <1>1, <1>4, <1>5
<1>7. compositor_num' = num /\ free_node_ids' = free_node_ids
  BY DEF EndAdd
<1>8. CASE AtEnd(num)
  <2>1. compositor_list' = Compacted(list, num) /\ compositor_start' = 0
    BY <1>8 DEF EndAdd, list
  <2>2. Window' = 0 .. num - 1
    BY <1>1, <1>7, <2>1
  <2>3. \A i \in 0 .. num - 1 : compositor_list'[i] = list[compositor_start + i]
    BY <1>1, <2>1 DEF Compacted
  <2>4. {list[compositor_start + i] : i \in 0 .. num - 1}
          = {list[i] : i \in compositor_start .. end}
    <3>1. \A i \in compositor_start .. end :
            /\ i - compositor_start \in 0 .. num - 1
            /\ list[compositor_start + (i - compositor_start)] = list[i]
      BY <1>1
    <3>2. \A i \in 0 .. num - 1 : compositor_start + i \in compositor_start .. end
      BY <1>1
    <3> QED
      BY <3>1, <3>2
  <2>5. Pending' = {compositor_list'[i] : i \in 0 .. num - 1}
    BY <2>2 DEF Pending
  <2>6. Pending' = {list[compositor_start + i] : i \in 0 .. num - 1}
    BY <2>3, <2>5, Zenon
  <2> QED
    BY <1>6, <1>7, <2>4, <2>6, Zenon DEF FreeIds
<1>9. CASE ~AtEnd(num)
  <2>1. compositor_list' = list /\ compositor_start' = compositor_start
    BY <1>9 DEF EndAdd, list
  <2>2. Window' = compositor_start .. end
    BY <1>1, <1>7, <2>1
  <2>3. Pending' = {list[i] : i \in compositor_start .. end}
    BY <2>1, <2>2 DEF Pending
  <2> QED
    BY <1>6, <1>7, <2>3 DEF FreeIds
<1> QED
  BY <1>8, <1>9

\* timeaction_mgr_erase moves the head from the window to the free stack.
LEMMA ErasePlaces ==
  ASSUME OrderInv, HeadId # ERROR_COMPOSITOR_INDEX, Erase
  PROVE  /\ HeadId \in Pending
         /\ Pending' = Pending \ {HeadId}
         /\ FreeIds' = FreeIds \cup {HeadId}
<1>1. /\ compositor_start \in Nat /\ compositor_num \in Nat /\ node_num \in Nat
      /\ compositor_start \in Ids /\ compositor_start + compositor_num <= node_num
      /\ compositor_list \in [Ids -> Ids \cup {ERROR_COMPOSITOR_INDEX}]
      /\ node_num <= MaxNodes /\ MaxNodes \in Nat
      /\ free_node_ids \in Seq(Ids)
  BY DEF OrderInv, TypeOK, WindowInv
<1>2. compositor_start \in Window
  BY <1>1 DEF OrderInv, WindowInv, HeadId
<1>3. compositor_num > 0 /\ HeadId \in Ids
  BY <1>1, <1>2 DEF OrderInv, WindowInv, HeadId
<1>4. Window' = Window \ {compositor_start}
  <2>1. compositor_start' = NextStart /\ compositor_num' = compositor_num - 1
    BY DEF Erase
  <2> QED
    BY <1>1, <1>3, <2>1 DEF NextStart
<1>5. \A i \in Window' : compositor_list'[i] = compositor_list[i]
  BY <1>1, <1>4 DEF Erase
<1>6. \A i \in Window : compositor_list[i] = HeadId => i = compositor_start
  BY <1>2 DEF OrderInv, IdsInv, HeadId
<1>7. HeadId \in Pending
  BY <1>2 DEF HeadId, Pending
<1> HIDE DEF Window
<1>8. Pending' = Pending \ {HeadId}
  BY <1>4, <1>5, <1>6 DEF Pending, HeadId
<1>9. FreeIds' = FreeIds \cup {HeadId}
  <2> DEFINE n == Len(free_node_ids)
  <2>1. /\ n \in Nat /\ Len(free_node_ids') = n + 1
        /\ free_node_ids'[n + 1] = HeadId
        /\ \A k \in 1 .. n : free_node_ids'[k] = free_node_ids[k]
    BY <1>1, <1>3 DEF Erase
  <2> HIDE DEF n
  <2>2. 1 .. n + 1 = (1 .. n) \cup {n + 1}
    BY <2>1
  <2> QED
    BY <2>1, <2>2 DEF FreeIds, n
<1> QED
  BY <1>7, <1>8, <1>9

\* Taking the last of some free ids.
LEMMA TakePlaces ==
  ASSUME NEW t, NEW d, NEW S, NEW ids \in Seq(S), ids # <<>>,
         TakeNode(ids, t, d), UNCHANGED listVars
  PROVE  /\ cur' \in S
         /\ {ids[k] : k \in 1 .. Len(ids)} = FreeIds' \cup {cur'}
         /\ Pending' = Pending
<1> DEFINE n == Len(ids)
<1>1. n \in Nat \ {0}
  OBVIOUS
<1>2. cur' = ids[n] /\ free_node_ids' = SubSeq(ids, 1, n - 1)
  BY DEF TakeNode
<1>3. /\ Len(free_node_ids') = n - 1
      /\ \A k \in 1 .. n - 1 : free_node_ids'[k] = ids[k]
  <2> DEFINE m == n - 1
  <2>1. m \in Nat
    BY <1>1
  <2>2. free_node_ids' = SubSeq(ids, 1, m)
    BY <1>2
  <2> HIDE DEF m
  <2>3. Len(SubSeq(ids, 1, m)) = m /\ \A k \in 1 .. m : SubSeq(ids, 1, m)[k] = ids[k]
    BY <2>1
  <2> QED
    BY <2>2, <2>3, Zenon DEF m
<1>4. FreeIds' = {ids[k] : k \in 1 .. n - 1}
  BY <1>3 DEF FreeIds
<1>5. ids[n] \in S
  BY <1>1
<1>7. Pending' = Pending
  BY DEF Pending, listVars
<1> HIDE DEF n
<1>6. 1 .. n = (1 .. n - 1) \cup {n}
  BY <1>1
<1> QED
  BY <1>2, <1>4, <1>5, <1>6, <1>7 DEF n

-----------------------------------------------------------------------------
(***************************************************************************)
(* Every step keeps TimerInv.                                              *)
(***************************************************************************)

\* The manager is new: all its nodes are on the free stack.
LEMMA InitTimer == Init => TimerInv
<1> SUFFICES ASSUME Init PROVE TimerInv
  OBVIOUS
<1>1. Pending = {} /\ Adding = {}
  BY DEF Init, Pending, Adding
<1>2. PlacesInv
  <2>1. \A id \in 0 .. node_num - 1 : /\ id + 1 \in 1 .. Len(free_node_ids)
                                      /\ free_node_ids[id + 1] = id
    BY DEF Init
  <2> QED
    BY <2>1 DEF PlacesInv, FreeIds, Init
<1>3. FreshInv
  BY DEF Init, FreshInv
<1>4. NodesInv
  BY <1>1 DEF NodesInv
<1>5. NoTimerLost
  BY DEF Init, NoTimerLost
<1> QED
  BY <1>2, <1>3, <1>4, <1>5 DEF TimerInv

\* Steps that move no node and touch no timer.
LEMMA TimerFrame ==
  ASSUME TimerInv,
         UNCHANGED <<node_num, free_node_ids, listVars, nodeVars, cur, fresh,
                     handle, due, fired, cleared>>,
         Adding' = Adding,
         pc' = "overrun" => pc = "overrun" \/ (cur < node_num /\ OnePlace(cur))
  PROVE  TimerInv'
<1>1. Pending' = Pending /\ FreeIds' = FreeIds
  BY DEF listVars, Pending, FreeIds
<1>2. PlacesInv'
  <2>1. OnePlace(cur)' <=> OnePlace(cur)
    BY DEF OnePlace, listVars
  <2> QED
    BY <1>1, <2>1, Zenon DEF TimerInv, PlacesInv
<1> HIDE DEF Window
<1>3. FreshInv'
  BY DEF TimerInv, FreshInv
<1>4. NodesInv'
  BY <1>1, Zenon DEF TimerInv, NodesInv, nodeVars
<1>5. NoTimerLost'
  BY <1>1, Zenon DEF TimerInv, NoTimerLost, nodeVars
<1> QED
  BY <1>2, <1>3, <1>4, <1>5 DEF TimerInv

\* Time, the comparisons of the search, an overrun and the walk of schedule.
LEMMA QuietTimer ==
  ASSUME OrderInv, TimerInv,
         \/ Tick \/ Compare \/ Overrun
         \/ BeginSchedule \/ EndCallback \/ EndSchedule
  PROVE  TimerInv'
<1>1. UNCHANGED <<node_num, free_node_ids, listVars, nodeVars, cur, fresh,
                  handle, due, fired, cleared>>
  BY DEF Tick, Compare, Overrun, BeginSchedule, EndCallback, EndSchedule,
         listVars, nodeVars, addVars, histVars
<1>2. Adding' = Adding
  BY DEF Tick, Compare, Overrun, BeginSchedule, EndCallback, EndSchedule,
         addVars, Adding
<1>3. pc' = "overrun" => pc = "overrun" \/ (cur < node_num /\ OnePlace(cur))
  BY DEF Tick, Compare, Overrun, BeginSchedule, EndCallback, EndSchedule,
         OrderInv, IdsInv
<1> QED
  BY <1>1, <1>2, <1>3, TimerFrame

\* The node of a new timer is a free one, so no other timer stands on it.
LEMMA TakeNodeTimer ==
  ASSUME OrderInv, TimerInv, pc \in {"idle", "callback"},
         NEW t \in fresh, NEW d \in Delays, NEW ids,
         ids \in Seq(0 .. node_num' - 1), ids # <<>>,
         node_num' \in Nat, node_num <= node_num', node_num' <= MaxNodes,
         \A k \in 1 .. Len(ids), i \in Window : ids[k] # compositor_list[i],
         0 .. node_num' - 1 \subseteq {ids[k] : k \in 1 .. Len(ids)} \cup Pending,
         TakeNode(ids, t, d), fresh' = fresh \ {t},
         UNCHANGED <<listVars, clock, now, fired, cleared>>
  PROVE  TimerInv'
<1> DEFINE id == ids[Len(ids)]
<1>1. /\ cur' \in 0 .. node_num' - 1
      /\ {ids[k] : k \in 1 .. Len(ids)} = FreeIds' \cup {cur'}
      /\ Pending' = Pending
  BY TakePlaces
<1>2. /\ cur' = id /\ pc' = "search"
      /\ callback' = [callback EXCEPT ![id] = TRUE]
      /\ arg' = [arg EXCEPT ![id] = t]
      /\ left_time' = [left_time EXCEPT ![id] = Deadline(d)]
      /\ handle' = [handle EXCEPT ![t] = id]
      /\ due' = [due EXCEPT ![t] = clock + d]
      /\ fired' = fired /\ cleared' = cleared
  BY DEF TakeNode
<1>3. id \notin Pending
  <2>1. Len(ids) \in 1 .. Len(ids)
    OBVIOUS
  <2> QED
    BY <2>1 DEF Pending
<1> HIDE DEF id, Window
<1>4. Adding = {} /\ Adding' = {id}
  BY <1>2 DEF Adding
<1>5. /\ TypeOK /\ id \in Ids /\ t \in Timers /\ Pending \subseteq Ids
      /\ clock \in Nat /\ MaxNodes \in Nat
  <2>1. TypeOK /\ MaxNodes \in Nat
    BY DEF OrderInv
  <2>2. t \in Timers /\ clock \in Nat
    BY <2>1 DEF TypeOK
  <2>3. id \in Ids
    <3>1. \A n \in 0 .. MaxNodes : \A x \in 0 .. n - 1 : x \in 0 .. MaxNodes - 1
      BY <2>1
    <3>2. node_num' \in 0 .. MaxNodes
      BY <2>1
    <3> QED
      BY <1>1, <1>2, <3>1, <3>2, Zenon DEF Ids
  <2>4. Pending \subseteq Ids
    BY Places, Zenon
  <2> QED
    BY <2>1, <2>2, <2>3, <2>4
<1>6. /\ \A x \in Ids : /\ callback'[x] = IF x = id THEN TRUE ELSE callback[x]
                        /\ arg'[x] = IF x = id THEN t ELSE arg[x]
                        /\ left_time'[x] = IF x = id THEN Deadline(d) ELSE left_time[x]
      /\ \A u \in Timers : /\ handle'[u] = IF u = t THEN id ELSE handle[u]
                           /\ due'[u] = IF u = t THEN clock + d ELSE due[u]
  BY <1>2, <1>5, Zenon DEF TypeOK
<1>7. PlacesInv'
  BY <1>1, <1>2, <1>4 DEF PlacesInv
<1>8. FreshInv'
  <2>1. fresh \subseteq Timers
    BY <1>5 DEF TypeOK
  <2> QED
    BY <1>2, <1>6, <2>1 DEF TimerInv, FreshInv
<1>9. NodesInv'
  <2>1. t \notin fired \cup cleared
    BY DEF TimerInv, FreshInv
  <2>2. ASSUME NEW x \in Pending, callback'[x]
        PROVE  /\ handle'[arg'[x]] = x
               /\ arg'[x] \notin fresh' \cup fired' \cup cleared'
               /\ left_time'[x] = due'[arg'[x]] % Wrap
    <3>1. x # id /\ x \in Ids /\ callback[x]
      BY <1>3, <1>5, <1>6, <2>2
    <3>2. /\ handle[arg[x]] = x
          /\ arg[x] \notin fresh \cup fired \cup cleared
          /\ left_time[x] = due[arg[x]] % Wrap
          /\ arg[x] \in Timers
      BY <3>1, <2>2 DEF TimerInv, NodesInv, OrderInv, ArmedInv
    <3>3. arg[x] # t
      BY <3>2
    <3>4. arg'[x] = arg[x] /\ left_time'[x] = left_time[x]
      BY <1>6, <3>1, Zenon
    <3>5. handle'[arg[x]] = handle[arg[x]] /\ due'[arg[x]] = due[arg[x]]
      BY <1>6, <3>2, <3>3, Zenon
    <3>6. fresh' \subseteq fresh
      OBVIOUS
    <3> QED
      BY <1>2, <3>2, <3>4, <3>5, <3>6, Zenon
  <2>3. /\ arg'[id] = t /\ handle'[t] = id
        /\ left_time'[id] = Deadline(d) /\ due'[t] = clock + d
    BY <1>5, <1>6
  <2>4. left_time'[id] = due'[t] % Wrap
    BY <1>5, <2>3, DeadlineWraps
  <2>5. t \notin fresh'
    OBVIOUS
  <2> QED
    BY <1>1, <1>2, <1>4, <2>1, <2>2, <2>3, <2>4, <2>5, ZenonT(60) DEF NodesInv
<1>10. NoTimerLost'
  <2> SUFFICES ASSUME NEW u \in Timers, handle'[u] >= 0, u \notin fired \cup cleared
               PROVE  /\ arg'[handle'[u]] = u /\ callback'[handle'[u]]
                      /\ handle'[u] \in Pending \cup {id}
    BY <1>1, <1>2, <1>4, Zenon DEF NoTimerLost
  <2>1. CASE u = t
    BY <1>5, <1>6, <2>1
  <2>2. CASE u # t
    <3>1. handle'[u] = handle[u]
      BY <1>6, <2>2
    <3>2. /\ arg[handle[u]] = u /\ callback[handle[u]] /\ handle[u] \in Pending
      BY <1>4, <3>1 DEF TimerInv, NoTimerLost
    <3>3. handle[u] \in Ids /\ handle[u] # id
      BY <1>3, <1>5, <3>2
    <3> QED
      BY <1>6, <3>1, <3>2, <3>3, ZenonT(60)
  <2> QED
    BY <2>1, <2>2
<1> QED
  BY <1>7, <1>8, <1>9, <1>10 DEF TimerInv

\* add takes a free id, or one of the new half of a grown manager, or fails and
\* leaves the timer without a node.
LEMMA BeginAddTimer ==
  ASSUME OrderInv, TimerInv, NEW t \in Timers, NEW d \in Delays, BeginAdd(t, d)
  PROVE  TimerInv'
<1>1. /\ pc \in {"idle", "callback"} /\ t \in fresh /\ fresh' = fresh \ {t}
      /\ UNCHANGED <<listVars, clock, now, fired, cleared>>
  BY DEF BeginAdd
<1>2. /\ WindowInv /\ IdsInv /\ node_num \in Nat \ {0} /\ node_num <= MaxNodes
      /\ MaxNodes \in Nat
  BY DEF OrderInv, TypeOK
<1>3. Adding = {} /\ 0 .. node_num - 1 \subseteq FreeIds \cup Pending
  BY <1>1 DEF TimerInv, PlacesInv, Adding
<1>4. CASE /\ free_node_ids # <<>>
           /\ TakeNode(free_node_ids, t, d)
           /\ UNCHANGED <<node_num, filled>>
  <2>1. /\ free_node_ids \in Seq(0 .. node_num' - 1)
        /\ \A k \in 1 .. Len(free_node_ids), i \in Window :
             free_node_ids[k] # compositor_list[i]
    BY <1>2, <1>4 DEF IdsInv
  <2>2. node_num' \in Nat /\ node_num <= node_num' /\ node_num' <= MaxNodes
    BY <1>2, <1>4
  <2>3. 0 .. node_num' - 1
          \subseteq {free_node_ids[k] : k \in 1 .. Len(free_node_ids)} \cup Pending
    BY <1>3, <1>4 DEF FreeIds
  <2> HIDE DEF Window
  <2> QED
    BY <1>1, <1>4, <2>1, <2>2, <2>3, TakeNodeTimer, Zenon
<1>5. CASE free_node_ids = <<>> /\ Grow /\ TakeNode(GrownIds, t, d)
  <2>1. node_num' = 2 * node_num /\ 2 * node_num <= MaxNodes
    BY <1>5 DEF Grow
  <2>2. node_num' \in Nat /\ node_num <= node_num' /\ node_num' <= MaxNodes
    BY <1>2, <2>1
  <2>3. /\ Len(GrownIds) = node_num
        /\ \A k \in 1 .. node_num : GrownIds[k] = node_num + k - 1
    BY <1>2 DEF GrownIds
  <2>4. GrownIds \in Seq(0 .. node_num' - 1) /\ GrownIds # <<>>
    BY <1>2, <2>1, <2>3 DEF GrownIds
  <2>5. \A k \in 1 .. Len(GrownIds), i \in Window : GrownIds[k] # compositor_list[i]
    <3>1. \A i \in Window : compositor_list[i] \in 0 .. node_num - 1
      BY <1>2 DEF WindowInv
    <3> HIDE DEF Window
    <3> QED
      BY <1>2, <2>3, <3>1
  <2>6. FreeIds = {}
    BY <1>5 DEF FreeIds
  <2>7. 0 .. node_num' - 1 \subseteq {GrownIds[k] : k \in 1 .. Len(GrownIds)} \cup Pending
    <3> SUFFICES ASSUME NEW x \in 0 .. node_num' - 1, x \notin 0 .. node_num - 1
                 PROVE  \E k \in 1 .. Len(GrownIds) : x = GrownIds[k]
      BY <1>3, <2>6
    <3>1. x - node_num + 1 \in 1 .. node_num /\ node_num + (x - node_num + 1) - 1 = x
      BY <1>2, <2>1
    <3> QED
      BY <2>3, <3>1
  <2> HIDE DEF Window
  <2> QED
    BY <1>1, <1>5, <2>2, <2>4, <2>5, <2>7, TakeNodeTimer, Zenon
<1>6. CASE UNCHANGED <<node_num, free_node_ids, nodeVars, pc, addVars, handle, due>>
  <2>1. Pending' = Pending /\ FreeIds' = FreeIds /\ Adding' = Adding
    BY <1>1, <1>6 DEF listVars, addVars, Pending, FreeIds, Adding
  <2>2. PlacesInv'
    BY <1>1, <1>6, <2>1 DEF TimerInv, PlacesInv
  <2>3. FreshInv'
    BY <1>1, <1>6 DEF TimerInv, FreshInv
  <2>4. NodesInv'
    BY <1>1, <1>6, <2>1, Zenon DEF TimerInv, NodesInv, nodeVars
  <2>5. NoTimerLost'
    BY <1>1, <1>6, <2>1, Zenon DEF TimerInv, NoTimerLost, nodeVars
  <2> QED
    BY <2>2, <2>3, <2>4, <2>5 DEF TimerInv
<1> QED
  BY <1>4, <1>5, <1>6, Zenon DEF BeginAdd

\* The new timer's node goes from "being added" to "pending".
LEMMA EndAddTimer ==
  ASSUME OrderInv, TimerInv, EndAdd
  PROVE  TimerInv'
<1>1. Pending' = Pending \cup {cur} /\ FreeIds' = FreeIds
  BY EndAddPlaces
<1>2. /\ pc' = back /\ node_num' = node_num
      /\ left_time' = left_time /\ callback' = callback /\ arg' = arg
      /\ fresh' = fresh /\ handle' = handle /\ due' = due
      /\ fired' = fired /\ cleared' = cleared
  BY DEF EndAdd, nodeVars
<1>3. pc' # "overrun" /\ Adding = {cur} /\ Adding' = {}
  BY <1>2 DEF OrderInv, TypeOK, EndAdd, Adding
<1>4. Pending' \cup Adding' = Pending \cup Adding
  BY <1>1, <1>3
<1>5. PlacesInv'
  BY <1>1, <1>2, <1>3 DEF TimerInv, PlacesInv
<1>6. FreshInv'
  BY <1>2 DEF TimerInv, FreshInv
<1>7. NodesInv'
  BY <1>2, <1>4, Zenon DEF TimerInv, NodesInv
<1>8. NoTimerLost'
  BY <1>2, <1>4, Zenon DEF TimerInv, NoTimerLost
<1> QED
  BY <1>5, <1>6, <1>7, <1>8 DEF TimerInv

\* A del through an old id disarms the timer that has the node now, and that one
\* counts as disarmed.
LEMMA DelTimer ==
  ASSUME OrderInv, TimerInv, NEW t \in Timers, Del(t)
  PROVE  TimerInv'
<1> DEFINE id == DelId(t)
<1>1. /\ pc \in {"idle", "callback"} /\ id \in Ids
      /\ callback' = [callback EXCEPT ![id] = FALSE]
      /\ cleared' = IF id \in Pending /\ callback[id] THEN cleared \cup {arg[id]}
                                                       ELSE cleared
      /\ UNCHANGED <<node_num, free_node_ids, listVars, left_time, arg, pc,
                     addVars, fresh, handle, due, fired>>
  BY DEF Del, DelId, OrderInv, TypeOK, WindowInv
<1>2. Pending' = Pending /\ FreeIds' = FreeIds /\ Adding' = Adding /\ Adding = {}
  BY <1>1 DEF listVars, addVars, Pending, FreeIds, Adding
<1> HIDE DEF id, Window
<1>3. \A x \in Ids : callback'[x] <=> callback[x] /\ x # id
  BY <1>1 DEF OrderInv, TypeOK
<1>4. Pending \subseteq Ids
  BY Places
<1>5. PlacesInv'
  BY <1>1, <1>2 DEF TimerInv, PlacesInv
<1>6. FreshInv'
  BY <1>1, <1>2 DEF TimerInv, FreshInv, NodesInv
<1>7. NodesInv'
  <2> SUFFICES ASSUME NEW x \in Pending, callback'[x]
               PROVE  /\ handle[arg[x]] = x
                      /\ arg[x] \notin fresh \cup fired \cup cleared'
                      /\ left_time[x] = due[arg[x]] % Wrap
    BY <1>1, <1>2, Zenon DEF NodesInv
  <2>1. x # id /\ callback[x]
    BY <1>3, <1>4
  <2>2. /\ handle[arg[x]] = x
        /\ arg[x] \notin fresh \cup fired \cup cleared
        /\ left_time[x] = due[arg[x]] % Wrap
    BY <2>1, Zenon DEF TimerInv, NodesInv
  <2>3. id \in Pending /\ callback[id] => handle[arg[id]] = id
    BY DEF TimerInv, NodesInv
  <2> QED
    BY <1>1, <2>1, <2>2, <2>3
<1>8. NoTimerLost'
  <2> SUFFICES ASSUME NEW u \in Timers, handle[u] >= 0, u \notin fired \cup cleared'
               PROVE  /\ arg[handle[u]] = u /\ callback'[handle[u]]
                      /\ handle[u] \in Pending
    BY <1>1, <1>2, Zenon DEF NoTimerLost
  <2>1. arg[handle[u]] = u /\ callback[handle[u]] /\ handle[u] \in Pending
    BY <1>1, <1>2 DEF TimerInv, NoTimerLost
  <2>2. handle[u] # id
    BY <1>1, <2>1
  <2> QED
    BY <1>3, <1>4, <2>1, <2>2
<1> QED
  BY <1>5, <1>6, <1>7, <1>8 DEF TimerInv

\* schedule takes the head's node away from a disarmed timer, or from the one it
\* calls back.
LEMMA EraseTimer ==
  ASSUME OrderInv, TimerInv, HeadId # ERROR_COMPOSITOR_INDEX, Erase,
         pc = "schedule", pc' \in {"schedule", "callback"},
         fired' = IF callback[HeadId] THEN fired \cup {arg[HeadId]} ELSE fired,
         UNCHANGED <<node_num, nodeVars, fresh, handle, due, cleared>>
  PROVE  TimerInv'
<1>1. /\ HeadId \in Pending
      /\ Pending' = Pending \ {HeadId}
      /\ FreeIds' = FreeIds \cup {HeadId}
  BY ErasePlaces
<1>2. Adding = {} /\ Adding' = {}
  BY DEF Adding
<1> HIDE DEF Window
<1>3. PlacesInv'
  BY <1>1, <1>2 DEF TimerInv, PlacesInv
<1>4. callback[HeadId] => /\ handle[arg[HeadId]] = HeadId
                          /\ arg[HeadId] \notin fresh
  BY <1>1 DEF TimerInv, NodesInv
<1>5. FreshInv'
  BY <1>4 DEF TimerInv, FreshInv
<1>6. NodesInv'
  <2> SUFFICES ASSUME NEW x \in Pending, x # HeadId, callback[x]
               PROVE  /\ handle[arg[x]] = x
                      /\ arg[x] \notin fresh \cup fired' \cup cleared
                      /\ left_time[x] = due[arg[x]] % Wrap
    BY <1>1, <1>2, Zenon DEF NodesInv, nodeVars
  <2>1. /\ handle[arg[x]] = x
        /\ arg[x] \notin fresh \cup fired \cup cleared
        /\ left_time[x] = due[arg[x]] % Wrap
    BY Zenon DEF TimerInv, NodesInv
  <2> QED
    BY <1>4, <2>1
<1>7. NoTimerLost'
  <2> SUFFICES ASSUME NEW u \in Timers, handle[u] >= 0, u \notin fired' \cup cleared
               PROVE  /\ arg[handle[u]] = u /\ callback[handle[u]]
                      /\ handle[u] \in Pending /\ handle[u] # HeadId
    BY <1>1, <1>2, Zenon DEF NoTimerLost, nodeVars
  <2>1. u \notin fired \cup cleared
    OBVIOUS
  <2>2. arg[handle[u]] = u /\ callback[handle[u]] /\ handle[u] \in Pending
    BY <1>2, <2>1 DEF TimerInv, NoTimerLost
  <2>3. handle[u] # HeadId
    BY <2>2
  <2> QED
    BY <2>2, <2>3
<1> QED
  BY <1>3, <1>5, <1>6, <1>7 DEF TimerInv

\* Every step keeps the whole invariant.
LEMMA NextIInv == IInv /\ [Next]_vars => IInv'
<1> SUFFICES ASSUME OrderInv, TimerInv, [Next]_vars PROVE OrderInv' /\ TimerInv'
  BY DEF IInv
<1>1. ASSUME NEW t \in Timers, Del(t) \/ \E d \in Delays : BeginAdd(t, d)
      PROVE  TimerInv'
  BY <1>1, DelTimer, BeginAddTimer
<1>2. ASSUME DropDeleted PROVE TimerInv'
  <2>1. ~callback[HeadId] /\ UNCHANGED <<node_num, nodeVars, fresh, handle, due,
                                         cleared, fired>>
    BY <1>2 DEF DropDeleted, histVars
  <2> QED
    BY <1>2, <2>1, EraseTimer DEF DropDeleted
<1>3. ASSUME Fire PROVE TimerInv'
  BY <1>3, EraseTimer DEF Fire
<1>4. ASSUME UNCHANGED vars PROVE TimerInv'
  <2>1. UNCHANGED <<node_num, free_node_ids, listVars, nodeVars, cur, fresh,
                    handle, due, fired, cleared, pc>>
    BY <1>4 DEF vars, addVars, histVars
  <2>2. Adding' = Adding
    BY <2>1 DEF Adding
  <2> QED
    BY <2>1, <2>2, TimerFrame
<1>5. TimerInv'
  BY <1>1, <1>2, <1>3, <1>4, QuietTimer, EndAddTimer DEF Next, AddStep, ScheduleStep
<1> QED
  BY <1>5, NextInv

\* The whole inductive invariant holds in every state of the manager.
THEOREM WholeInvariance == Spec => []IInv
<1>1. Init => IInv
  BY InitInv, InitTimer DEF IInv
<1> QED
  BY <1>1, NextIInv, PTL DEF Spec

\* A timer that timeaction_mgr_add accepted stays pending and armed until it is
\* called back or disarmed, over growth, compaction and the reuse of nodes.
THEOREM TimersKept == Spec => []NoTimerLost
<1>1. IInv => NoTimerLost
  BY DEF IInv, TimerInv
<1> QED
  BY <1>1, WholeInvariance, PTL

-----------------------------------------------------------------------------
\* A sequence without repetition has as many elements as its range.
LEMMA InjectiveCount ==
  ASSUME NEW n \in Nat, NEW T, NEW f \in [1 .. n -> T],
         \A k, l \in 1 .. n : f[k] = f[l] => k = l,
         \A y \in T : \E k \in 1 .. n : f[k] = y
  PROVE  Cardinality(T) = n
<1>1. f \in Bijection(1 .. n, T)
  BY Fun_IsBij
<1>2. ExistsBijection(1 .. n, T)
  BY <1>1 DEF ExistsBijection
<1> QED
  BY <1>2, FS_CountingElements

\* No node is leaked or in two places (the free stack, compositor_list and the
\* one being added), however the manager grows and is compacted.
THEOREM NodesNeverLeak == Spec => []NodesConserved
<1>1. ASSUME IInv PROVE NodesConserved
  <2>1. /\ TypeOK /\ WindowInv /\ IdsInv
        /\ compositor_start \in Nat /\ compositor_num \in Nat
        /\ free_node_ids \in Seq(Ids)
    BY <1>1 DEF IInv, OrderInv, TypeOK
  <2>2. Len(free_node_ids) = Cardinality(FreeIds)
    <3>1. /\ Len(free_node_ids) \in Nat
          /\ free_node_ids \in [1 .. Len(free_node_ids) -> Ids]
      BY <2>1
    <3>2. \A k, l \in 1 .. Len(free_node_ids) :
            free_node_ids[k] = free_node_ids[l] => k = l
      BY <2>1 DEF IdsInv
    <3>3. /\ \A k \in 1 .. Len(free_node_ids) : free_node_ids[k] \in FreeIds
          /\ \A y \in FreeIds :
               \E k \in 1 .. Len(free_node_ids) : free_node_ids[k] = y
      BY DEF FreeIds
    <3>4. free_node_ids \in [1 .. Len(free_node_ids) -> FreeIds]
      BY <3>1, <3>3
    <3> QED
      BY <3>1, <3>2, <3>3, <3>4, InjectiveCount
  <2>3. compositor_num = Cardinality(Pending)
    <3> DEFINE f == [k \in 1 .. compositor_num |->
                       compositor_list[compositor_start + k - 1]]
    <3>1. \A k \in 1 .. compositor_num : compositor_start + k - 1 \in Window
      BY <2>1
    <3>2. \A i \in Window : /\ i - compositor_start + 1 \in 1 .. compositor_num
                            /\ compositor_start + (i - compositor_start + 1) - 1 = i
      BY <2>1
    <3>3. \A k, l \in 1 .. compositor_num :
            compositor_start + k - 1 = compositor_start + l - 1 => k = l
      BY <2>1
    <3> HIDE DEF Window
    <3>4. \A k, l \in 1 .. compositor_num : f[k] = f[l] => k = l
      BY <2>1, <3>1, <3>3, Zenon DEF IdsInv
    <3>5. f \in [1 .. compositor_num -> Pending]
      BY <3>1, Zenon DEF Pending
    <3>6. \A y \in Pending : \E k \in 1 .. compositor_num : f[k] = y
      BY <3>1, <3>2 DEF Pending
    <3>7. compositor_num \in Nat
      BY <2>1
    <3> HIDE DEF f
    <3> QED
      BY <3>4, <3>5, <3>6, <3>7, InjectiveCount
  <2>4. /\ FreeIds \cap Pending = {}
        /\ FreeIds \cup Pending \subseteq 0 .. node_num - 1
        /\ pc = "search" => cur \notin FreeIds \cup Pending
    BY <1>1, Places DEF IInv
  <2>5. pc = "overrun" => cur \notin FreeIds \cup Pending
    BY <1>1 DEF IInv, TimerInv, PlacesInv, OnePlace, FreeIds, Pending
  <2>6. FreeIds \cup Pending = (0 .. node_num - 1) \ Adding
    BY <1>1, <2>4, <2>5 DEF IInv, TimerInv, PlacesInv, Adding
  <2>7. \A i \in Ids \ Window : compositor_list[i] = ERROR_COMPOSITOR_INDEX
    BY <2>1 DEF WindowInv
  <2> QED
    BY <2>2, <2>3, <2>4, <2>6, <2>7 DEF NodesConserved
<1> QED
  BY <1>1, WholeInvariance, PTL

-----------------------------------------------------------------------------
\* A timer is called back at most once, never after a del disarmed it, and not
\* before its deadline unless the millisecond counter wraps in between.
THEOREM TimersFireRight == Spec => FiresRight
<1> DEFINE Right == \A t \in Timers :
                      pc = "schedule" /\ pc' = "callback" /\ t = arg[HeadId] =>
                        /\ t \notin fired
                        /\ t \notin cleared
                        /\ due[t] <= now \/ Epoch(due[t]) # Epoch(now)
<1>1. ASSUME IInv, [Next]_vars PROVE [Right]_vars
  <2> SUFFICES ASSUME Next, pc = "schedule", pc' = "callback",
                      NEW t \in Timers, t = arg[HeadId]
               PROVE  /\ t \notin fired
                      /\ t \notin cleared
                      /\ due[t] <= now \/ Epoch(due[t]) # Epoch(now)
    BY <1>1
  <2>1. Fire
    BY DEF Next, Tick, Del, BeginAdd, AddStep, Compare, EndAdd, Overrun,
           ScheduleStep, BeginSchedule, DropDeleted, EndCallback, EndSchedule
  <2>2. HeadId \in Pending /\ callback[HeadId] /\ ~NotYet(HeadId)
    BY <1>1, <2>1, ErasePlaces DEF IInv, Fire
  <2>3. t \notin fired \cup cleared /\ left_time[HeadId] = due[t] % Wrap
    BY <1>1, <2>2, Zenon DEF IInv, TimerInv, NodesInv
  <2>4. due[t] \in Nat /\ now \in Nat
    BY <1>1, SMTT(60) DEF IInv, OrderInv, TypeOK
  <2>5. due[t] % Wrap \in Int /\ now % Wrap \in Int
    BY <2>4, WrapType
  <2>6. due[t] % Wrap <= now % Wrap
    BY <2>2, <2>3, <2>5 DEF NotYet
  <2> QED
    BY <2>3, <2>4, <2>6, EpochOrder
<1> QED
  BY <1>1, WholeInvariance, PTL DEF Spec, FiresRight

\* When timeaction_mgr_schedule returns, no armed timer is overdue, unless the
\* counter wraps between its deadline and the moment schedule looked at it.
THEOREM NothingOverdue == Spec => NoneOverdue
<1> DEFINE Done == pc = "schedule" /\ pc' = "idle" =>
                     \A id \in Pending : callback[id] =>
                       \/ due[arg[id]] > now
                       \/ Epoch(due[arg[id]]) # Epoch(now)
<1>1. ASSUME IInv, [Next]_vars PROVE [Done]_vars
  <2> SUFFICES ASSUME Next, pc = "schedule", pc' = "idle",
                      NEW id \in Pending, callback[id],
                      Epoch(due[arg[id]]) = Epoch(now)
               PROVE  due[arg[id]] > now
    BY <1>1
  <2>1. EndSchedule
    BY DEF Next, Tick, Del, BeginAdd, AddStep, Compare, EndAdd, Overrun,
           ScheduleStep, BeginSchedule, DropDeleted, Fire, EndCallback
  <2>2. /\ TypeOK /\ WindowInv /\ PendingSorted /\ ArmedInv
        /\ compositor_start \in Nat /\ compositor_num \in Nat
    BY <1>1 DEF IInv, OrderInv, TypeOK
  <2>3. PICK i \in Window : id = compositor_list[i]
    BY DEF Pending
  <2>4. compositor_start \in Window /\ compositor_start <= i
    BY <2>2
  <2>5. HeadId \in Ids /\ id \in Ids /\ HeadId # ERROR_COMPOSITOR_INDEX
    BY <2>2, <2>3, <2>4 DEF WindowInv, HeadId, TypeOK
  <2>6. left_time[HeadId] > now % Wrap
    BY <2>1, <2>5 DEF EndSchedule, NotYet
  <2>7. left_time[HeadId] <= left_time[id]
    BY <2>2, <2>3, <2>4 DEF PendingSorted, HeadId
  <2>8. left_time[id] = due[arg[id]] % Wrap
    BY <1>1 DEF IInv, TimerInv, NodesInv
  <2>9. due[arg[id]] \in Nat /\ now \in Nat
    BY <2>2, <2>5 DEF ArmedInv, TypeOK
  <2>10. /\ due[arg[id]] % Wrap \in Int /\ now % Wrap \in Int
         /\ left_time[HeadId] \in Int /\ left_time[id] \in Int
    <3>1. left_time[HeadId] \in Int /\ left_time[id] \in Int
      BY <2>2, <2>5 DEF TypeOK
    <3> QED
      BY <2>9, <3>1, WrapType
  <2>11. ~(due[arg[id]] % Wrap <= now % Wrap)
    BY <2>6, <2>7, <2>8, <2>10
  <2> QED
    BY <2>9, <2>11, EpochOrder
<1> QED
  BY <1>1, WholeInvariance, PTL DEF Spec, NoneOverdue
=============================================================================
