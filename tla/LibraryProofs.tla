---------------------------- MODULE LibraryProofs ----------------------------
(***************************************************************************)
(* Proofs about the parts of common/ that share no state: the select set,  *)
(* the events, the collections of an entity, the type pool with the list   *)
(* built on two of them, and the swap list.  Each part has its own         *)
(* specification and its own inductive invariant, which the run            *)
(* "library_parts" checks before it is proved here.  With the sends of     *)
(* iocp.c, proved in IocpSendProofs, they are all the parts of that run:   *)
(* LibraryInvariance, at the end, is about the run itself.                 *)
(***************************************************************************)
EXTENDS MCLibrary, IocpSendProofs, FiniteSetTheorems, FunctionTheorems

(***************************************************************************)
(* The select set of fdset.c.                                              *)
(***************************************************************************)

LEMMA PairFields ==
  \A p \in Pairs : p = <<p[1], p[2]>> /\ p[1] \in Fds /\ p[2] \in Checks
  BY DEF Pairs

\* fdset_push: the array covers the descriptor, or it is outgrown.
LEMMA AddKeeps ==
  ASSUME FdSetInv, fdcrash = "no",
         NEW fd \in Fds, NEW types \in SUBSET Checks, types # {}, Add(fd, types)
  PROVE  FdSetInv'
<1> USE FdAssumption
<1>1. /\ fd \in Nat /\ fd_num \in Nat \cup {NoArray} /\ push_max_fd \in Nat
      /\ max_fd \in Int /\ push_max_fd \in Fds \cup {0}
      /\ max_fd \in Fds \cup {SOCKET_ERROR} \cup (0 .. push_max_fd)
      /\ max_fd <= push_max_fd
      /\ watched \subseteq Pairs /\ outgrown \in BOOLEAN
  BY DEF FdSetInv, FdSetTypeOK, SOCKET_ERROR
<1>2. /\ Doubled(fd) \in Nat
      /\ fd_num' = Doubled(fd)
      /\ max_fd' = Larger(max_fd, fd)
      /\ push_max_fd' = Larger(push_max_fd, fd)
      /\ watched' = watched \cup ({fd} \X types)
      /\ fds' = [i \in 0 .. Doubled(fd) - 1 |-> Pushed(i, fd)]
      /\ outgrown' = (outgrown \/ fd >= Doubled(fd))
  BY <1>1 DEF Add, Doubled, Made, NoArray
<1>3. FdSetTypeOK'
  <2>1. \A i \in 0 .. Doubled(fd) - 1 : Pushed(i, fd) \in {"on", "off", "junk"}
    BY <1>1 DEF Pushed, Skipped, FdSetInv, FdSetTypeOK, NoArray
  <2>2. watched' \subseteq Pairs
    BY <1>1, <1>2 DEF Pairs
  <2> QED
    BY <1>1, <1>2, <2>1, <2>2 DEF FdSetInv, FdSetTypeOK, Add, Larger
<1>4. max_fd' <= push_max_fd'
  BY <1>1, <1>2 DEF Larger
<1>5. ASSUME ~outgrown' PROVE FlagsExact' /\ IsHighest(max_fd)'
  <2>1. /\ ~outgrown /\ fd < Doubled(fd)
        /\ FlagsExact /\ IsHighest(max_fd)
    <3>1. ~outgrown /\ ~(fd >= Doubled(fd))
      <4>1. outgrown' = (outgrown \/ fd >= Doubled(fd)) /\ outgrown \in BOOLEAN
        BY <1>1, <1>2
      <4> QED
        BY <1>5, <4>1, Zenon
    <3>2. fd < Doubled(fd)
      BY <1>1, <1>2, <3>1
    <3> QED
      BY <3>1, <3>2 DEF FdSetInv
  <2>2. push_max_fd' < fd_num'
    BY <1>1, <1>2, <2>1 DEF FlagsExact, Larger, Doubled, Made, NoArray
  <2>3. \A p \in watched' : p \in watched \/ p[1] = fd
    BY <1>2
  <2>4. \A p \in watched' : p[1] <= push_max_fd' /\ p[1] < fd_num'
    <3>1. \A p \in watched : p[1] \in Nat
      BY <1>1 DEF Pairs
    <3> QED
      BY <1>1, <1>2, <2>1, <2>3, <3>1 DEF FlagsExact, Larger, Doubled, Made, NoArray
  <2>5. ASSUME NEW i \in 0 .. push_max_fd', i < fd_num'
        PROVE  fds'[i] = IF Unwatched(i, watched') THEN "off" ELSE "on"
    <3>1. fds'[i] = Pushed(i, fd)
      BY <1>1, <1>2, <2>5 DEF Larger
    <3>2. CASE i = fd
      <4>1. ~Unwatched(i, watched')
        BY <1>2, <3>2 DEF Unwatched
      <4> QED
        BY <3>1, <3>2, <4>1 DEF Pushed
    <3>3. CASE i # fd
      <4>1. Unwatched(i, watched') <=> Unwatched(i, watched)
        BY <1>2, <3>3 DEF Unwatched
      <4>2. i > push_max_fd => Unwatched(i, watched)
        BY <1>1, <2>1, <2>5 DEF Unwatched, FlagsExact
      <4>3. CASE i > push_max_fd
        BY <1>1, <1>2, <2>5, <3>1, <3>3, <4>1, <4>2, <4>3
           DEF Pushed, Skipped, Larger
      <4>4. CASE i <= push_max_fd /\ fd_num # NoArray
        BY <1>1, <2>1, <2>5, <3>1, <3>3, <4>1, <4>4 DEF Pushed, Skipped, FlagsExact
      <4>5. CASE i <= push_max_fd /\ fd_num = NoArray
        <5>1. i = 0 /\ push_max_fd = 0 /\ 0 < fd
          BY <1>1, <2>1, <2>5, <3>3, <4>5 DEF FlagsExact, NoArray
        <5>2. watched = {}
          <6>1. \A p \in watched : p[1] \in Nat /\ p[1] < fd_num
            BY <1>1, <2>1 DEF Pairs, FlagsExact
          <6> QED
            BY <4>5, <6>1 DEF NoArray
        <5> QED
          BY <1>1, <3>1, <3>3, <4>1, <4>5, <5>1, <5>2
             DEF Pushed, Skipped, Unwatched, NoArray
      <4> QED
        BY <1>1, <2>5, <4>3, <4>4, <4>5
    <3> QED
      BY <3>2, <3>3
  <2>6. IsHighest(max_fd)'
    <3>1. PICK c \in types : TRUE
      OBVIOUS
    <3>2. /\ <<fd, c>> \in watched' /\ <<fd, c>>[1] = fd
          /\ watched' # {}
      BY <1>2
    <3>3. \A p \in watched : p[1] \in Nat /\ p \in watched'
      BY <1>1, <1>2 DEF Pairs
    <3> QED
      BY <1>1, <1>2, <2>1, <2>3, <3>2, <3>3 DEF IsHighest, Larger, SOCKET_ERROR
  <2> QED
    BY <2>2, <2>4, <2>5, <2>6 DEF FlagsExact
<1> QED
  BY <1>2, <1>3, <1>4, <1>5 DEF FdSetInv, Add

\* fdset_del: no step of the scan reads junk, and it stops at the next highest.
LEMMA DelKeeps ==
  ASSUME FdSetInv, fdcrash = "no",
         NEW fd \in Fds, NEW types \in SUBSET Checks, Del(fd, types)
  PROVE  FdSetInv'
<1> USE FdAssumption
<1>1. /\ fd \in Nat /\ fd_num \in Nat \cup {NoArray} /\ push_max_fd \in Nat
      /\ max_fd \in Int /\ push_max_fd \in Fds \cup {0}
      /\ max_fd \in Fds \cup {SOCKET_ERROR} \cup (0 .. push_max_fd)
      /\ max_fd <= push_max_fd
      /\ watched \subseteq Pairs
      /\ fds \in [0 .. fd_num - 1 -> {"on", "off", "junk"}]
  BY DEF FdSetInv, FdSetTypeOK, SOCKET_ERROR
<1>2. /\ watched' = watched \ ({fd} \X types)
      /\ UNCHANGED <<results, fd_num, push_max_fd, ready, interrupted, outgrown>>
      /\ watched' \subseteq watched
  BY DEF Del
<1>3. \A p \in watched : p[1] # fd => p \in watched'
  BY <1>2
<1>4. \A p \in watched : /\ p[1] \in Fds /\ p[2] \in Checks
                         /\ p = <<p[1], p[2]>> /\ p[1] \in Nat
  <2>1. watched \subseteq Pairs
    BY <1>1
  <2> QED
    BY <2>1, PairFields
<1>5. CASE /\ ~Unwatched(fd, watched')
           /\ UNCHANGED <<fds, max_fd, fdcrash>>
  <2>1. PICK c \in Checks : <<fd, c>> \in watched'
    BY <1>5 DEF Unwatched
  <2>2. \A i : Unwatched(i, watched') <=> Unwatched(i, watched)
    BY <1>2, <1>5, <2>1 DEF Unwatched
  <2>3. <<fd, c>>[1] = fd /\ <<fd, c>> \in watched
    BY <1>2, <2>1
  <2>4. IsHighest(max_fd) => IsHighest(max_fd)'
    BY <1>2, <1>3, <1>4, <1>5, <2>1, <2>3 DEF IsHighest
  <2>5. FlagsExact => FlagsExact'
    BY <1>2, <1>5, <2>2 DEF FlagsExact
  <2> QED
    BY <1>2, <1>5, <2>4, <2>5 DEF FdSetInv, FdSetTypeOK
<1>6. CASE Unwatched(fd, watched') /\ Erase(fd)
  <2> DEFINE off == [i \in DOMAIN fds |-> IF i = fd THEN "off" ELSE fds[i]]
  <2>1. \A p \in watched' : p[1] # fd
    BY <1>2, <1>4, <1>6 DEF Unwatched
  <2>2. \A i : i # fd => (Unwatched(i, watched') <=> Unwatched(i, watched))
    BY <1>2 DEF Unwatched
  <2>3. CASE UNCHANGED <<fds, max_fd>> /\ fd_num = NoArray /\ fdcrash' = "early"
    <3>1. ASSUME ~outgrown PROVE watched = {} /\ FlagsExact' /\ IsHighest(max_fd)'
      <4>1. FlagsExact /\ IsHighest(max_fd)
        BY <3>1 DEF FdSetInv
      <4>2. watched = {} /\ watched' = {}
        BY <1>2, <1>4, <2>3, <4>1 DEF FlagsExact, NoArray
      <4> QED
        BY <1>1, <1>2, <2>3, <4>1, <4>2 DEF FlagsExact, IsHighest, NoArray
    <3> QED
      BY <1>2, <2>3, <3>1 DEF FdSetInv, FdSetTypeOK
  <2>4. CASE /\ fd_num # NoArray /\ fd = max_fd /\ fd >= fd_num
             /\ fdcrash' = "erase"
             /\ UNCHANGED <<fds, max_fd>>
    <3>1. outgrown
      <4>1. SUFFICES ASSUME ~outgrown PROVE FALSE
        OBVIOUS
      <4>2. FlagsExact /\ IsHighest(max_fd)
        BY <4>1 DEF FdSetInv
      <4> QED
        BY <1>1, <1>4, <2>4, <4>2 DEF FlagsExact, IsHighest, SOCKET_ERROR
    <3> QED
      BY <1>2, <2>4, <3>1 DEF FdSetInv, FdSetTypeOK
  <2>5. CASE /\ fd_num # NoArray /\ (fd = max_fd => fd < fd_num)
             /\ fds' = off
             /\ max_fd' \in (IF fd = max_fd THEN Stops(off, fd) ELSE {max_fd})
             /\ UNCHANGED fdcrash
    <3>1. /\ fd_num \in Nat
          /\ off \in [0 .. fd_num - 1 -> {"on", "off", "junk"}]
          /\ \A i \in 0 .. fd_num - 1 : off[i] = IF i = fd THEN "off" ELSE fds[i]
      BY <1>1, <2>5
    <3> HIDE DEF off
    <3>2. max_fd' <= push_max_fd /\ max_fd' \in {max_fd, SOCKET_ERROR} \cup 0 .. push_max_fd
      <4>1. CASE fd # max_fd
        BY <1>1, <2>5, <4>1
      <4>2. CASE fd = max_fd
        <5>1. max_fd' \in 0 .. fd \/ max_fd' = SOCKET_ERROR
          BY <2>5, <4>2 DEF Stops
        <5> QED
          BY <1>1, <4>2, <5>1 DEF SOCKET_ERROR
      <4> QED
        BY <4>1, <4>2
    <3>3. ASSUME ~outgrown PROVE FlagsExact' /\ IsHighest(max_fd)'
      <4>1. FlagsExact /\ IsHighest(max_fd)
        BY <3>3 DEF FdSetInv
      <4>2. \A i \in 0 .. push_max_fd :
              i < fd_num => off[i] = IF Unwatched(i, watched') THEN "off" ELSE "on"
        BY <1>1, <1>6, <2>2, <3>1, <4>1 DEF FlagsExact
      <4>5. FlagsExact'
        BY <1>2, <2>5, <4>1, <4>2 DEF FlagsExact
      <4>3. ASSUME fd # max_fd PROVE IsHighest(max_fd)'
        <5>1. max_fd' = max_fd
          BY <2>5, <4>3
        <5>2. CASE watched = {}
          <6>1. watched' = {}
            BY <1>2, <5>2
          <6> QED
            BY <4>1, <5>1, <5>2, <6>1 DEF IsHighest
        <5>3. CASE watched # {}
          <6>1. PICK p \in watched : p[1] = max_fd
            BY <4>1, <5>3 DEF IsHighest
          <6>2. p \in watched' /\ p[1] = max_fd'
            BY <1>3, <4>3, <5>1, <6>1
          <6> QED
            BY <1>2, <4>1, <5>1, <5>3, <6>2 DEF IsHighest
        <5> QED
          BY <5>2, <5>3
      <4>4. ASSUME fd = max_fd PROVE IsHighest(max_fd)'
        <5>1. fd <= push_max_fd /\ fd < fd_num
          BY <1>1, <2>5, <4>4
        <5>2. \A i \in 0 .. fd : off[i] = IF Unwatched(i, watched') THEN "off" ELSE "on"
          BY <1>1, <4>2, <5>1
        <5>3. \A p \in watched' : p[1] \in 0 .. fd /\ off[p[1]] = "on"
          BY <1>2, <1>4, <4>1, <4>4, <5>2 DEF IsHighest, Unwatched
        <5>4. max_fd' \in Stops(off, fd)
          BY <2>5, <4>4
        <5>5. CASE /\ max_fd' = SOCKET_ERROR
                   /\ \A j \in 0 .. fd : off[j] # "on"
          <6>1. watched' = {}
            BY <5>3, <5>5
          <6> QED
            BY <5>5, <6>1 DEF IsHighest
        <5>6. CASE /\ max_fd' \in 0 .. fd /\ off[max_fd'] # "off"
                   /\ \A j \in max_fd' + 1 .. fd : off[j] # "on"
          <6>1. ~Unwatched(max_fd', watched')
            BY <5>2, <5>6
          <6>2. \E p \in watched' : p[1] = max_fd'
            BY <6>1 DEF Unwatched
          <6>3. \A p \in watched' : p[1] <= max_fd'
            <7>1. SUFFICES ASSUME NEW p \in watched', ~(p[1] <= max_fd')
                           PROVE  FALSE
              OBVIOUS
            <7>2. /\ p[1] \in 0 .. fd /\ off[p[1]] = "on"
                  /\ fd \in Nat /\ max_fd' \in 0 .. fd
              BY <1>1, <5>3, <5>6
            <7>3. p[1] \in max_fd' + 1 .. fd
              BY <7>1, <7>2
            <7> QED
              BY <5>6, <7>2, <7>3
          <6>4. watched' # {}
            BY <6>2
          <6> QED
            BY <6>2, <6>3, <6>4 DEF IsHighest
        <5> QED
          BY <5>4, <5>5, <5>6 DEF Stops
      <4> QED
        BY <4>3, <4>4, <4>5
    <3>4. FdSetTypeOK'
      BY <1>1, <1>2, <2>5, <3>1, <3>2 DEF FdSetInv, FdSetTypeOK
    <3> QED
      BY <1>2, <2>5, <3>2, <3>3, <3>4 DEF FdSetInv
  <2> QED
    BY <1>6, <2>3, <2>4, <2>5 DEF Erase
<1> QED
  BY <1>5, <1>6 DEF Del

\* fdset_poll: no watched pair is at or behind nfds.
LEMMA PollKeeps ==
  ASSUME FdSetInv, Poll \/ PollInterrupted
  PROVE  FdSetInv'
<1>1. UNCHANGED <<watched, fd_num, fds, max_fd, push_max_fd, outgrown, fdcrash>>
  BY DEF Poll, PollInterrupted
<1>2. \A p \in watched : p \in Pairs /\ p[1] \in Nat
  BY FdAssumption DEF FdSetInv, FdSetTypeOK, Pairs
<1>3. /\ results' \subseteq Pairs /\ ready' \subseteq Pairs
      /\ interrupted' \in BOOLEAN
  BY <1>2 DEF Poll, PollInterrupted
<1>4. ASSUME ~outgrown PROVE interrupted' \/ results' = ready'
  <2>1. IsHighest(max_fd)
    BY <1>4 DEF FdSetInv
  <2>2. CASE Poll
    <3>1. PICK r \in SUBSET watched :
            /\ ready' = r
            /\ IF max_fd = SOCKET_ERROR
               THEN results' = watched
               ELSE \E other \in SUBSET {p \in watched : p[1] >= Nfds} :
                      results' = {p \in r : p[1] < Nfds} \cup other
      BY <2>2 DEF Poll
    <3>2. CASE max_fd = SOCKET_ERROR
      <4>1. watched = {}
        BY <1>2, <2>1, <3>2 DEF IsHighest, SOCKET_ERROR
      <4> QED
        BY <3>1, <3>2, <4>1
    <3>3. CASE max_fd # SOCKET_ERROR
      <4>1. max_fd \in Nat
        BY <1>2, <2>1, <3>3 DEF IsHighest
      <4>2. \A p \in watched : p[1] < Nfds /\ ~(p[1] >= Nfds)
        BY <1>2, <2>1, <3>3, <4>1 DEF IsHighest, Nfds
      <4> QED
        BY <3>1, <3>3, <4>2
    <3> QED
      BY <3>2, <3>3
  <2>3. CASE PollInterrupted
    BY <2>3 DEF PollInterrupted
  <2> QED
    BY <2>2, <2>3
<1> QED
  BY <1>1, <1>3, <1>4 DEF FdSetInv, FdSetTypeOK, FlagsExact, IsHighest

\* The highest descriptor, the flags below it and the results of the last poll
\* stay exact in every reachable state of the select set.
THEOREM SelectInvariance == FdSetSpec => []FdSetInv
<1>1. ASSUME FdSetInit PROVE FdSetInv
  <2>1. fds \in [0 .. fd_num - 1 -> {"on", "off", "junk"}]
    BY <1>1 DEF FdSetInit, NoArray
  <2> QED
    <3>1. FdSetTypeOK
      BY <1>1, <2>1 DEF FdSetInit, FdSetTypeOK, SOCKET_ERROR, NoArray
    <3>2. FlagsExact
      BY <1>1 DEF FdSetInit, FlagsExact, NoArray, Unwatched
    <3>3. IsHighest(max_fd) /\ max_fd <= push_max_fd
      BY <1>1 DEF FdSetInit, IsHighest, SOCKET_ERROR
    <3> QED
      BY <1>1, <3>1, <3>2, <3>3 DEF FdSetInit, FdSetInv
<1>2. FdSetInv /\ [FdSetNext]_fdvars => FdSetInv'
  <2>1. ASSUME FdSetInv, UNCHANGED fdvars PROVE FdSetInv'
    BY <2>1 DEF FdSetInv, FdSetTypeOK, FlagsExact, IsHighest, fdvars
  <2>2. ASSUME FdSetInv, FdSetNext PROVE FdSetInv'
    <3>1. fdcrash = "no"
      BY <2>2 DEF FdSetNext
    <3>2. CASE Poll \/ PollInterrupted
      BY <2>2, <3>2, PollKeeps
    <3>3. CASE \E fd \in Fds, types \in (SUBSET Checks) \ {{}} :
                 Add(fd, types) \/ Del(fd, types)
      <4>1. PICK fd \in Fds, types \in (SUBSET Checks) \ {{}} :
              Add(fd, types) \/ Del(fd, types)
        BY <3>3
      <4> QED
        BY <2>2, <3>1, <4>1, AddKeeps, DelKeeps, Zenon
    <3> QED
      BY <2>2, <3>2, <3>3 DEF FdSetNext
  <2> QED
    BY <2>1, <2>2
<1> QED
  BY <1>1, <1>2, PTL DEF FdSetSpec

\* fdset_poll hides no ready descriptor, fdset_check reports none that was not
\* ready, and fdset_erase never runs off the array, unless it was outgrown.
THEOREM SelectsExactly == FdSetSpec => []SelectExact
<1>1. FdSetInv => SelectExact
  <2>1. \A p \in Pairs : Active(p[1], {p[2]}) <=> p \in results
    BY DEF Active, Pairs
  <2> QED
    BY <2>1 DEF FdSetInv, SelectExact
<1> QED
  BY <1>1, SelectInvariance, PTL
(***************************************************************************)
(* The events of event.c.                                                  *)
(***************************************************************************)

\* A table keeps what it has; insertion respects its size.
LEMMA InsertedTable ==
  ASSUME NEW S, NEW table \in Seq(S), NEW x \in S, NEW max \in Nat,
         Len(table) <= max
  PROVE  /\ Inserted(table, x, max) \in Seq(S)
         /\ Len(table) <= Len(Inserted(table, x, max))
         /\ Len(Inserted(table, x, max)) <= max
         /\ \A i \in 1 .. Len(table) : Inserted(table, x, max)[i] = table[i]
  BY DEF Inserted

\* An insertion lengthens the tables within their sizes.
TablesGrow ==
  /\ handlers' \in [Objects -> Seq(Callbacks)]
  /\ observers' \in [Objects -> Seq(Objects)]
  /\ \A o \in Objects : /\ Len(handlers[o]) <= Len(handlers'[o])
                        /\ Len(observers[o]) <= Len(observers'[o])
                        /\ Len(handlers'[o]) <= MaxHandlers
                        /\ Len(observers'[o]) <= MaxObservers
                        /\ \A i \in 1 .. Len(observers[o]) :
                             observers'[o][i] = observers[o][i]

LEMMA Tables ==
  ASSUME EventInv, NEW o \in Objects
  PROVE  /\ observers[o] \in Seq(Objects) /\ Len(observers[o]) \in Nat
         /\ handlers[o] \in Seq(Callbacks) /\ Len(handlers[o]) \in Nat
         /\ Len(observers[o]) <= MaxObservers /\ Len(handlers[o]) <= MaxHandlers
<1>1. observers[o] \in Seq(Objects) /\ handlers[o] \in Seq(Callbacks)
  BY DEF EventInv
<1>2. Len(observers[o]) <= MaxObservers /\ Len(handlers[o]) <= MaxHandlers
  BY DEF EventInv, EventTypeOK
<1> QED
  BY <1>1, <1>2

LEMMA GrownTables ==
  ASSUME TablesGrow, NEW o \in Objects
  PROVE  /\ Len(observers'[o]) \in Nat /\ Len(handlers'[o]) \in Nat
         /\ Len(handlers[o]) <= Len(handlers'[o])
         /\ Len(observers[o]) <= Len(observers'[o])
         /\ \A i \in 1 .. Len(observers[o]) : observers'[o][i] = observers[o][i]
<1>1. observers'[o] \in Seq(Objects) /\ handlers'[o] \in Seq(Callbacks)
  BY DEF TablesGrow
<1> QED
  BY <1>1 DEF TablesGrow

\* What a notification in progress relies on survives insertions.
LEMMA FrameSurvives ==
  ASSUME EventInv, NEW f, FrameInv(f), TablesGrow
  PROVE  FrameInv(f)'
<1>1. /\ f \in Frame /\ f.root \in Objects /\ f.onum \in Nat
      /\ f.onum <= Len(observers[f.root]) /\ OwedInv(f)
  BY DEF FrameInv, Frame
<1>2. /\ Len(observers[f.root]) \in Nat /\ Len(observers'[f.root]) \in Nat
      /\ observers[f.root] \in Seq(Objects)
      /\ Len(observers[f.root]) <= Len(observers'[f.root])
      /\ \A i \in 1 .. Len(observers[f.root]) :
           observers'[f.root][i] = observers[f.root][i]
  BY <1>1, Tables, GrownTables
<1>3. \A i \in 1 .. f.onum : HandlersOf(f, i) \in Nat /\ HandlersOf(f, i)' \in Nat
                             /\ HandlersOf(f, i) <= HandlersOf(f, i)'
  <2> TAKE i \in 1 .. f.onum
  <2>1. observers[f.root][i] \in Objects /\ observers'[f.root][i] = observers[f.root][i]
    BY <1>1, <1>2
  <2> DEFINE x == observers[f.root][i]
  <2>2. /\ Len(handlers[x]) \in Nat /\ Len(handlers'[x]) \in Nat
        /\ Len(handlers[x]) <= Len(handlers'[x])
    BY <2>1, Tables, GrownTables
  <2> QED
    BY <2>1, <2>2 DEF HandlersOf
<1>4. \A p \in f.owed : /\ p[1] \in 1 .. f.onum
                        /\ p[2] \in 1 .. HandlersOf(f, p[1])'
  BY <1>1, <1>3 DEF OwedInv
<1>5. OwedInv(f)'
  BY <1>1, <1>4 DEF OwedInv, Reached, Before
<1> QED
  BY <1>1, <1>2, <1>5 DEF FrameInv, Reached, Before, InOrder

\* The next callback of a notification lies behind its place, and no handler it
\* owes lies between the two.
LEMMA NextPlaceFields ==
  ASSUME EventInv, NEW f, FrameInv(f), ~IsOver(f)
  PROVE  \E i \in Nat, j \in Nat, h \in Nat :
           /\ NextPlace(f) = [f EXCEPT !.place = <<i, j>>, !.hnum = h]
           /\ Before(f.place, <<i, j>>)
           /\ i <= f.onum /\ j <= h /\ h <= MaxHandlers
           /\ \A p \in f.owed : /\ p[1] = i => p[2] <= h
                                /\ Reached(p, f) \/ p = <<i, j>> \/ Before(<<i, j>>, p)
<1> DEFINE a == f.place[1]
           b == f.place[2]
<1>1. /\ f \in Frame /\ f.root \in Objects /\ f.onum \in Nat /\ f.hnum \in Nat
      /\ a \in Nat /\ b \in Nat /\ f.place = <<a, b>>
      /\ b <= f.hnum /\ a <= f.onum /\ f.hnum <= MaxHandlers
      /\ f.onum <= Len(observers[f.root])
  BY DEF FrameInv, Frame
<1>2. \A p \in f.owed : /\ p = <<p[1], p[2]>> /\ p[2] \in Nat /\ p[1] \in 1 .. f.onum
                        /\ p[2] \in 1 .. HandlersOf(f, p[1])
                        /\ p[1] = a => p[2] <= f.hnum
  <2>1. \A p \in f.owed : p = <<p[1], p[2]>> /\ p[2] \in Nat
    BY <1>1 DEF Frame
  <2> QED
    BY <2>1 DEF FrameInv, OwedInv
<1>3. \A i \in 1 .. f.onum : HandlersOf(f, i) \in 0 .. MaxHandlers
  <2> TAKE i \in 1 .. f.onum
  <2>1. observers[f.root][i] \in Objects
    BY <1>1 DEF EventInv
  <2> QED
    BY <2>1, EventAssumption, SMTT(60) DEF HandlersOf, EventInv, EventTypeOK
<1>4. CASE b < f.hnum
  <2>1. NextPlace(f) = [f EXCEPT !.place = <<a, b + 1>>]
    BY <1>4 DEF NextPlace, LastHandler
  <2>2. NextPlace(f) = [f EXCEPT !.place = <<a, b + 1>>, !.hnum = f.hnum]
    BY <1>1, <2>1 DEF Frame
  <2>3. Before(f.place, <<a, b + 1>>)
    BY <1>1 DEF Before
  <2>4. \A p \in f.owed : \/ Reached(p, f) \/ p = <<a, b + 1>>
                          \/ Before(<<a, b + 1>>, p)
    <3> TAKE p \in f.owed
    <3>1. /\ p = <<p[1], p[2]>> /\ p[1] \in Nat /\ p[2] \in Nat
      BY <1>1, <1>2
    <3>2. CASE p[1] # a
      BY <1>1, <3>1, <3>2 DEF Reached, Before
    <3>3. CASE p[1] = a /\ p[2] <= b
      BY <1>1, <3>1, <3>3 DEF Reached, Before
    <3>4. CASE p[1] = a /\ p[2] >= b + 1
      BY <1>1, <3>1, <3>4 DEF Reached, Before
    <3> QED
      BY <1>1, <3>1, <3>2, <3>3, <3>4
  <2> QED
    <3>1. b + 1 \in Nat /\ b + 1 <= f.hnum
      BY <1>1, <1>4
    <3>2. a \in Nat /\ f.hnum \in Nat
      BY <1>1
    <3> HIDE DEF a, b
    <3> USE <3>1, <3>2
    <3> WITNESS a \in Nat, b + 1 \in Nat, f.hnum \in Nat
    <3> QED
      BY <1>1, <1>2, <2>2, <2>3, <2>4, <3>1
<1>5. CASE ~(b < f.hnum)
  <2>1. Turns(f) # {} /\ Turns(f) \subseteq Nat
    BY <1>1, <1>5 DEF IsOver, LastHandler, Turns
  <2> DEFINE i == CHOOSE i \in Turns(f) : \A k \in Turns(f) : i <= k
  <2>2. i \in Turns(f) /\ \A k \in Turns(f) : i <= k
    <3>1. \E m \in Turns(f) : \A k \in Turns(f) : m <= k
      BY <2>1, SmallestExists
    <3> QED
      BY <3>1
  <2>3. NextPlace(f) = [f EXCEPT !.place = <<i, 1>>, !.hnum = HandlersOf(f, i)]
    BY <1>5 DEF NextPlace, LastHandler
  <2> HIDE DEF i
  <2>4. i \in a + 1 .. f.onum /\ HandlersOf(f, i) > 0
    BY <1>1, <2>2 DEF Turns
  <2>5. HandlersOf(f, i) \in 1 .. MaxHandlers
    BY <1>1, <1>3, <2>4, EventAssumption
  <2>6. Before(f.place, <<i, 1>>)
    BY <1>1, <2>4 DEF Before
  <2>7. \A p \in f.owed : Reached(p, f) \/ p = <<i, 1>> \/ Before(<<i, 1>>, p)
    <3> TAKE p \in f.owed
    <3>1. /\ p = <<p[1], p[2]>> /\ p[1] \in Nat /\ p[2] \in Nat
          /\ p[1] \in 1 .. f.onum /\ p[2] >= 1 /\ HandlersOf(f, p[1]) > 0
          /\ p[1] = a => p[2] <= b
      BY <1>1, <1>2, <1>3, <1>5
    <3>2. CASE p[1] <= a
      BY <1>1, <3>1, <3>2 DEF Reached, Before
    <3>3. CASE p[1] > a
      <4>1. p[1] \in Turns(f)
        BY <1>1, <3>1, <3>3 DEF Turns
      <4>2. i <= p[1]
        BY <2>2, <4>1
      <4> QED
        BY <1>1, <2>4, <3>1, <4>2 DEF Before
    <3> QED
      BY <1>1, <3>1, <3>2, <3>3
  <2> QED
    <3>1. /\ i \in Nat /\ i <= f.onum /\ HandlersOf(f, i) \in Nat
          /\ 1 <= HandlersOf(f, i) /\ HandlersOf(f, i) <= MaxHandlers
      BY <1>1, <2>4, <2>5, EventAssumption
    <3>2. \A p \in f.owed : p[1] = i => p[2] <= HandlersOf(f, i)
      BY <1>2, <3>1
    <3> USE <3>1
    <3> WITNESS i \in Nat, 1 \in Nat, HandlersOf(f, i) \in Nat
    <3> QED
      BY <2>3, <2>6, <2>7, <3>1, <3>2
<1> QED
  BY <1>4, <1>5

\* Calling the next handler keeps what a notification relies on.
LEMMA CalledFrame ==
  ASSUME EventInv, NEW f, FrameInv(f), ~IsOver(f)
  PROVE  FrameInv(Called(f))
<1>1. PICK i \in Nat, j \in Nat, h \in Nat :
           /\ NextPlace(f) = [f EXCEPT !.place = <<i, j>>, !.hnum = h]
           /\ Before(f.place, <<i, j>>)
           /\ i <= f.onum /\ j <= h /\ h <= MaxHandlers
           /\ \A p \in f.owed : /\ p[1] = i => p[2] <= h
                                /\ Reached(p, f) \/ p = <<i, j>> \/ Before(<<i, j>>, p)
  BY NextPlaceFields
<1> DEFINE q == <<i, j>>
           g == Called(f)
<1>2. /\ f \in Frame /\ f.ran \in Seq(Nat \X Nat) /\ f.owed \subseteq Nat \X Nat
      /\ f.place \in Nat \X Nat /\ q \in Nat \X Nat
  BY DEF FrameInv, Frame
<1>3. /\ g \in Frame
      /\ g.root = f.root /\ g.onum = f.onum /\ g.owed = f.owed
      /\ g.place = q /\ g.hnum = h /\ g.ran = Append(f.ran, q)
  <2>1. /\ NextPlace(f) \in Frame /\ NextPlace(f).place = q /\ NextPlace(f).hnum = h
        /\ NextPlace(f).root = f.root /\ NextPlace(f).onum = f.onum
        /\ NextPlace(f).owed = f.owed /\ NextPlace(f).ran = f.ran
    BY <1>1, <1>2 DEF Frame
  <2>2. g = [NextPlace(f) EXCEPT !.ran = Append(@, NextPlace(f).place)]
    BY DEF Called
  <2>3. Append(f.ran, q) \in Seq(Nat \X Nat)
    BY <1>2
  <2> HIDE DEF g, q
  <2> QED
    BY <2>1, <2>2, <2>3 DEF Frame
<1> HIDE DEF g, q
<1>4. Before(f.place, q) /\ q \in Nat \X Nat /\ q[1] = i /\ q[2] = j
  BY <1>1, <1>2 DEF q
<1>5. \A p \in Nat \X Nat : Reached(p, f) => Before(p, q)
  BY <1>2, <1>4 DEF Reached, Before
<1>6. /\ Len(g.ran) = Len(f.ran) + 1 /\ Len(f.ran) \in Nat
      /\ \A n \in 1 .. Len(f.ran) : g.ran[n] = f.ran[n] /\ f.ran[n] \in Nat \X Nat
      /\ g.ran[Len(f.ran) + 1] = q
  <2>1. f.ran \in Seq(Nat \X Nat) /\ q \in Nat \X Nat /\ g.ran = Append(f.ran, q)
    BY <1>2, <1>3, <1>4
  <2> QED
    BY <2>1, AppendProperties, ElementOfSeq, LenProperties, SMTT(60)
<1>7. \A n \in 1 .. Len(f.ran) : Reached(f.ran[n], f) /\ Before(f.ran[n], q)
  BY <1>5, <1>6 DEF FrameInv
<1>8. InOrder(g.ran)
  <2>1. \A m, n \in 1 .. Len(f.ran) : m < n => Before(f.ran[m], f.ran[n])
    BY DEF FrameInv, InOrder
  <2>2. ASSUME NEW m \in 1 .. Len(g.ran), NEW n \in 1 .. Len(g.ran), m < n
        PROVE  Before(g.ran[m], g.ran[n])
    <3>1. m \in 1 .. Len(f.ran)
      BY <1>6, <2>2
    <3>2. CASE n \in 1 .. Len(f.ran)
      BY <1>6, <2>1, <2>2, <3>1, <3>2
    <3>3. CASE n = Len(f.ran) + 1
      BY <1>6, <1>7, <3>1, <3>3
    <3> QED
      BY <1>6, <3>2, <3>3
  <2> QED
    BY <2>2 DEF InOrder
<1>9. \A n \in 1 .. Len(g.ran) : Reached(g.ran[n], g)
  BY <1>3, <1>6, <1>7 DEF Reached
<1>10. OwedInv(g)
  <2>1. SUFFICES ASSUME NEW p \in f.owed
                 PROVE  /\ p[1] \in 1 .. g.onum
                        /\ p[2] \in 1 .. HandlersOf(g, p[1])
                        /\ p[1] = g.place[1] => p[2] <= g.hnum
                        /\ Reached(p, g) => \E n \in 1 .. Len(g.ran) : g.ran[n] = p
    BY <1>3 DEF OwedInv
  <2>2. /\ p[1] \in 1 .. f.onum /\ p[2] \in 1 .. HandlersOf(f, p[1])
        /\ Reached(p, f) => \E n \in 1 .. Len(f.ran) : f.ran[n] = p
    BY DEF FrameInv, OwedInv
  <2>3. HandlersOf(g, p[1]) = HandlersOf(f, p[1])
    BY <1>3 DEF HandlersOf
  <2>4. /\ p[1] = i => p[2] <= h
        /\ Reached(p, f) \/ p = q \/ Before(q, p)
    BY <1>1 DEF q
  <2>5. ASSUME Reached(p, g) PROVE \E n \in 1 .. Len(g.ran) : g.ran[n] = p
    <3>1. ~Before(q, p)
      BY <1>2, <1>3, <1>4, <2>5 DEF Reached, Before
    <3>2. CASE p = q
      BY <1>6, <3>2
    <3>3. CASE Reached(p, f)
      BY <1>6, <2>2, <3>3
    <3> QED
      BY <2>4, <3>1, <3>2, <3>3
  <2> QED
    BY <1>3, <1>4, <2>2, <2>3, <2>4, <2>5
<1> QED
  BY <1>1, <1>3, <1>4, <1>8, <1>9, <1>10 DEF FrameInv, g

\* object_insert_observer and object_insert_handler.
LEMMA InsertKeeps ==
  ASSUME EventInv, NEW o \in Objects,
         \/ \E p \in Objects : InsertObserver(o, p)
         \/ \E c \in Callbacks : InsertHandler(o, c)
  PROVE  EventInv'
<1>1. UNCHANGED <<frames, notified, finished>>
  BY DEF InsertObserver, InsertHandler
<1>2. TablesGrow
  <2>1. /\ handlers \in [Objects -> Seq(Callbacks)]
        /\ observers \in [Objects -> Seq(Objects)]
        /\ \A x \in Objects : /\ Len(handlers[x]) <= MaxHandlers
                              /\ Len(observers[x]) <= MaxObservers
                              /\ Len(handlers[x]) \in Nat /\ Len(observers[x]) \in Nat
    BY DEF EventInv, EventTypeOK
  <2>2. ASSUME NEW p \in Objects, InsertObserver(o, p) PROVE TablesGrow
    <3> DEFINE t == Inserted(observers[o], p, MaxObservers)
    <3>1. /\ t \in Seq(Objects) /\ Len(observers[o]) <= Len(t) /\ Len(t) <= MaxObservers
          /\ \A i \in 1 .. Len(observers[o]) : t[i] = observers[o][i]
      <4>1. observers[o] \in Seq(Objects) /\ Len(observers[o]) <= MaxObservers
        BY <2>1
      <4> QED
        BY <4>1, InsertedTable, EventAssumption
    <3>2. observers' = [observers EXCEPT ![o] = t] /\ handlers' = handlers
      BY <2>2 DEF InsertObserver
    <3> HIDE DEF t
    <3>3. /\ observers' \in [Objects -> Seq(Objects)]
          /\ \A x \in Objects : observers'[x] = IF x = o THEN t ELSE observers[x]
      BY <2>1, <3>1, <3>2
    <3> QED
      <4>1. ASSUME NEW x \in Objects
            PROVE  /\ Len(observers[x]) <= Len(observers'[x])
                   /\ Len(observers'[x]) <= MaxObservers
                   /\ \A i \in 1 .. Len(observers[x]) :
                        observers'[x][i] = observers[x][i]
        <5>1. CASE x = o
          BY <3>1, <3>3, <5>1
        <5>2. CASE x # o
          <6>1. observers'[x] = observers[x]
            BY <3>3, <5>2
          <6>2. Len(observers[x]) \in Nat /\ Len(observers[x]) <= MaxObservers
            BY <2>1
          <6> QED
            BY <6>1, <6>2
        <5> QED
          BY <5>1, <5>2
      <4> QED
        BY <2>1, <3>2, <3>3, <4>1 DEF TablesGrow
  <2>3. ASSUME NEW c \in Callbacks, InsertHandler(o, c) PROVE TablesGrow
    <3> DEFINE t == Inserted(handlers[o], c, MaxHandlers)
    <3>1. /\ t \in Seq(Callbacks) /\ Len(handlers[o]) <= Len(t) /\ Len(t) <= MaxHandlers
      BY <2>1, InsertedTable, EventAssumption
    <3>2. handlers' = [handlers EXCEPT ![o] = t] /\ observers' = observers
      BY <2>3 DEF InsertHandler
    <3> HIDE DEF t
    <3> QED
      BY <2>1, <3>1, <3>2 DEF TablesGrow
  <2> QED
    BY <2>2, <2>3
<1>3. \A n \in 1 .. Len(frames) : FrameInv(frames[n])'
  <2> TAKE n \in 1 .. Len(frames)
  <2>1. PICK f : f = frames[n]
    OBVIOUS
  <2>2. FrameInv(f)
    BY <2>1 DEF EventInv
  <2>3. FrameInv(f)'
    BY <1>2, <2>2, FrameSurvives
  <2> QED
    BY <1>1, <2>1, <2>3 DEF FrameInv, OwedInv, HandlersOf
<1>4. /\ frames' \in Seq(Frame) /\ Len(frames') <= MaxDepth
      /\ \A n \in 1 .. Len(frames') : frames'[n].place \in Places
      /\ notified' \in 0 .. MaxCalls
  BY <1>1 DEF EventInv, EventTypeOK
<1>5. NotifyExact'
  BY <1>1 DEF EventInv, NotifyExact, InOrder, Before
<1>6. \A n \in 1 .. Len(frames') : FrameInv(frames[n])'
  BY <1>1, <1>3
<1>7. EventTypeOK'
  BY <1>2, <1>4 DEF EventTypeOK, TablesGrow
<1> QED
  BY <1>1, <1>2, <1>4, <1>5, <1>6, <1>7 DEF EventInv, TablesGrow

\* The place of a notification is one of the tables'.
LEMMA PlaceInTables ==
  ASSUME EventInv, NEW f, FrameInv(f)
  PROVE  f.place \in Places
<1>1. /\ f.place \in Nat \X Nat /\ f.onum \in Nat /\ f.hnum \in Nat
      /\ f.place[1] <= f.onum /\ f.place[2] <= f.hnum /\ f.hnum <= MaxHandlers
      /\ f.onum <= Len(observers[f.root]) /\ f.root \in Objects
  BY DEF FrameInv, Frame
<1>2. Len(observers[f.root]) <= MaxObservers /\ Len(observers[f.root]) \in Nat
  BY <1>1 DEF EventInv, EventTypeOK
<1> QED
  BY <1>1, <1>2, EventAssumption, SMTT(60) DEF Places

\* object_nofify, up to its first callback.
LEMMA NotifyKeeps ==
  ASSUME EventInv, NEW o \in Objects, Notify(o)
  PROVE  EventInv'
<1> DEFINE f == [root |-> o, onum |-> Len(observers[o]), place |-> <<0, 0>>,
                 hnum |-> 0, owed |-> Owed(o), ran |-> <<>>]
<1>1. /\ Len(frames) < MaxDepth /\ notified < MaxCalls
      /\ notified' = notified + 1
      /\ frames' = IF IsOver(f) THEN frames ELSE Append(frames, Called(f))
      /\ UNCHANGED <<handlers, observers, finished>>
  BY DEF Notify
<1>2. /\ observers[o] \in Seq(Objects) /\ Len(observers[o]) \in Nat
      /\ \A i \in 1 .. Len(observers[o]) :
           /\ observers[o][i] \in Objects
           /\ Len(handlers[observers[o][i]]) \in Nat
  BY DEF EventInv
<1>3. /\ f.root = o /\ f.onum = Len(observers[o]) /\ f.place = <<0, 0>>
      /\ f.hnum = 0 /\ f.owed = Owed(o) /\ f.ran = <<>>
      /\ f = [root |-> o, onum |-> Len(observers[o]), place |-> <<0, 0>>,
              hnum |-> 0, owed |-> Owed(o), ran |-> <<>>]
  OBVIOUS
<1> HIDE DEF f
<1>4. \A p \in Owed(o) : /\ p[1] \in 1 .. Len(observers[o])
                         /\ p[2] \in 1 .. Len(handlers[observers[o][p[1]]])
                         /\ p \in Nat \X Nat
  BY <1>2 DEF Owed
<1>5. FrameInv(f)
  <2>1. f \in Frame
    BY <1>2, <1>3, <1>4 DEF Frame
  <2>2. OwedInv(f)
    BY <1>2, <1>3, <1>4 DEF OwedInv, HandlersOf, Reached, Before
  <2> QED
    BY <1>2, <1>3, <2>1, <2>2, EventAssumption DEF FrameInv, InOrder
<1>6. ~IsOver(f) => FrameInv(Called(f)) /\ Called(f).place \in Places
  BY <1>5, CalledFrame, PlaceInTables
<1>7. /\ frames' \in Seq(Frame) /\ Len(frames') <= MaxDepth
      /\ \A n \in 1 .. Len(frames') : FrameInv(frames'[n]) /\ frames'[n].place \in Places
  <2>1. /\ frames \in Seq(Frame) /\ Len(frames) <= MaxDepth
        /\ \A n \in 1 .. Len(frames) : FrameInv(frames[n]) /\ frames[n].place \in Places
    BY DEF EventInv, EventTypeOK
  <2>2. CASE IsOver(f)
    BY <1>1, <2>1, <2>2
  <2>3. CASE ~IsOver(f)
    <3>1. frames' = Append(frames, Called(f)) /\ Called(f) \in Frame
      BY <1>1, <1>6, <2>3 DEF FrameInv
    <3>2. Len(frames) \in Nat /\ Len(frames) < MaxDepth
      BY <1>1, <2>1
    <3> QED
      BY <1>6, <2>1, <2>3, <3>1, <3>2, EventAssumption
  <2> QED
    BY <2>2, <2>3
<1>8. \A n \in 1 .. Len(frames') : FrameInv(frames[n])'
  BY <1>1, <1>7, ZenonT(60) DEF FrameInv, OwedInv, HandlersOf
<1>9. EventTypeOK'
  BY <1>1, <1>7, EventAssumption DEF EventInv, EventTypeOK
<1>10. NotifyExact'
  BY <1>1 DEF EventInv, NotifyExact, InOrder, Before
<1> QED
  BY <1>1, <1>7, <1>8, <1>9, <1>10 DEF EventInv

\* A callback returns: the notification goes on or has called all it owed.
LEMMA ReturnKeeps ==
  ASSUME EventInv, Return
  PROVE  EventInv'
<1> DEFINE k == Len(frames)
           f == frames[k]
<1>1. /\ frames # <<>>
      /\ IF IsOver(f)
         THEN frames' = SubSeq(frames, 1, k - 1) /\ finished' = f
         ELSE frames' = [frames EXCEPT ![k] = Called(f)] /\ UNCHANGED finished
      /\ UNCHANGED <<handlers, observers, notified>>
  BY DEF Return
<1>2. /\ frames \in Seq(Frame) /\ k \in Nat /\ k <= MaxDepth
      /\ \A n \in 1 .. k : FrameInv(frames[n]) /\ frames[n].place \in Places
  BY DEF EventInv, EventTypeOK
<1>3. k \in 1 .. k /\ FrameInv(f)
  BY <1>1, <1>2
<1> HIDE DEF f
<1>4. /\ frames' \in Seq(Frame) /\ Len(frames') <= MaxDepth
      /\ \A n \in 1 .. Len(frames') : FrameInv(frames'[n]) /\ frames'[n].place \in Places
  <2>1. CASE IsOver(f)
    BY <1>1, <1>2, <2>1, EventAssumption, SMTT(60)
  <2>2. CASE ~IsOver(f)
    <3>1. FrameInv(Called(f)) /\ Called(f) \in Frame /\ Called(f).place \in Places
      BY <1>3, <2>2, CalledFrame, PlaceInTables DEF FrameInv
    <3> QED
      BY <1>1, <1>2, <2>2, <3>1
  <2> QED
    BY <2>1, <2>2
<1>5. NotifyExact'
  <2>1. CASE IsOver(f)
    <3>1. finished' = f
      BY <1>1, <2>1
    <3>2. /\ f \in Frame /\ InOrder(f.ran) /\ OwedInv(f)
          /\ f.place[1] <= f.onum
          /\ \A n \in 1 .. Len(f.ran) : Reached(f.ran[n], f)
          /\ f.ran \in Seq(Nat \X Nat) /\ f.owed \subseteq Nat \X Nat
          /\ f.onum \in Nat /\ f.hnum \in Nat /\ f.place \in Nat \X Nat
      BY <1>3 DEF FrameInv, Frame
    <3>3. f.place[2] >= f.hnum /\ Turns(f) = {}
      BY <2>1 DEF IsOver, LastHandler
    <3>4. \A p \in f.owed : Reached(p, f)
      <4> TAKE p \in f.owed
      <4>1. /\ p \in Nat \X Nat /\ p[1] \in 1 .. f.onum
            /\ p[2] \in 1 .. HandlersOf(f, p[1])
            /\ p[1] = f.place[1] => p[2] <= f.hnum
        BY <3>2 DEF OwedInv
      <4>2. ~(p[1] > f.place[1])
        <5>1. SUFFICES ASSUME p[1] > f.place[1] PROVE FALSE
          OBVIOUS
        <5>2. HandlersOf(f, p[1]) > 0
          <6>1. f.root \in Objects /\ f.onum <= Len(observers[f.root])
            BY <1>3 DEF FrameInv, Frame
          <6>2. observers[f.root][p[1]] \in Objects
            BY <3>2, <4>1, <6>1 DEF EventInv
          <6>3. HandlersOf(f, p[1]) \in Nat
            BY <6>2 DEF HandlersOf, EventInv
          <6> QED
            BY <4>1, <6>3
        <5> QED
          BY <3>2, <3>3, <4>1, <5>1, <5>2 DEF Turns
      <4> QED
        BY <3>2, <3>3, <4>1, <4>2 DEF Reached, Before
    <3>5. \A p \in f.owed : \E n \in 1 .. Len(f.ran) : f.ran[n] = p
      BY <3>2, <3>4 DEF OwedInv
    <3>6. \A n \in 1 .. Len(f.ran) : f.ran[n][1] <= f.onum
      <4> TAKE n \in 1 .. Len(f.ran)
      <4>1. Reached(f.ran[n], f) /\ f.ran[n] \in Nat \X Nat
        BY <3>2
      <4> QED
        <5>1. /\ f.place[1] \in Nat /\ f.place[1] <= f.onum /\ f.onum \in Nat
              /\ f.ran[n][1] \in Nat
          BY <3>2, <4>1
        <5> QED
          BY <4>1, <5>1 DEF Reached, Before
    <3>7. InOrder(finished.ran)'
      BY <3>1, <3>2, ZenonT(60) DEF InOrder, Before
    <3>8. f.owed \subseteq {f.ran[n] : n \in 1 .. Len(f.ran)}
      BY <3>5
    <3> QED
      BY <3>1, <3>6, <3>7, <3>8 DEF NotifyExact
  <2>2. CASE ~IsOver(f)
    <3>1. finished' = finished
      BY <1>1, <2>2
    <3>2. NotifyExact
      BY DEF EventInv
    <3> QED
      BY <3>1, <3>2 DEF NotifyExact
  <2> QED
    BY <2>1, <2>2
<1>6. \A n \in 1 .. Len(frames') : FrameInv(frames[n])'
  BY <1>1, <1>4 DEF FrameInv, OwedInv, HandlersOf
<1>7. EventTypeOK'
  BY <1>1, <1>4 DEF EventInv, EventTypeOK
<1> QED
  BY <1>1, <1>4, <1>5, <1>6, <1>7 DEF EventInv

\* What every notification in progress has run and still owes is exact in
\* every reachable state of the events.
THEOREM EventInvariance == EventSpec => []EventInv
<1>1. EventInit => EventInv
  BY EventAssumption
     DEF EventInit, EventInv, EventTypeOK, NotifyExact, InOrder, NoFrame
<1>2. EventInv /\ [EventNext]_evvars => EventInv'
  <2>1. ASSUME EventInv, UNCHANGED evvars PROVE EventInv'
    <3>1. UNCHANGED <<handlers, observers, frames, notified, finished>>
      BY <2>1 DEF evvars
    <3> QED
      BY <2>1, <3>1 DEF EventInv, EventTypeOK, FrameInv, OwedInv, HandlersOf, NotifyExact
  <2>2. ASSUME EventInv, EventNext PROVE EventInv'
    BY <2>2, InsertKeeps, NotifyKeeps, ReturnKeeps DEF EventNext
  <2> QED
    BY <2>1, <2>2
<1> QED
  BY <1>1, <1>2, PTL DEF EventSpec

\* A notification calls everything registered when it began, once and in
\* order, whatever its callbacks insert or notify.
THEOREM NotifiesExactly == EventSpec => []NotifyExact
<1>1. EventInv => NotifyExact
  BY DEF EventInv
<1> QED
  BY <1>1, EventInvariance, PTL
(***************************************************************************)
(* A collection of an entity of dnotify.h.                                 *)
(***************************************************************************)

LEMMA NoListIsNone == NoList \notin Seq(Handlers)
<1>1. SUFFICES ASSUME NoList \in Seq(Handlers) PROVE FALSE
  OBVIOUS
<1>2. NoList[1] \in Handlers
  BY <1>1 DEF NoList
<1> QED
  BY <1>2, EntityAssumption DEF NoList

LEMMA PlaceInList ==
  ASSUME NEW list \in Seq(Handlers), NEW h \in Members(list)
  PROVE  PlaceIn(list, h) \in 1 .. Len(list) /\ list[PlaceIn(list, h)] = h
<1>1. \E i \in 1 .. Len(list) : list[i] = h
  BY DEF Members
<1> QED
  BY <1>1 DEF PlaceIn

\* Deleting a handler closes the gap and moves no other past another.
LEMMA ErasedList ==
  ASSUME NEW list \in Seq(Handlers), NEW h \in Members(list)
  PROVE  /\ Erased(list, h) \in Seq(Handlers)
         /\ Len(Erased(list, h)) = Len(list) - 1
         /\ \A i \in 1 .. Len(list) - 1 :
              Erased(list, h)[i] = IF i < PlaceIn(list, h) THEN list[i] ELSE list[i + 1]
<1> DEFINE d == PlaceIn(list, h)
<1>1. d \in 1 .. Len(list) /\ Len(list) \in Nat
  BY PlaceInList
<1> HIDE DEF d
<1> DEFINE u == SubSeq(list, 1, d - 1)
           v == SubSeq(list, d + 1, Len(list))
<1>2. /\ u \in Seq(Handlers) /\ Len(u) = d - 1
      /\ \A i \in 1 .. d - 1 : u[i] = list[i]
  BY <1>1
<1>3. /\ v \in Seq(Handlers) /\ Len(v) = Len(list) - d
      /\ \A i \in 1 .. Len(list) - d : v[i] = list[d + i]
  BY <1>1
<1>4. Erased(list, h) = u \o v
  BY DEF Erased, d
<1> HIDE DEF u, v
<1>5. /\ u \o v \in Seq(Handlers) /\ Len(u \o v) = Len(list) - 1
      /\ \A i \in 1 .. Len(list) - 1 :
           (u \o v)[i] = IF i < d THEN u[i] ELSE v[i - (d - 1)]
  <2>1. /\ u \o v \in Seq(Handlers) /\ Len(u \o v) = Len(u) + Len(v)
        /\ \A i \in 1 .. Len(u) + Len(v) :
             (u \o v)[i] = IF i <= Len(u) THEN u[i] ELSE v[i - Len(u)]
    BY <1>2, <1>3, ConcatProperties
  <2>2. \A i \in Nat : i <= d - 1 <=> i < d
    BY <1>1
  <2> QED
    BY <1>1, <1>2, <1>3, <2>1, <2>2
<1>6. \A i \in 1 .. Len(list) - 1 : (u \o v)[i] = IF i < d THEN list[i] ELSE list[i + 1]
  <2> TAKE i \in 1 .. Len(list) - 1
  <2>1. CASE i < d
    BY <1>1, <1>2, <1>5, <2>1
  <2>2. CASE ~(i < d)
    <3>1. i - (d - 1) \in 1 .. Len(list) - d /\ d + (i - (d - 1)) = i + 1
      BY <1>1, <2>2
    <3> QED
      BY <1>3, <1>5, <2>2, <3>1
  <2> QED
    BY <2>1, <2>2
<1> QED
  BY <1>4, <1>5, <1>6 DEF d

LEMMA ErasedDistinct ==
  ASSUME NEW list \in Seq(Handlers), NEW h \in Members(list), Distinct(list)
  PROVE  Distinct(Erased(list, h))
<1> DEFINE e == Erased(list, h)
           d == PlaceIn(list, h)
<1>1. /\ d \in 1 .. Len(list) /\ Len(list) \in Nat /\ Len(e) = Len(list) - 1
      /\ \A i \in 1 .. Len(list) - 1 : e[i] = IF i < d THEN list[i] ELSE list[i + 1]
  BY PlaceInList, ErasedList
<1> HIDE DEF e, d
<1>2. SUFFICES ASSUME NEW i \in 1 .. Len(e), NEW j \in 1 .. Len(e), e[i] = e[j]
               PROVE  i = j
  BY DEF Distinct, e
<1> DEFINE x == IF i < d THEN i ELSE i + 1
           y == IF j < d THEN j ELSE j + 1
<1>3. /\ x \in 1 .. Len(list) /\ y \in 1 .. Len(list)
      /\ e[i] = list[x] /\ e[j] = list[y]
  BY <1>1
<1>4. x = y
  BY <1>2, <1>3 DEF Distinct
<1> QED
  BY <1>1, <1>4

\* addLogic appends behind every execution.
LEMMA OnListAppend ==
  ASSUME NEW list \in Seq(Handlers), NEW h \in Handlers, NEW now, NEW owed, NEW ran,
         OnList(now, owed, ran, list)
  PROVE  OnList(now, owed, ran, Append(list, h))
<1> DEFINE a == Append(list, h)
<1>1. /\ Len(a) = Len(list) + 1 /\ Len(list) \in Nat
      /\ \A i \in 1 .. Len(list) : i \in 1 .. Len(a) /\ a[i] = list[i]
  OBVIOUS
<1> HIDE DEF a
<1> QED
  BY <1>1 DEF OnList, a

\* delLogic of another handler moves the executions with their handlers.
LEMMA OnListErase ==
  ASSUME NEW list \in Seq(Handlers), NEW h \in Members(list), Distinct(list),
         NEW now, NEW owed, NEW ran, now # h, OnList(now, owed, ran, list)
  PROVE  OnList(now, owed \ {h}, ran, Erased(list, h))
<1> DEFINE e == Erased(list, h)
           d == PlaceIn(list, h)
           to(i) == IF i < d THEN i ELSE i - 1
<1>1. /\ d \in 1 .. Len(list) /\ Len(list) \in Nat /\ Len(e) = Len(list) - 1
      /\ list[d] = h
      /\ \A i \in 1 .. Len(list) - 1 : e[i] = IF i < d THEN list[i] ELSE list[i + 1]
  BY PlaceInList, ErasedList, SMTT(60)
<1> HIDE DEF e, d
<1>2. \A i \in 1 .. Len(list) : i # d => to(i) \in 1 .. Len(e) /\ e[to(i)] = list[i]
  BY <1>1
<1>3. \A i, j \in 1 .. Len(list) : i # d /\ j # d => (to(i) <= to(j) <=> i <= j)
  BY <1>1
<1> HIDE DEF to
<1>4. PICK p \in 1 .. Len(list) :
        /\ list[p] = now
        /\ \A g \in owed : \E q \in 1 .. Len(list) :
             /\ list[q] = g
             /\ IF q <= p THEN Once(g, ran) ELSE Times(g, ran) = {}
  BY DEF OnList
<1>5. p # d /\ to(p) \in 1 .. Len(e) /\ e[to(p)] = now
  BY <1>1, <1>2, <1>4
<1>6. ASSUME NEW g \in owed \ {h}
      PROVE  \E q \in 1 .. Len(e) :
               /\ e[q] = g
               /\ IF q <= to(p) THEN Once(g, ran) ELSE Times(g, ran) = {}
  <2>1. PICK q \in 1 .. Len(list) :
          /\ list[q] = g
          /\ IF q <= p THEN Once(g, ran) ELSE Times(g, ran) = {}
    BY <1>4, <1>6
  <2>2. q # d /\ to(q) \in 1 .. Len(e) /\ e[to(q)] = g /\ (to(q) <= to(p) <=> q <= p)
    BY <1>1, <1>2, <1>3, <1>5, <1>6, <2>1
  <2> QED
    BY <2>1, <2>2
<1> QED
  BY <1>5, <1>6 DEF OnList, e

\* How often a handler was called, when one more is.
LEMMA TimesAppend ==
  ASSUME NEW ran \in Seq(Handlers), NEW g \in Handlers
  PROVE  /\ \A h : h # g => Times(h, Append(ran, g)) = Times(h, ran)
         /\ Times(g, ran) = {} => Once(g, Append(ran, g))
<1> DEFINE a == Append(ran, g)
<1>1. /\ Len(a) = Len(ran) + 1 /\ Len(ran) \in Nat
      /\ \A i \in 1 .. Len(ran) : a[i] = ran[i]
      /\ a[Len(ran) + 1] = g
  OBVIOUS
<1> HIDE DEF a
<1>2. \A h : h # g => Times(h, a) = Times(h, ran)
  BY <1>1 DEF Times
<1>3. ASSUME Times(g, ran) = {} PROVE Once(g, a)
  <2>1. Times(g, a) = {Len(ran) + 1}
    BY <1>1, <1>3 DEF Times
  <2>2. Len(ran) + 1 \in 1 .. Len(a)
    BY <1>1
  <2> QED
    BY <2>1, <2>2 DEF Once
<1> QED
  BY <1>2, <1>3 DEF a

LEMMA OnceAppend ==
  ASSUME NEW ran \in Seq(Handlers), NEW g \in Handlers, NEW h, h # g, Once(h, ran)
  PROVE  Once(h, Append(ran, g))
<1>1. Times(h, Append(ran, g)) = Times(h, ran)
  BY TimesAppend
<1>2. \A i \in 1 .. Len(ran) : i \in 1 .. Len(Append(ran, g))
  OBVIOUS
<1> QED
  BY <1>1, <1>2 DEF Once

\* The execution goes on to the handler behind the one it stands at.
LEMMA OnListAdvance ==
  ASSUME NEW list \in Seq(Handlers), Distinct(list),
         NEW now, NEW owed, NEW ran \in Seq(Handlers), OnList(now, owed, ran, list),
         Behind(list, now) # <<>>
  PROVE  /\ Behind(list, now)[1] \in Handlers
         /\ OnList(Behind(list, now)[1], owed, Append(ran, Behind(list, now)[1]), list)
<1>1. PICK p \in 1 .. Len(list) :
        /\ list[p] = now
        /\ \A g \in owed : \E q \in 1 .. Len(list) :
             /\ list[q] = g
             /\ IF q <= p THEN Once(g, ran) ELSE Times(g, ran) = {}
  BY DEF OnList
<1>2. now \in Members(list)
  BY <1>1 DEF Members
<1>3. PlaceIn(list, now) = p
  BY <1>1, <1>2, PlaceInList DEF Distinct
<1>4. /\ Len(list) \in Nat /\ p + 1 \in 1 .. Len(list)
      /\ Behind(list, now)[1] = list[p + 1]
  BY <1>3 DEF Behind
<1> DEFINE g == list[p + 1]
<1>5. g \in Handlers
  BY <1>4
<1>6. ASSUME NEW h \in owed
      PROVE  \E q \in 1 .. Len(list) :
               /\ list[q] = h
               /\ IF q <= p + 1 THEN Once(h, Append(ran, g))
                  ELSE Times(h, Append(ran, g)) = {}
  <2>1. PICK q \in 1 .. Len(list) :
          /\ list[q] = h
          /\ IF q <= p THEN Once(h, ran) ELSE Times(h, ran) = {}
    BY <1>1, <1>6
  <2>2. h = g <=> q = p + 1
    BY <1>4, <2>1 DEF Distinct
  <2> HIDE DEF g
  <2>3. CASE q <= p
    BY <1>4, <1>5, <2>1, <2>2, <2>3, OnceAppend
  <2>4. CASE q = p + 1
    BY <1>4, <1>5, <2>1, <2>2, <2>4, TimesAppend
  <2>5. CASE q > p + 1
    BY <1>4, <1>5, <2>1, <2>2, <2>5, TimesAppend
  <2> QED
    BY <2>3, <2>4, <2>5
<1> QED
  BY <1>4, <1>5, <1>6 DEF OnList

\* It ends at the last handler, having called all it owed once.
LEMMA OnListEnd ==
  ASSUME NEW list \in Seq(Handlers), Distinct(list),
         NEW now, NEW owed, NEW ran, OnList(now, owed, ran, list),
         Behind(list, now) = <<>>
  PROVE  \A h \in owed : Once(h, ran)
<1>1. PICK p \in 1 .. Len(list) :
        /\ list[p] = now
        /\ \A g \in owed : \E q \in 1 .. Len(list) :
             /\ list[q] = g
             /\ IF q <= p THEN Once(g, ran) ELSE Times(g, ran) = {}
  BY DEF OnList
<1>2. now \in Members(list)
  BY <1>1 DEF Members
<1>3. PlaceIn(list, now) = p
  BY <1>1, <1>2, PlaceInList DEF Distinct
<1>4. p = Len(list) /\ Len(list) \in Nat
  <2>1. Len(Behind(list, now)) = 0
    OBVIOUS
  <2>2. p < Len(list) => Len(Behind(list, now)) = Len(list) - p
    BY <1>3 DEF Behind
  <2> QED
    BY <2>1, <2>2
<1> QED
  BY <1>1, <1>4

\* It begins with the first.
LEMMA OnListStart ==
  ASSUME NEW list \in Seq(Handlers), Distinct(list), list # <<>>
  PROVE  OnList(list[1], Members(list), <<list[1]>>, list)
<1>1. 1 \in 1 .. Len(list) /\ Len(list) \in Nat /\ list[1] \in Handlers
  OBVIOUS
<1> DEFINE s == <<list[1]>>
<1>2. Len(s) = 1 /\ s[1] = list[1]
  OBVIOUS
<1> HIDE DEF s
<1>3. ASSUME NEW h \in Members(list)
      PROVE  \E q \in 1 .. Len(list) :
               /\ list[q] = h
               /\ IF q <= 1 THEN Once(h, s) ELSE Times(h, s) = {}
  <2>1. PICK q \in 1 .. Len(list) : list[q] = h
    BY <1>3 DEF Members
  <2>2. CASE q = 1
    <3>1. Times(h, s) = {1}
      BY <1>2, <2>1, <2>2 DEF Times
    <3> QED
      BY <1>2, <2>1, <2>2, <3>1 DEF Once
  <2>3. CASE q # 1
    <3>1. h # list[1]
      BY <1>1, <2>1, <2>3 DEF Distinct
    <3>2. Times(h, s) = {}
      BY <1>2, <3>1 DEF Times
    <3> QED
      BY <1>1, <2>1, <2>3, <3>2
  <2> QED
    BY <2>2, <2>3
<1> QED
  BY <1>1, <1>3 DEF OnList, s

LEMMA FunctionIsSeq ==
  ASSUME NEW S, NEW n \in Nat, NEW f \in [1 .. n -> S]
  PROVE  f \in Seq(S) /\ Len(f) = n
  BY SeqDef

LEMMA EntityTypes ==
  ASSUME EntityInv
  PROVE  /\ m_logics \in Seq(Seq(Handlers) \cup {NoList}) /\ Len(m_logics) \in Nat
         /\ Len(m_logics) <= KeyNum
         /\ rounds \in Seq(Round)
         /\ \A n \in 1 .. Len(rounds) : RoundInv(rounds[n])
         /\ \A i \in 1 .. Len(m_logics) :
              m_logics[i] # NoList => m_logics[i] \in Seq(Handlers) /\ Distinct(m_logics[i])
         /\ \A key \in Nat : InVector(key) => key + 1 \in 1 .. Len(m_logics)
<1>1. /\ m_logics \in Seq(Seq(Handlers) \cup {NoList})
      /\ rounds \in Seq(Round)
      /\ \A n \in 1 .. Len(rounds) : RoundInv(rounds[n])
      /\ \A i \in 1 .. Len(m_logics) : m_logics[i] # NoList => Distinct(m_logics[i])
  BY DEF EntityInv
<1>2. Len(m_logics) <= KeyNum
  BY DEF EntityInv, EntityTypeOK
<1> QED
  BY <1>1, <1>2 DEF InVector

LEMMA ListType ==
  ASSUME EntityInv, NEW key \in Nat, HasList(key)
  PROVE  /\ ListAt(key) \in Seq(Handlers) /\ Distinct(ListAt(key))
         /\ key + 1 \in 1 .. Len(m_logics)
<1>1. key + 1 \in 1 .. Len(m_logics) /\ m_logics[key + 1] # NoList
  BY EntityTypes DEF HasList, ListAt
<1> QED
  BY <1>1, EntityTypes DEF ListAt

\* The rounds in progress keep their fields' types.
LEMMA RoundsTyped ==
  ASSUME rounds' \in Seq(Round)
  PROVE  \A n \in 1 .. Len(rounds') : /\ rounds'[n].key \in 0 .. KeyNum - 1
                                      /\ rounds'[n].at \in Handlers
                                      /\ rounds'[n].owed \subseteq Handlers
                                      /\ rounds'[n].ran \in Seq(Handlers)
<1>1. \A n \in 1 .. Len(rounds') : rounds'[n] \in Round
  OBVIOUS
<1> QED
  BY <1>1 DEF Round

\* addLogic: no round in progress loses its list.
LEMMA AddLogicKeeps ==
  ASSUME EntityInv, ecrash = "no",
         NEW key \in 0 .. KeyNum - 1, NEW h \in Handlers, AddLogic(key, h)
  PROVE  EntityInv'
<1> USE EntityAssumption
<1>1. /\ added < MaxAdds /\ added' = added + 1
      /\ HasList(key) => h \notin Members(ListAt(key))
      /\ UNCHANGED <<rounds, executed, ended>>
  BY DEF AddLogic
<1>2. /\ m_logics \in Seq(Seq(Handlers) \cup {NoList}) /\ Len(m_logics) \in Nat
      /\ Len(m_logics) <= KeyNum /\ rounds \in Seq(Round) /\ key \in Nat
      /\ \A i \in 1 .. Len(m_logics) :
           m_logics[i] # NoList => m_logics[i] \in Seq(Handlers) /\ Distinct(m_logics[i])
  BY EntityTypes
<1>3. /\ ecrash' \in {"no", "list", "iterator"} /\ misused' \in BOOLEAN
      /\ ecrash' # "no" => misused'
      /\ misused => misused'
  <2>1. misused \in BOOLEAN
    BY DEF EntityInv, EntityTypeOK
  <2>2. \/ ecrash' = ecrash /\ misused' = misused
        \/ ecrash' = "list" /\ misused' = TRUE
    BY DEF AddLogic
  <2> QED
    BY <2>1, <2>2
<1> DEFINE Keeps ==
      /\ m_logics' \in Seq(Seq(Handlers) \cup {NoList})
      /\ Len(m_logics') <= KeyNum
      /\ \A i \in 1 .. Len(m_logics') :
           m_logics'[i] # NoList => Distinct(m_logics'[i])
      /\ \A i \in 1 .. Len(m_logics) :
           /\ i \in 1 .. Len(m_logics')
           /\ m_logics[i] # NoList =>
                /\ m_logics'[i] # NoList
                /\ m_logics'[i] = m_logics[i] \/ m_logics'[i] = Append(m_logics[i], h)
<1>4. Keeps
  <2>1. CASE /\ ~InVector(key)
             /\ m_logics' = [Resized(key) EXCEPT ![key + 1] = <<h>>]
    <3>1. /\ key >= Len(m_logics) /\ key + 1 \in Nat
          /\ <<h>> \in Seq(Handlers) /\ Distinct(<<h>>)
      BY <1>2, <2>1 DEF InVector, Distinct
    <3>2. \A i \in 1 .. key + 1 :
            m_logics'[i] = IF i = key + 1 THEN <<h>>
                           ELSE IF i <= Len(m_logics) THEN m_logics[i] ELSE NoList
      BY <2>1 DEF Resized
    <3>3. m_logics' \in [1 .. key + 1 -> Seq(Handlers) \cup {NoList}]
      <4>1. \A i \in 1 .. Len(m_logics) : m_logics[i] \in Seq(Handlers) \cup {NoList}
        BY <1>2
      <4>2. Resized(key) \in [1 .. key + 1 -> Seq(Handlers) \cup {NoList}]
        BY <1>2, <3>1, <4>1 DEF Resized
      <4> QED
        BY <2>1, <3>1, <4>2
    <3>4. /\ m_logics' \in Seq(Seq(Handlers) \cup {NoList})
          /\ Len(m_logics') = key + 1
      <4> DEFINE S == Seq(Handlers) \cup {NoList}
      <4>1. key + 1 \in Nat /\ m_logics' \in [1 .. key + 1 -> S]
        BY <3>1, <3>3
      <4> HIDE DEF S
      <4>2. m_logics' \in Seq(S) /\ Len(m_logics') = key + 1
        BY <4>1, FunctionIsSeq
      <4> QED
        BY <4>2 DEF S
    <3>5. \A i \in 1 .. key + 1 : m_logics'[i] # NoList => Distinct(m_logics'[i])
      BY <1>2, <3>1, <3>2
    <3>6. \A i \in 1 .. Len(m_logics) : /\ i \in 1 .. key + 1
                                        /\ m_logics'[i] = m_logics[i]
      BY <1>2, <3>1, <3>2
    <3>7. key + 1 <= KeyNum
      BY <1>2
    <3> QED
      BY <3>4, <3>5, <3>6, <3>7
  <2>2. CASE /\ HasList(key)
             /\ m_logics' = [m_logics EXCEPT ![key + 1] = Append(@, h)]
    <3> DEFINE list == ListAt(key)
    <3>1. /\ list \in Seq(Handlers) /\ Distinct(list) /\ key + 1 \in 1 .. Len(m_logics)
          /\ list = m_logics[key + 1] /\ h \notin Members(list)
      BY <1>1, <2>2, ListType DEF ListAt
    <3> HIDE DEF list
    <3>2. Append(list, h) \in Seq(Handlers) /\ Append(list, h) # NoList
      BY <3>1, NoListIsNone, SMTT(60)
    <3>3. Distinct(Append(list, h))
      <4>1. \A i \in 1 .. Len(list) : list[i] # h
        BY <3>1 DEF Members
      <4>2. /\ Len(Append(list, h)) = Len(list) + 1 /\ Len(list) \in Nat
            /\ \A i \in 1 .. Len(list) : Append(list, h)[i] = list[i]
            /\ Append(list, h)[Len(list) + 1] = h
        BY <3>1
      <4> QED
        BY <3>1, <4>1, <4>2, SMTT(60) DEF Distinct
    <3>4. m_logics' = [m_logics EXCEPT ![key + 1] = Append(list, h)]
      BY <2>2, <3>1
    <3>5. /\ m_logics' \in Seq(Seq(Handlers) \cup {NoList})
          /\ Len(m_logics') = Len(m_logics)
          /\ \A i \in 1 .. Len(m_logics) :
               m_logics'[i] = IF i = key + 1 THEN Append(list, h) ELSE m_logics[i]
      BY <1>2, <3>1, <3>2, <3>4
    <3> QED
      BY <1>2, <3>1, <3>2, <3>3, <3>5
  <2>3. CASE UNCHANGED m_logics
    BY <1>2, <2>3
  <2> QED
    BY <2>1, <2>2, <2>3 DEF AddLogic
<1>5. ASSUME NEW r, r \in Round, RoundInv(r) PROVE RoundInv(r)'
  <2>1. CASE r.erased
    BY <1>3, <1>5, <2>1 DEF RoundInv
  <2>2. CASE ~r.erased
    <3>1. /\ HasList(r.key) /\ OnList(r.at, r.owed, r.ran, ListAt(r.key))
          /\ r.key \in Nat
      BY <1>5, <2>2 DEF RoundInv, Round
    <3>2. /\ ListAt(r.key) \in Seq(Handlers) /\ r.key + 1 \in 1 .. Len(m_logics)
          /\ ListAt(r.key) = m_logics[r.key + 1] /\ m_logics[r.key + 1] # NoList
      BY <3>1, ListType DEF ListAt, HasList
    <3>3. OnList(r.at, r.owed, r.ran, Append(ListAt(r.key), h))
      BY <3>1, <3>2, OnListAppend
    <3>4. /\ m_logics'[r.key + 1] # NoList /\ r.key + 1 \in 1 .. Len(m_logics')
          /\ \/ m_logics'[r.key + 1] = ListAt(r.key)
             \/ m_logics'[r.key + 1] = Append(ListAt(r.key), h)
      BY <1>4, <3>2
    <3>5. OnList(r.at, r.owed, r.ran, m_logics'[r.key + 1])
      BY <3>1, <3>3, <3>4
    <3>6. r.key < Len(m_logics')
      BY <3>1, <3>4
    <3> QED
      BY <2>2, <3>4, <3>5, <3>6 DEF RoundInv, HasList, InVector, ListAt
  <2> QED
    BY <2>1, <2>2
<1>6. \A n \in 1 .. Len(rounds') : RoundInv(rounds[n])'
  <2> TAKE n \in 1 .. Len(rounds')
  <2>1. PICK r : r = rounds[n] /\ r = rounds'[n]
    BY <1>1
  <2>2. r \in Round /\ RoundInv(r)
    BY <1>1, <2>1, EntityTypes
  <2>3. RoundInv(r)'
    BY <1>5, <2>2
  <2> QED
    BY <2>1, <2>3 DEF RoundInv
<1>7. EntityTypeOK'
  <2>1. \A i \in 1 .. Len(m_logics') :
          m_logics'[i] = NoList \/ m_logics'[i] \in Seq(Handlers)
    BY <1>4
  <2>2. added' \in 0 .. MaxAdds /\ executed' \in 0 .. MaxRounds
    BY <1>1 DEF EntityInv, EntityTypeOK
  <2>3. rounds' \in Seq(Round)
    BY <1>1, <1>2
  <2> QED
    BY <1>3, <1>4, <2>1, <2>2, <2>3, RoundsTyped DEF EntityTypeOK
<1>8. ExecuteExact'
  BY <1>1, <1>3 DEF EntityInv, ExecuteExact, Times
<1> QED
  BY <1>1, <1>2, <1>4, <1>6, <1>7, <1>8 DEF EntityInv

\* What a deletion leaves of a round in progress.
LEMMA WithoutFields ==
  ASSUME NEW r \in Round, NEW key, NEW h
  PROVE  /\ Without(r, key, h) \in Round
         /\ r.key # key => Without(r, key, h) = r
         /\ r.key = key =>
              /\ Without(r, key, h).key = key
              /\ Without(r, key, h).at = r.at
              /\ Without(r, key, h).ran = r.ran
              /\ Without(r, key, h).owed = r.owed \ {h}
              /\ Without(r, key, h).erased = (r.erased \/ r.at = h)
  BY DEF Without, Round

\* delLogic: a round that stands at the handler is marked, every other moves
\* with its own.
LEMMA DelLogicKeeps ==
  ASSUME EntityInv, NEW key \in 0 .. KeyNum - 1, NEW h \in Handlers, DelLogic(key, h)
  PROVE  EntityInv'
<1> USE EntityAssumption
<1> DEFINE list == ListAt(key)
           rest == Erased(list, h)
<1>1. /\ HasList(key) /\ h \in Members(list)
      /\ m_logics' = [m_logics EXCEPT ![key + 1] = Erased(@, h)]
      /\ rounds' = [n \in 1 .. Len(rounds) |-> Without(rounds[n], key, h)]
      /\ misused' = (misused \/ \E n \in 1 .. Len(rounds) :
                                  rounds[n].key = key /\ rounds[n].at = h)
      /\ UNCHANGED <<executed, added, ecrash, ended>>
  BY DEF DelLogic
<1>2. /\ m_logics \in Seq(Seq(Handlers) \cup {NoList}) /\ Len(m_logics) \in Nat
      /\ Len(m_logics) <= KeyNum /\ rounds \in Seq(Round) /\ key \in Nat
      /\ Len(rounds) \in Nat /\ misused \in BOOLEAN
      /\ \A i \in 1 .. Len(m_logics) :
           m_logics[i] # NoList => m_logics[i] \in Seq(Handlers) /\ Distinct(m_logics[i])
      /\ \A n \in 1 .. Len(rounds) : rounds[n] \in Round /\ RoundInv(rounds[n])
  BY EntityTypes DEF EntityInv, EntityTypeOK
<1>3. /\ list \in Seq(Handlers) /\ Distinct(list) /\ key + 1 \in 1 .. Len(m_logics)
      /\ list = m_logics[key + 1] /\ list # NoList
  BY <1>1, <1>2, ListType DEF ListAt, HasList
<1>4. rest \in Seq(Handlers) /\ Distinct(rest) /\ rest # NoList
  BY <1>1, <1>3, ErasedList, ErasedDistinct, NoListIsNone
<1> HIDE DEF list, rest
<1>5. m_logics' = [m_logics EXCEPT ![key + 1] = rest]
  BY <1>1, <1>3 DEF rest
<1>6. /\ m_logics' \in Seq(Seq(Handlers) \cup {NoList})
      /\ Len(m_logics') = Len(m_logics)
      /\ \A i \in 1 .. Len(m_logics) :
           m_logics'[i] = IF i = key + 1 THEN rest ELSE m_logics[i]
  BY <1>2, <1>3, <1>4, <1>5
<1>7. /\ rounds' \in Seq(Round) /\ Len(rounds') = Len(rounds)
      /\ \A n \in 1 .. Len(rounds) : rounds'[n] = Without(rounds[n], key, h)
  <2>1. \A n \in 1 .. Len(rounds) : Without(rounds[n], key, h) \in Round
    BY <1>2, WithoutFields
  <2>2. rounds' \in [1 .. Len(rounds) -> Round]
    BY <1>1, <2>1
  <2>3. rounds' \in Seq(Round) /\ Len(rounds') = Len(rounds)
    BY <1>2, <2>2, FunctionIsSeq
  <2> QED
    BY <1>1, <2>3
<1>8. misused => misused'
  BY <1>1, <1>2
<1>9. ASSUME NEW n \in 1 .. Len(rounds) PROVE RoundInv(rounds[n])'
  <2>1. PICK r : r = rounds[n]
    OBVIOUS
  <2> DEFINE s == Without(r, key, h)
  <2>2. r \in Round /\ RoundInv(r) /\ rounds'[n] = s /\ r.key \in Nat
    BY <1>2, <1>7, <2>1, SMTT(60) DEF Round
  <2>3. RoundInv(s)'
    <3>1. CASE r.key # key
      <4>1. s = r
        BY <2>2, <3>1, WithoutFields
      <4>2. CASE r.erased
        BY <1>8, <2>2, <4>1, <4>2 DEF RoundInv
      <4>3. CASE ~r.erased
        <5>1. HasList(r.key) /\ OnList(r.at, r.owed, r.ran, ListAt(r.key))
          BY <2>2, <4>3 DEF RoundInv
        <5>2. r.key + 1 \in 1 .. Len(m_logics) /\ r.key + 1 # key + 1
          BY <1>2, <2>2, <3>1, <5>1, ListType
        <5>3. m_logics'[r.key + 1] = m_logics[r.key + 1]
          BY <1>6, <5>2
        <5> QED
          BY <1>6, <4>1, <4>3, <5>1, <5>3 DEF RoundInv, HasList, InVector, ListAt
      <4> QED
        BY <4>2, <4>3
    <3>2. CASE r.key = key
      <4>1. /\ s.key = key /\ s.at = r.at /\ s.ran = r.ran /\ s.owed = r.owed \ {h}
            /\ s.erased = (r.erased \/ r.at = h) /\ r.erased \in BOOLEAN
        BY <2>2, <3>2, WithoutFields DEF Round
      <4> HIDE DEF s
      <4>2. CASE r.erased
        BY <1>8, <2>2, <4>1, <4>2 DEF RoundInv
      <4>3. CASE ~r.erased /\ r.at = h
        BY <1>1, <2>1, <3>2, <4>1, <4>3 DEF RoundInv
      <4>4. CASE ~r.erased /\ r.at # h
        <5>1. OnList(r.at, r.owed, r.ran, list)
          BY <2>2, <3>2, <4>4 DEF RoundInv, list
        <5>2. OnList(s.at, s.owed, s.ran, rest)
          <6>1. OnList(r.at, r.owed \ {h}, r.ran, Erased(list, h))
            BY <1>1, <1>3, <4>4, <5>1, OnListErase, Zenon
          <6> QED
            BY <4>1, <6>1, Zenon DEF rest
        <5>3. m_logics'[key + 1] = rest
          BY <1>3, <1>6
        <5>4. key < Len(m_logics')
          BY <1>2, <1>3, <1>6
        <5>5. ~s.erased
          BY <4>1, <4>4
        <5> QED
          BY <1>4, <4>1, <5>2, <5>3, <5>4, <5>5 DEF RoundInv, HasList, InVector, ListAt
      <4> QED
        BY <4>2, <4>3, <4>4
    <3> QED
      BY <3>1, <3>2
  <2> HIDE DEF s
  <2> QED
    BY <2>2, <2>3 DEF RoundInv
<1>10. EntityTypeOK'
  <2>1. \A i \in 1 .. Len(m_logics') :
          m_logics'[i] = NoList \/ m_logics'[i] \in Seq(Handlers)
    BY <1>6
  <2>2. /\ added' \in 0 .. MaxAdds /\ executed' \in 0 .. MaxRounds
        /\ ecrash' \in {"no", "list", "iterator"}
    BY <1>1 DEF EntityInv, EntityTypeOK
  <2>3. misused' \in BOOLEAN
    BY <1>1, <1>2
  <2> QED
    BY <1>2, <1>6, <1>7, <2>1, <2>2, <2>3, RoundsTyped DEF EntityTypeOK
<1>11. ExecuteExact'
  BY <1>1, <1>8 DEF EntityInv, ExecuteExact, Times
<1>12. \A i \in 1 .. Len(m_logics') : m_logics'[i] # NoList => Distinct(m_logics'[i])
  BY <1>2, <1>4, <1>6
<1>13. \A n \in 1 .. Len(rounds') : RoundInv(rounds[n])'
  BY <1>7, <1>9
<1> QED
  BY <1>6, <1>7, <1>10, <1>11, <1>12, <1>13 DEF EntityInv

\* Steps that change only rounds: the invariant of each is left to show.
LEMMA RoundsChange ==
  ASSUME EntityInv, UNCHANGED <<m_logics, added, misused>>,
         executed' \in 0 .. MaxRounds, ecrash' \in {"no", "list", "iterator"},
         rounds' \in Seq(Round),
         \A n \in 1 .. Len(rounds') : RoundInv(rounds'[n]),
         ExecuteExact'
  PROVE  EntityInv'
<1>1. \A n \in 1 .. Len(rounds') : RoundInv(rounds[n])'
  BY DEF RoundInv, HasList, InVector, ListAt
<1>2. EntityTypeOK'
  BY RoundsTyped DEF EntityInv, EntityTypeOK
<1> QED
  BY <1>1, <1>2 DEF EntityInv

\* A handler is called.
LEMMA RunFields ==
  ASSUME NEW r, NEW h \in Handlers,
         r \in [key : 0 .. KeyNum - 1, check : BOOLEAN, at : Handlers \cup {<<>>},
                erased : BOOLEAN, owed : SUBSET Handlers, ran : Seq(Handlers)]
  PROVE  /\ Run(r, h) \in Round
         /\ Run(r, h).key = r.key /\ Run(r, h).erased = r.erased
         /\ Run(r, h).owed = r.owed /\ Run(r, h).at = h
         /\ Run(r, h).ran = Append(r.ran, h)
<1>1. Append(r.ran, h) \in Seq(Handlers)
  OBVIOUS
<1> QED
  BY <1>1 DEF Run, Round

\* execute and check begin.
LEMMA ExecuteKeeps ==
  ASSUME EntityInv, ecrash = "no",
         NEW key \in 0 .. KeyNum - 1, NEW check \in BOOLEAN, Execute(key, check)
  PROVE  EntityInv'
<1> USE EntityAssumption
<1> DEFINE list == ListAt(key)
           r == [key |-> key, check |-> check, at |-> <<>>, erased |-> FALSE,
                 owed |-> Members(list), ran |-> <<>>]
           s == Run(r, list[1])
<1>1. /\ executed < MaxRounds /\ executed' = executed + 1
      /\ HasList(key) /\ list # <<>>
      /\ rounds' = Append(rounds, s)
      /\ UNCHANGED <<m_logics, added, ecrash, ended, misused>>
  BY DEF Execute
<1>2. /\ list \in Seq(Handlers) /\ Distinct(list) /\ list[1] \in Handlers
      /\ Members(list) \subseteq Handlers
  BY <1>1, ListType DEF Members
<1>3. /\ s \in Round /\ s.key = key /\ s.erased = FALSE /\ s.owed = Members(list)
      /\ s.at = list[1] /\ s.ran = <<list[1]>>
  <2>1. r \in [key : 0 .. KeyNum - 1, check : BOOLEAN, at : Handlers \cup {<<>>},
               erased : BOOLEAN, owed : SUBSET Handlers, ran : Seq(Handlers)]
    BY <1>2
  <2>2. r.key = key /\ r.erased = FALSE /\ r.owed = Members(list) /\ r.ran = <<>>
    OBVIOUS
  <2>3. Append(r.ran, list[1]) = <<list[1]>>
    BY <1>2, <2>2
  <2> HIDE DEF r
  <2> QED
    BY <1>2, <2>1, <2>2, <2>3, RunFields, SMTT(60)
<1> HIDE DEF s, r
<1>4. RoundInv(s)
  BY <1>1, <1>2, <1>3, OnListStart DEF RoundInv
<1>5. /\ rounds' \in Seq(Round)
      /\ \A n \in 1 .. Len(rounds') : RoundInv(rounds'[n])
  <2>1. rounds \in Seq(Round) /\ \A n \in 1 .. Len(rounds) : RoundInv(rounds[n])
    BY EntityTypes
  <2> QED
    BY <1>1, <1>3, <1>4, <2>1
<1>6. executed' \in 0 .. MaxRounds
  BY <1>1 DEF EntityInv, EntityTypeOK
<1>7. ExecuteExact'
  BY <1>1, ZenonT(60) DEF EntityInv, ExecuteExact, Times
<1> QED
  BY <1>1, <1>5, <1>6, <1>7, RoundsChange

LEMMA OuterRounds ==
  ASSUME EntityInv, rounds # <<>>
  PROVE  /\ Outer \in Seq(Round) /\ Innermost \in Round /\ RoundInv(Innermost)
         /\ \A n \in 1 .. Len(Outer) : RoundInv(Outer[n])
<1>1. /\ rounds \in Seq(Round) /\ \A n \in 1 .. Len(rounds) : RoundInv(rounds[n])
  BY EntityTypes
<1>2. Len(rounds) \in 1 .. Len(rounds) /\ Len(rounds) \in Nat
  BY <1>1
<1> QED
  BY <1>1, <1>2 DEF Outer, Innermost

\* A callback returns: the next handler, the end, or a node that is gone.
LEMMA ContinueKeeps ==
  ASSUME EntityInv, ecrash = "no", Continue
  PROVE  EntityInv'
<1> DEFINE r == Innermost
           list == ListAt(r.key)
           rest == Behind(list, r.at)
<1>1. /\ rounds # <<>> /\ UNCHANGED <<m_logics, executed, added, misused>>
  BY DEF Continue
<1>2. /\ Outer \in Seq(Round) /\ r \in Round /\ RoundInv(r)
      /\ \A n \in 1 .. Len(Outer) : RoundInv(Outer[n])
  BY <1>1, OuterRounds
<1>3. executed' \in 0 .. MaxRounds
  BY <1>1 DEF EntityInv, EntityTypeOK
<1>4. CASE r.erased
  <2>1. ecrash' = "iterator" /\ UNCHANGED <<rounds, ended>>
    BY <1>4 DEF Continue
  <2>2. misused
    BY <1>2, <1>4 DEF RoundInv
  <2>3. ExecuteExact'
    BY <1>1, <2>1, <2>2 DEF EntityInv, ExecuteExact, Times
  <2> QED
    BY <1>1, <1>3, <2>1, <2>3, EntityTypes, RoundsChange
<1>5. CASE ~r.erased
  <2>1. /\ list \in Seq(Handlers) /\ Distinct(list)
        /\ OnList(r.at, r.owed, r.ran, list)
        /\ HasList(r.key) /\ r.key \in Nat /\ r.ran \in Seq(Handlers)
    <3>1. HasList(r.key) /\ OnList(r.at, r.owed, r.ran, list)
      BY <1>2, <1>5 DEF RoundInv
    <3>2. r.key \in Nat /\ r.ran \in Seq(Handlers)
      BY <1>2, EntityAssumption DEF Round
    <3> QED
      BY <3>1, <3>2, ListType
  <2>2. CASE rest = <<>>
    <3>1. rounds' = Outer /\ ended' = r /\ UNCHANGED ecrash
      BY <1>5, <2>2 DEF Continue
    <3>2. \A h \in r.owed : Once(h, r.ran)
      BY <2>1, <2>2, OnListEnd
    <3>3. ExecuteExact'
      BY <1>1, <3>1, <3>2, SMTT(30) DEF EntityInv, ExecuteExact, Once, Times
    <3> QED
      BY <1>1, <1>2, <1>3, <3>1, <3>3, RoundsChange DEF EntityInv, EntityTypeOK
  <2>3. CASE rest # <<>>
    <3> DEFINE g == rest[1]
               s == Run(r, g)
    <3>1. rounds' = Append(Outer, s) /\ UNCHANGED <<ecrash, ended>>
      BY <1>5, <2>3 DEF Continue
    <3>2. g \in Handlers /\ OnList(g, r.owed, Append(r.ran, g), list)
      BY <2>1, <2>3, OnListAdvance
    <3> HIDE DEF g
    <3>3. /\ s \in Round /\ s.key = r.key /\ s.erased = r.erased
          /\ s.owed = r.owed /\ s.at = g /\ s.ran = Append(r.ran, g)
      <4>1. r \in [key : 0 .. KeyNum - 1, check : BOOLEAN, at : Handlers \cup {<<>>},
                   erased : BOOLEAN, owed : SUBSET Handlers, ran : Seq(Handlers)]
        BY <1>2 DEF Round
      <4> QED
        BY <3>2, <4>1, RunFields
    <3> HIDE DEF s
    <3>4. RoundInv(s)
      BY <1>5, <2>1, <3>2, <3>3 DEF RoundInv
    <3>5. /\ rounds' \in Seq(Round)
          /\ \A n \in 1 .. Len(rounds') : RoundInv(rounds'[n])
      BY <1>2, <3>1, <3>3, <3>4
    <3>6. ExecuteExact'
      BY <1>1, <3>1 DEF EntityInv, ExecuteExact, Times
    <3> QED
      BY <1>1, <1>3, <3>1, <3>5, <3>6, RoundsChange DEF EntityInv, EntityTypeOK
  <2> QED
    BY <2>2, <2>3
<1> QED
  BY <1>4, <1>5

LEMMA CheckFailsKeeps ==
  ASSUME EntityInv, CheckFails
  PROVE  EntityInv'
<1>1. /\ rounds # <<>> /\ rounds' = Outer
      /\ UNCHANGED <<m_logics, executed, added, ecrash, ended, misused>>
  BY DEF CheckFails
<1>2. ExecuteExact'
  BY <1>1, ZenonT(60) DEF EntityInv, ExecuteExact, Times
<1> QED
  BY <1>1, <1>2, OuterRounds, RoundsChange DEF EntityInv, EntityTypeOK

\* Where every execution stands and what it still owes is exact in every
\* reachable state of a collection.
THEOREM EntityInvariance == EntitySpec => []EntityInv
<1>1. ASSUME EntityInit PROVE EntityInv
  <2>1. /\ m_logics = <<>> /\ rounds = <<>> /\ executed = 0 /\ added = 0
        /\ ecrash = "no" /\ misused = FALSE /\ ended.owed = {}
    BY <1>1 DEF EntityInit, NoRound
  <2>2. EntityTypeOK
    <3>1. Len(m_logics) = 0 /\ 1 .. Len(m_logics) = {} /\ 1 .. Len(rounds) = {}
      BY <2>1
    <3> QED
      <4>1. Len(m_logics) <= KeyNum /\ 0 \in 0 .. MaxRounds /\ 0 \in 0 .. MaxAdds
        BY <3>1, EntityAssumption
      <4> QED
        BY <2>1, <3>1, <4>1, Zenon DEF EntityTypeOK
  <2>3. ExecuteExact
    BY <2>1 DEF ExecuteExact
  <2>4. m_logics \in Seq(Seq(Handlers) \cup {NoList}) /\ rounds \in Seq(Round)
    <3>1. \A S : <<>> \in Seq(S)
      OBVIOUS
    <3> QED
      BY <2>1, <3>1, Zenon
  <2>5. /\ \A i \in 1 .. Len(m_logics) : m_logics[i] # NoList => Distinct(m_logics[i])
        /\ \A n \in 1 .. Len(rounds) : RoundInv(rounds[n])
    BY <2>1
  <2> QED
    BY <2>2, <2>3, <2>4, <2>5, Zenon DEF EntityInv
<1>2. EntityInv /\ [EntityNext]_envars => EntityInv'
  <2>1. ASSUME EntityInv, UNCHANGED envars PROVE EntityInv'
    <3>1. UNCHANGED <<m_logics, rounds, executed, added, ecrash, ended, misused>>
      BY <2>1 DEF envars
    <3> QED
      BY <2>1, <3>1 DEF EntityInv, EntityTypeOK, RoundInv, HasList, InVector, ListAt,
         ExecuteExact, Times
  <2>2. ASSUME EntityInv, EntityNext PROVE EntityInv'
    BY <2>2, AddLogicKeeps, DelLogicKeeps, ExecuteKeeps, ContinueKeeps, CheckFailsKeeps
       DEF EntityNext
  <2> QED
    BY <2>1, <2>2
<1> QED
  BY <1>1, <1>2, PTL DEF EntitySpec

\* An execution calls each handler that stays in the list exactly once, and it
\* crashes only after a misuse, however callbacks add, delete and execute.
THEOREM ExecutesExactly == EntitySpec => []ExecuteExact
<1>1. EntityInv => ExecuteExact
  BY DEF EntityInv
<1> QED
  BY <1>1, EntityInvariance, PTL


(***************************************************************************)
(* The type pool of typepool.c.                                            *)
(***************************************************************************)

\* A stack that lacks one element of its node is not full.
LEMMA StackNotFull ==
  ASSUME NEW n \in Nat, NEW i \in Nat, NEW s \in Seq({i} \X (1 .. n)),
         \A k, l \in 1 .. Len(s) : s[k] = s[l] => k = l,
         NEW e \in {i} \X (1 .. n), \A k \in 1 .. Len(s) : s[k] # e
  PROVE  Len(s) < n
<1> DEFINE T == (1 .. n) \ {e[2]}
           f == [k \in 1 .. Len(s) |-> s[k][2]]
<1>1. Len(s) \in Nat /\ e[2] \in 1 .. n /\ e = <<i, e[2]>>
  OBVIOUS
<1>2. \A k \in 1 .. Len(s) : s[k][2] \in 1 .. n /\ s[k] = <<i, s[k][2]>>
  <2> TAKE k \in 1 .. Len(s)
  <2>1. s[k] \in {i} \X (1 .. n)
    OBVIOUS
  <2> QED
    BY <2>1
<1>3. f \in [1 .. Len(s) -> T]
  <2>1. \A k \in 1 .. Len(s) : s[k][2] # e[2]
    BY <1>1, <1>2, ZenonT(60)
  <2> QED
    BY <1>2, <2>1
<1>4. \A k, l \in 1 .. Len(s) : f[k] = f[l] => k = l
  <2> TAKE k \in 1 .. Len(s), l \in 1 .. Len(s)
  <2>1. f[k] = s[k][2] /\ f[l] = s[l][2]
    OBVIOUS
  <2>2. s[k] = <<i, s[k][2]>> /\ s[l] = <<i, s[l][2]>>
    BY <1>2
  <2> HIDE DEF f
  <2>3. f[k] = f[l] => s[k] = s[l]
    BY <2>1, <2>2, Zenon
  <2> QED
    BY <2>3
<1> HIDE DEF f
<1>5. f \in Injection(1 .. Len(s), T)
  BY <1>3, <1>4, Fun_IsInj
<1>6. IsFiniteSet(1 .. n) /\ Cardinality(1 .. n) = n
  <2>1. 1 \in Int /\ n \in Int /\ (IF 1 > n THEN 0 ELSE n - 1 + 1) = n
    OBVIOUS
  <2>2. /\ IsFiniteSet(1 .. n)
        /\ Cardinality(1 .. n) = IF 1 > n THEN 0 ELSE n - 1 + 1
    BY <2>1, FS_Interval, Zenon
  <2> QED
    BY <2>1, <2>2
<1>7. IsFiniteSet(T) /\ Cardinality(T) = n - 1
  <2>1. /\ IsFiniteSet(T)
        /\ Cardinality(T) = IF e[2] \in 1 .. n THEN Cardinality(1 .. n) - 1
                            ELSE Cardinality(1 .. n)
    BY <1>6, FS_RemoveElement, ZenonT(60)
  <2> QED
    BY <1>1, <1>6, <2>1
<1>8. Cardinality(1 .. Len(s)) = Len(s)
  <2>1. Len(s) \in Nat
    BY <1>1
  <2> HIDE DEF T
  <2>2. 1 \in Int /\ Len(s) \in Int /\ (IF 1 > Len(s) THEN 0 ELSE Len(s) - 1 + 1) = Len(s)
    BY <2>1
  <2>3. Cardinality(1 .. Len(s)) = IF 1 > Len(s) THEN 0 ELSE Len(s) - 1 + 1
    BY <2>2, FS_Interval, Zenon
  <2> QED
    BY <2>2, <2>3
<1>9. Cardinality(1 .. Len(s)) <= Cardinality(T)
  <2> HIDE DEF T
  <2> QED
    BY <1>5, <1>7, FS_Injection
<1> QED
  BY <1>1, <1>7, <1>8, <1>9

LEMMA ElementsAre ==
  ASSUME NEW p \in Pool, Len(p.size) = Len(p.free)
  PROVE  \A x : x \in Elements(p) <=>
                 \E i \in Nodes(p) : x \in HomeElements(p, i)
<1>1. \A i \in Nodes(p) :
        {<<i, k>> : k \in 1 .. p.size[i]} = HomeElements(p, i)
  BY DEF HomeElements
<1> QED
  BY <1>1 DEF Elements

LEMMA HomeFields ==
  ASSUME NEW p, NEW i, NEW x \in HomeElements(p, i)
  PROVE  x = <<x[1], x[2]>> /\ x[1] = i /\ x[2] \in 1 .. p.size[i]
  BY DEF HomeElements

\* PoolInv element by element.
PoolView(p, used) ==
  /\ p \in Pool
  /\ Len(p.size) = Len(p.free)
  /\ p.free_node \in Nodes(p) \cup {Null}
  /\ \A i \in Nodes(p) :
       /\ p.free[i] \in Seq(HomeElements(p, i))
       /\ \A k \in 1 .. Len(p.free[i]) : p.free[i][k] \notin used
       /\ \A k, l \in 1 .. Len(p.free[i]) : p.free[i][k] = p.free[i][l] => k = l
       /\ \A x \in HomeElements(p, i) :
            x \notin used => \E k \in 1 .. Len(p.free[i]) : p.free[i][k] = x
  /\ \A x \in used : \E i \in Nodes(p) : x \in HomeElements(p, i)

LEMMA PoolViewed ==
  ASSUME NEW p, NEW used
  PROVE  PoolInv(p, used) <=> PoolView(p, used)
<1>1. ASSUME PoolInv(p, used) PROVE PoolView(p, used)
  <2>1. /\ p \in Pool /\ Len(p.size) = Len(p.free)
        /\ p.free_node \in Nodes(p) \cup {Null}
        /\ \A i \in Nodes(p) : p.free[i] \in Seq(HomeElements(p, i))
        /\ Free(p) \cap used = {}
        /\ Free(p) \cup used = Elements(p)
        /\ \A i \in Nodes(p) : \A k, l \in 1 .. Len(p.free[i]) :
             p.free[i][k] = p.free[i][l] => k = l
    BY <1>1 DEF PoolInv, Partition
  <2>2. \A x : x \in Free(p) <=>
                \E i \in Nodes(p) : \E k \in 1 .. Len(p.free[i]) : p.free[i][k] = x
    BY DEF Free
  <2>3. ASSUME NEW i \in Nodes(p), NEW x \in HomeElements(p, i), x \notin used
        PROVE  \E k \in 1 .. Len(p.free[i]) : p.free[i][k] = x
    <3>1. x \in Free(p)
      BY <2>1, <2>3, ElementsAre
    <3>2. PICK j \in Nodes(p) : \E k \in 1 .. Len(p.free[j]) : p.free[j][k] = x
      BY <2>2, <3>1
    <3>3. x \in HomeElements(p, j)
      BY <2>1, <3>2
    <3>4. i = j
      BY <3>3, HomeFields
    <3> QED
      BY <3>2, <3>4
  <2>4. \A x \in used : \E i \in Nodes(p) : x \in HomeElements(p, i)
    BY <2>1, ElementsAre
  <2>5. \A i \in Nodes(p) : \A k \in 1 .. Len(p.free[i]) : p.free[i][k] \notin used
    BY <2>1, <2>2
  <2> QED
    BY <2>1, <2>3, <2>4, <2>5 DEF PoolView
<1>2. ASSUME PoolView(p, used) PROVE PoolInv(p, used)
  <2>1. /\ p \in Pool /\ Len(p.size) = Len(p.free)
        /\ p.free_node \in Nodes(p) \cup {Null}
        /\ \A i \in Nodes(p) : p.free[i] \in Seq(HomeElements(p, i))
    BY <1>2 DEF PoolView
  <2>2. \A x : x \in Free(p) <=>
                \E i \in Nodes(p) : \E k \in 1 .. Len(p.free[i]) : p.free[i][k] = x
    BY DEF Free
  <2>3. Free(p) \cap used = {}
    BY <1>2, <2>2 DEF PoolView
  <2>4. ASSUME NEW x PROVE x \in Free(p) \cup used <=> x \in Elements(p)
    <3>1. ASSUME x \in Free(p) PROVE x \in Elements(p)
      <4>1. PICK i \in Nodes(p) : \E k \in 1 .. Len(p.free[i]) : p.free[i][k] = x
        BY <2>2, <3>1
      <4>2. x \in HomeElements(p, i)
        BY <2>1, <4>1
      <4> QED
        BY <2>1, <4>2, ElementsAre
    <3>2. ASSUME x \in used PROVE x \in Elements(p)
      BY <1>2, <2>1, <3>2, ElementsAre DEF PoolView
    <3>3. ASSUME x \in Elements(p), x \notin used PROVE x \in Free(p)
      <4>1. PICK i \in Nodes(p) : x \in HomeElements(p, i)
        BY <2>1, <3>3, ElementsAre
      <4>2. PICK k \in 1 .. Len(p.free[i]) : p.free[i][k] = x
        BY <1>2, <3>3, <4>1 DEF PoolView
      <4> QED
        BY <2>2, <4>2
    <3> QED
      BY <3>1, <3>2, <3>3
  <2>5. ASSUME NEW i \in Nodes(p), NEW j \in Nodes(p),
               NEW k \in 1 .. Len(p.free[i]), NEW l \in 1 .. Len(p.free[j]),
               p.free[i][k] = p.free[j][l]
        PROVE  i = j
    <3>1. p.free[i][k] \in HomeElements(p, i) /\ p.free[j][l] \in HomeElements(p, j)
      BY <2>1
    <3> QED
      BY <2>5, <3>1, HomeFields
  <2>6. \A i \in Nodes(p) : \A k, l \in 1 .. Len(p.free[i]) :
          p.free[i][k] = p.free[i][l] => k = l
    BY <1>2 DEF PoolView
  <2>7. Partition(p, used)
    <3>1. Free(p) \cup used = Elements(p)
      BY <2>4
    <3> QED
      BY <2>3, <2>5, <2>6, <3>1 DEF Partition
  <2> QED
    BY <2>1, <2>7 DEF PoolInv
<1> QED
  BY <1>1, <1>2

\* type_pool_claim finds a node that has an element whenever one has.
LEMMA SourceFound ==
  ASSUME NEW p \in Pool, p.free_node \in Nodes(p) \cup {Null}
  PROVE  \/ Source(p) \in Nodes(p) /\ Has(p, Source(p))
         \/ Source(p) = Null /\ \A i \in Nodes(p) : ~Has(p, i)
<1>1. Len(p.free) \in Nat /\ Nodes(p) = 1 .. Len(p.free)
  BY DEF Pool, Nodes
<1>2. CASE FromFreeNode(p)
  BY <1>1, <1>2 DEF FromFreeNode, Source, Null
<1>3. CASE ~FromFreeNode(p) /\ \E i \in Nodes(p) : Has(p, i)
  <2> DEFINE S == {i \in Nodes(p) : Has(p, i)}
  <2>1. PICK m \in S : \A n \in S : m <= n
    <3>1. S \subseteq Nat /\ S # {}
      BY <1>1, <1>3
    <3> HIDE DEF S
    <3> QED
      BY <3>1, SmallestExists
  <2>2. \E i \in Nodes(p) : Has(p, i) /\ \A j \in 1 .. i - 1 : ~Has(p, j)
    <3>1. m \in Nodes(p) /\ Has(p, m)
      BY <2>1
    <3>2. ASSUME NEW j \in 1 .. m - 1 PROVE ~Has(p, j)
      <4>1. j \in Nodes(p) /\ ~(m <= j)
        BY <1>1, <3>1
      <4> QED
        BY <2>1, <4>1
    <3> QED
      BY <3>1, <3>2
  <2>3. Source(p) = CHOOSE i \in Nodes(p) : Has(p, i) /\ \A j \in 1 .. i - 1 : ~Has(p, j)
    BY <1>3 DEF Source
  <2> QED
    BY <2>2, <2>3
<1>4. CASE ~FromFreeNode(p) /\ ~(\E i \in Nodes(p) : Has(p, i))
  BY <1>4 DEF Source
<1> QED
  BY <1>2, <1>3, <1>4

\* A claim moves one element from a stack to its user.
LEMMA ClaimKeeps ==
  ASSUME NEW p, NEW used, PoolInv(p, used)
  PROVE  /\ PoolInv(Claim(p), used \cup ({Claimed(p)} \ {NoElement}))
         /\ Claim(p).size = p.size /\ Len(Claim(p).free) = Len(p.free)
         /\ Claimed(p) # NoElement => Claimed(p) \in Elements(p) \ used
         /\ Claimed(p) = NoElement => Claim(p) = p /\ used = Elements(p)
<1> DEFINE i == Source(p)
           s == p.free[i]
           e == s[Len(s)]
           t == SubSeq(s, 1, Len(s) - 1)
           q == Claim(p)
<1>1. PoolView(p, used)
  BY PoolViewed
<1>2. /\ p \in Pool /\ Len(p.free) \in Nat /\ Nodes(p) = 1 .. Len(p.free)
      /\ p.free_node \in Nodes(p) \cup {Null} /\ Len(p.size) = Len(p.free)
      /\ p.free \in Seq(Seq(Nat \X Nat))
  BY <1>1 DEF PoolView, Pool, Nodes
<1>3. CASE i = Null
  <2>1. \A j \in Nodes(p) : Len(p.free[j]) = 0
    <3>1. i \notin Nodes(p)
      BY <1>2, <1>3 DEF Null
    <3>2. \A j \in Nodes(p) : ~Has(p, j)
      BY <1>2, <3>1, SourceFound
    <3> QED
      BY <3>2 DEF Has
  <2>2. q = p /\ Claimed(p) = NoElement
    BY <1>3 DEF Claim, Claimed
  <2>3. \A x : x \in Elements(p) <=> x \in used
    <3>1. ASSUME NEW x, NEW j \in Nodes(p), x \in HomeElements(p, j)
          PROVE  x \in used
      <4>1. ~(\E k \in 1 .. Len(p.free[j]) : p.free[j][k] = x)
        BY <2>1
      <4> QED
        BY <1>1, <3>1, <4>1 DEF PoolView
    <3>2. \A x \in used : \E j \in Nodes(p) : x \in HomeElements(p, j)
      BY <1>1 DEF PoolView
    <3> QED
      BY <1>2, <3>1, <3>2, ElementsAre, Zenon
  <2>4. used \cup ({Claimed(p)} \ {NoElement}) = used
    BY <2>2
  <2> QED
    BY <2>2, <2>3, <2>4
<1>4. CASE i # Null
  <2>1. i \in Nodes(p) /\ s # <<>> /\ s \in Seq(HomeElements(p, i))
    BY <1>1, <1>2, <1>4, SourceFound DEF Has, PoolView
  <2> HIDE DEF i
  <2>2. Claimed(p) = e
    BY <1>4 DEF Claimed, i
  <2>3. /\ Len(s) \in Nat /\ Len(s) \in 1 .. Len(s) /\ e \in HomeElements(p, i)
        /\ t \in Seq(HomeElements(p, i)) /\ Len(t) = Len(s) - 1
        /\ \A k \in 1 .. Len(s) - 1 : t[k] = s[k]
    BY <2>1
  <2>4. e # NoElement /\ e \notin used
    <3>1. e # NoElement
      BY <2>3, HomeFields DEF NoElement
    <3> QED
      BY <1>1, <2>1, <2>3, <3>1 DEF PoolView
  <2> DEFINE c == IF FromFreeNode(p) THEN p.free_node ELSE NextNode(p, i)
  <2>5. q = [p EXCEPT !.free = AfterPop(p, i), !.free_node = c]
    BY <1>4 DEF Claim, i
  <2>6. c \in Nodes(p) \cup {Null}
    BY <1>2, <2>1, SMTT(60) DEF NextNode, Null
  <2>7. /\ t \in Seq(Nat \X Nat)
        /\ AfterPop(p, i) = [p.free EXCEPT ![i] = t]
    <3>1. s \in Seq(Nat \X Nat)
      BY <1>2, <2>1
    <3> QED
      BY <2>1, <2>3, <3>1 DEF AfterPop
  <2> HIDE DEF t, c
  <2>8. /\ AfterPop(p, i) \in Seq(Seq(Nat \X Nat))
        /\ Len(AfterPop(p, i)) = Len(p.free)
        /\ \A j \in Nodes(p) : AfterPop(p, i)[j] = IF j = i THEN t ELSE p.free[j]
    BY <1>2, <2>1, <2>7, SMTT(60)
  <2>9. /\ q \in Pool /\ q.free = AfterPop(p, i) /\ q.size = p.size /\ q.free_node = c
    <3>1. c \in Nat
      BY <1>2, <2>6 DEF Null
    <3>2. q = [free |-> AfterPop(p, i), size |-> p.size, free_node |-> c]
      BY <1>2, <2>5 DEF Pool
    <3>3. p.size \in Seq(Nat)
      BY <1>2 DEF Pool
    <3> HIDE DEF q
    <3> QED
      BY <2>8, <3>1, <3>2, <3>3 DEF Pool
  <2> HIDE DEF q
  <2>10. /\ Nodes(q) = Nodes(p)
         /\ \A j : HomeElements(q, j) = HomeElements(p, j)
    BY <1>2, <2>8, <2>9 DEF Nodes, HomeElements
  <2> DEFINE w == used \cup {e}
  <2>11. ASSUME NEW j \in Nodes(p)
         PROVE /\ q.free[j] \in Seq(HomeElements(p, j))
               /\ \A k \in 1 .. Len(q.free[j]) : q.free[j][k] \notin w
               /\ \A k, l \in 1 .. Len(q.free[j]) : q.free[j][k] = q.free[j][l] => k = l
               /\ \A x \in HomeElements(p, j) :
                    x \notin w => \E k \in 1 .. Len(q.free[j]) : q.free[j][k] = x
    <3>1. /\ p.free[j] \in Seq(HomeElements(p, j)) /\ Len(p.free[j]) \in Nat
          /\ \A k \in 1 .. Len(p.free[j]) : p.free[j][k] \notin used
          /\ \A k, l \in 1 .. Len(p.free[j]) : p.free[j][k] = p.free[j][l] => k = l
          /\ \A x \in HomeElements(p, j) :
               x \notin used => \E k \in 1 .. Len(p.free[j]) : p.free[j][k] = x
      BY <1>1, <2>11 DEF PoolView
    <3>2. CASE j # i
      <4>1. q.free[j] = p.free[j]
        BY <2>8, <2>9, <3>2
      <4>2. \A k \in 1 .. Len(p.free[j]) : p.free[j][k] # e
        <5>1. \A k \in 1 .. Len(p.free[j]) : p.free[j][k] \in HomeElements(p, j)
          BY <3>1
        <5> QED
          BY <2>3, <3>2, <5>1, HomeFields
      <4> QED
        BY <3>1, <4>1, <4>2
    <3>3. CASE j = i
      <4>1. q.free[j] = t /\ p.free[j] = s
        BY <2>8, <2>9, <3>3
      <4>2. \A k \in 1 .. Len(t) : k \in 1 .. Len(s) /\ k # Len(s) /\ t[k] = s[k]
        BY <2>3 DEF t
      <4>3. \A k \in 1 .. Len(s) : k \in 1 .. Len(t) \/ k = Len(s)
        BY <2>3 DEF t
      <4>4. t \in Seq(HomeElements(p, j))
        BY <2>3, <3>3 DEF t
      <4> HIDE DEF s, e
      <4>5. \A k \in 1 .. Len(t) : t[k] \notin w
        BY <2>3, <3>1, <4>1, <4>2 DEF e
      <4>6. \A k, l \in 1 .. Len(t) : t[k] = t[l] => k = l
        BY <3>1, <4>1, <4>2
      <4>7. \A x \in HomeElements(p, j) : x \notin w => \E k \in 1 .. Len(t) : t[k] = x
        BY <3>1, <4>1, <4>2, <4>3 DEF e
      <4> QED
        BY <4>1, <4>4, <4>5, <4>6, <4>7
    <3> QED
      BY <3>2, <3>3
  <2>12. PoolView(q, w)
    <3>1. \A x \in w : \E j \in Nodes(p) : x \in HomeElements(p, j)
      BY <1>1, <2>1, <2>3 DEF PoolView
    <3> HIDE DEF w, e
    <3> QED
      BY <1>2, <2>6, <2>8, <2>9, <2>10, <2>11, <3>1, SMTT(60) DEF PoolView
  <2>13. e \in Elements(p)
    BY <1>2, <2>1, <2>3, ElementsAre
  <2>14. used \cup ({Claimed(p)} \ {NoElement}) = w
    BY <2>2, <2>4
  <2> QED
    BY <2>2, <2>4, <2>8, <2>9, <2>12, <2>13, <2>14, PoolViewed DEF q
<1> QED
  BY <1>3, <1>4
\* An element that comes back finds room in the stack of its own node, whatever
\* free_node was.
LEMMA ReclaimKeeps ==
  ASSUME NEW p, NEW used, PoolInv(p, used), NEW e \in used
  PROVE  /\ PoolInv(Reclaim(p, e), used \ {e})
         /\ Reclaim(p, e).size = p.size
         /\ Len(Reclaim(p, e).free) = Len(p.free)
<1> DEFINE i == Home(p, e)
           s == p.free[i]
           t == Append(s, e)
           q == Reclaim(p, e)
           w == used \ {e}
<1>1. PoolView(p, used)
  BY PoolViewed
<1>2. /\ p \in Pool /\ Len(p.free) \in Nat /\ Nodes(p) = 1 .. Len(p.free)
      /\ Len(p.size) = Len(p.free)
      /\ p.free \in Seq(Seq(Nat \X Nat)) /\ p.size \in Seq(Nat)
  BY <1>1 DEF PoolView, Pool, Nodes
<1>3. i \in Nodes(p) /\ e \in HomeElements(p, i)
  <2>1. PICK j \in Nodes(p) : e \in HomeElements(p, j)
    BY <1>1 DEF PoolView
  <2>2. e[1] = j
    BY <2>1, HomeFields
  <2> QED
    BY <2>1, <2>2 DEF Home
<1> HIDE DEF i
<1>4. /\ s \in Seq(HomeElements(p, i)) /\ Len(s) \in Nat
      /\ \A k \in 1 .. Len(s) : s[k] \notin used
      /\ \A k, l \in 1 .. Len(s) : s[k] = s[l] => k = l
  BY <1>1, <1>3 DEF PoolView
<1>5. Len(s) < p.size[i]
  <2>1. p.size[i] \in Nat /\ i \in Nat
    BY <1>2, <1>3
  <2>2. s \in Seq({i} \X (1 .. p.size[i])) /\ e \in {i} \X (1 .. p.size[i])
    BY <1>3, <1>4 DEF HomeElements
  <2>3. \A k \in 1 .. Len(s) : s[k] # e
    BY <1>4
  <2> HIDE DEF s
  <2> QED
    BY <1>4, <2>1, <2>2, <2>3, StackNotFull
<1>6. /\ t \in Seq(HomeElements(p, i)) /\ t \in Seq(Nat \X Nat)
      /\ Len(t) = Len(s) + 1 /\ t[Len(s) + 1] = e
      /\ \A k \in 1 .. Len(s) : t[k] = s[k]
  <2>1. s \in Seq(Nat \X Nat)
    BY <1>2, <1>3
  <2>2. e \in Nat \X Nat
    <3>1. i \in Nat /\ p.size[i] \in Nat
      BY <1>2, <1>3
    <3> QED
      BY <1>3, <3>1 DEF HomeElements
  <2> HIDE DEF s
  <2> QED
    BY <1>3, <1>4, <2>1, <2>2
<1> DEFINE f == [p.free EXCEPT ![i] = t]
<1>7. q = [free |-> f, size |-> p.size, free_node |-> i]
  <2>1. p = [free |-> p.free, size |-> p.size, free_node |-> p.free_node]
    BY <1>2 DEF Pool
  <2>2. f = [p.free EXCEPT ![i] = IF Len(@) < p.size[i] THEN Append(@, e) ELSE @]
    BY <1>2, <1>3, <1>5
  <2> HIDE DEF f
  <2>3. q = [p EXCEPT !.free = f, !.free_node = i]
    BY <2>1, <2>2 DEF Reclaim, i
  <2> HIDE DEF q
  <2> QED
    BY <1>2, <2>3 DEF Pool
<1>8. /\ f \in Seq(Seq(Nat \X Nat)) /\ Len(f) = Len(p.free)
      /\ \A j \in Nodes(p) : f[j] = IF j = i THEN t ELSE p.free[j]
  <2>1. p.free \in Seq(Seq(Nat \X Nat)) /\ i \in 1 .. Len(p.free) /\ t \in Seq(Nat \X Nat)
    BY <1>2, <1>3, <1>6
  <2> HIDE DEF s, t
  <2> QED
    BY <1>2, <2>1, SMTT(60)
<1> HIDE DEF f, q
<1>9. /\ q \in Pool /\ q.free = f /\ q.size = p.size /\ q.free_node = i
      /\ Nodes(q) = Nodes(p)
      /\ \A j : HomeElements(q, j) = HomeElements(p, j)
  <2>1. i \in Nat
    BY <1>2, <1>3
  <2> QED
    BY <1>2, <1>7, <1>8, <2>1 DEF Pool, Nodes, HomeElements
<1>10. ASSUME NEW j \in Nodes(p)
       PROVE /\ q.free[j] \in Seq(HomeElements(p, j))
             /\ \A k \in 1 .. Len(q.free[j]) : q.free[j][k] \notin w
             /\ \A k, l \in 1 .. Len(q.free[j]) : q.free[j][k] = q.free[j][l] => k = l
             /\ \A x \in HomeElements(p, j) :
                  x \notin w => \E k \in 1 .. Len(q.free[j]) : q.free[j][k] = x
  <2>1. /\ p.free[j] \in Seq(HomeElements(p, j)) /\ Len(p.free[j]) \in Nat
        /\ \A k \in 1 .. Len(p.free[j]) : p.free[j][k] \notin used
        /\ \A k, l \in 1 .. Len(p.free[j]) : p.free[j][k] = p.free[j][l] => k = l
        /\ \A x \in HomeElements(p, j) :
             x \notin used => \E k \in 1 .. Len(p.free[j]) : p.free[j][k] = x
    BY <1>1, <1>10, SMTT(60) DEF PoolView
  <2>2. CASE j # i
    <3>1. q.free[j] = p.free[j]
      BY <1>8, <1>9, <2>2
    <3>2. e \notin HomeElements(p, j)
      BY <1>3, <2>2, HomeFields
    <3> QED
      BY <2>1, <3>1, <3>2
  <2>3. CASE j = i
    <3>1. q.free[j] = t /\ p.free[j] = s
      BY <1>8, <1>9, <2>3
    <3>2. \A k \in 1 .. Len(t) : k \in 1 .. Len(s) \/ k = Len(s) + 1
      BY <1>4, <1>6, SMTT(60)
    <3>3. \A k \in 1 .. Len(s) : k \in 1 .. Len(t)
      BY <1>4, <1>6
    <3>4. Len(s) + 1 \in 1 .. Len(t)
      BY <1>4, <1>6
    <3> HIDE DEF s, t
    <3>5. \A k \in 1 .. Len(t) : t[k] \notin w
      BY <1>4, <1>6, <3>2
    <3>6. \A k, l \in 1 .. Len(t) : t[k] = t[l] => k = l
      <4>1. \A k \in 1 .. Len(s) : t[k] # e
        BY <1>4, <1>6
      <4> QED
        BY <1>4, <1>6, <3>2, <4>1
    <3>7. \A x \in HomeElements(p, j) : x \notin w => \E k \in 1 .. Len(t) : t[k] = x
      <4> SUFFICES ASSUME NEW x \in HomeElements(p, j), x \notin w
                   PROVE  \E k \in 1 .. Len(t) : t[k] = x
        OBVIOUS
      <4>1. CASE x = e
        BY <1>6, <3>4, <4>1
      <4>2. CASE x \notin used
        <5>1. PICK k \in 1 .. Len(s) : s[k] = x
          BY <2>1, <3>1, <4>2
        <5> QED
          BY <1>6, <3>3, <5>1
      <4> QED
        BY <4>1, <4>2
    <3>8. t \in Seq(HomeElements(p, j))
      BY <1>6, <2>3
    <3> QED
      BY <3>1, <3>5, <3>6, <3>7, <3>8, Zenon
  <2> QED
    BY <2>2, <2>3
<1>11. PoolView(q, w)
  <2>1. \A x \in w : \E j \in Nodes(p) : x \in HomeElements(p, j)
    BY <1>1 DEF PoolView
  <2>2. q \in Pool /\ Len(q.size) = Len(q.free) /\ q.free_node \in Nodes(q) \cup {Null}
    BY <1>2, <1>3, <1>8, <1>9
  <2>3. Nodes(q) = Nodes(p) /\ \A j : HomeElements(q, j) = HomeElements(p, j)
    BY <1>9
  <2> HIDE DEF w
  <2> QED
    BY <1>10, <2>1, <2>2, <2>3, Zenon DEF PoolView
<1> QED
  BY <1>8, <1>9, <1>11, PoolViewed DEF q

\* The node type_pool_node_new fills holds each of its elements once.
LEMMA NodeElementsAre ==
  ASSUME NEW i \in Nat, NEW num \in Nat
  PROVE  /\ NodeElements(i, num) \in Seq({i} \X (1 .. num))
         /\ NodeElements(i, num) \in Seq(Nat \X Nat)
         /\ Len(NodeElements(i, num)) = num
         /\ \A k \in 1 .. num : NodeElements(i, num)[k] = <<i, k>>
  BY DEF NodeElements

\* A new pool has all its elements.
LEMMA NewPoolKeeps ==
  ASSUME NEW num \in Nat
  PROVE  PoolInv(NewPool(num), {})
<1> DEFINE p == NewPool(num)
           n == NodeElements(1, num)
<1>1. /\ n \in Seq({1} \X (1 .. num)) /\ n \in Seq(Nat \X Nat) /\ Len(n) = num
      /\ \A k \in 1 .. num : n[k] = <<1, k>>
  BY NodeElementsAre
<1> HIDE DEF n
<1>2. p = [free |-> <<n>>, size |-> <<num>>, free_node |-> 1]
  BY DEF NewPool, n
<1> HIDE DEF p
<1>3. /\ p \in Pool /\ Len(p.free) = 1 /\ Len(p.size) = 1 /\ Nodes(p) = {1}
      /\ p.free[1] = n /\ p.size[1] = num /\ p.free_node = 1
  BY <1>1, <1>2 DEF Pool, Nodes
<1>4. HomeElements(p, 1) = {1} \X (1 .. num)
  BY <1>3 DEF HomeElements
<1>5. /\ \A k, l \in 1 .. num : n[k] = n[l] => k = l
      /\ \A x \in {1} \X (1 .. num) : \E k \in 1 .. num : n[k] = x
  BY <1>1, SMTT(60)
<1>6. PoolView(p, {})
  BY <1>1, <1>3, <1>4, <1>5 DEF PoolView
<1> QED
  BY <1>6, PoolViewed DEF p

\* type_pool_increase chains a node of free elements behind the others.
LEMMA IncreaseKeeps ==
  ASSUME NEW p, NEW used, PoolInv(p, used), NEW num \in Nat
  PROVE  PoolInv(Increase(p, num), used)
<1> DEFINE m == Len(p.free) + 1
           n == NodeElements(m, num)
           q == Increase(p, num)
<1>1. PoolView(p, used)
  BY PoolViewed
<1>2. /\ p \in Pool /\ Len(p.free) \in Nat /\ Nodes(p) = 1 .. Len(p.free)
      /\ Len(p.size) = Len(p.free) /\ m \in Nat
      /\ p.free \in Seq(Seq(Nat \X Nat)) /\ p.size \in Seq(Nat)
  BY <1>1 DEF PoolView, Pool, Nodes
<1>3. /\ n \in Seq({m} \X (1 .. num)) /\ n \in Seq(Nat \X Nat) /\ Len(n) = num
      /\ \A k \in 1 .. num : n[k] = <<m, k>>
  <2> HIDE DEF m
  <2> QED
    BY <1>2, NodeElementsAre
<1> HIDE DEF n
<1>4. q = [free |-> Append(p.free, n), size |-> Append(p.size, num), free_node |-> m]
  BY DEF Increase, n
<1> HIDE DEF q
<1>5. /\ q \in Pool /\ Len(q.free) = m /\ Len(q.size) = m /\ Nodes(q) = 1 .. m
      /\ q.free[m] = n /\ q.size[m] = num /\ q.free_node = m
      /\ \A j \in Nodes(p) : q.free[j] = p.free[j] /\ q.size[j] = p.size[j]
  BY <1>2, <1>3, <1>4 DEF Pool, Nodes
<1>6. /\ HomeElements(q, m) = {m} \X (1 .. num)
      /\ \A j \in Nodes(p) : HomeElements(q, j) = HomeElements(p, j)
  BY <1>5 DEF HomeElements
<1>7. \A j \in Nodes(q) : j \in Nodes(p) \/ j = m
  BY <1>2, <1>5
<1>8. m \notin Nodes(p) /\ m \in Nodes(q) /\ \A j \in Nodes(p) : j \in Nodes(q)
  BY <1>2, <1>5
<1> HIDE DEF m
<1>9. /\ \A k, l \in 1 .. num : n[k] = n[l] => k = l
      /\ \A x \in {m} \X (1 .. num) : \E k \in 1 .. num : n[k] = x
  <2>1. \A k \in 1 .. num : n[k] = <<m, k>>
    BY <1>3
  <2> QED
    BY <2>1
<1>10. \A k \in 1 .. num : n[k] \notin used
  <2> SUFFICES ASSUME NEW k \in 1 .. num, n[k] \in used PROVE FALSE
    OBVIOUS
  <2>1. PICK j \in Nodes(p) : n[k] \in HomeElements(p, j)
    BY <1>1 DEF PoolView
  <2>2. n[k][1] = j
    BY <2>1, HomeFields
  <2> QED
    BY <1>3, <1>8, <2>2
<1>11. ASSUME NEW j \in Nodes(q)
       PROVE /\ q.free[j] \in Seq(HomeElements(q, j))
             /\ \A k \in 1 .. Len(q.free[j]) : q.free[j][k] \notin used
             /\ \A k, l \in 1 .. Len(q.free[j]) : q.free[j][k] = q.free[j][l] => k = l
             /\ \A x \in HomeElements(q, j) :
                  x \notin used => \E k \in 1 .. Len(q.free[j]) : q.free[j][k] = x
  <2>1. CASE j = m
    BY <1>3, <1>5, <1>6, <1>9, <1>10, <2>1
  <2>2. CASE j \in Nodes(p)
    <3>1. q.free[j] = p.free[j] /\ HomeElements(q, j) = HomeElements(p, j)
      BY <1>5, <1>6, <2>2
    <3> QED
      BY <1>1, <2>2, <3>1 DEF PoolView
  <2> QED
    BY <1>7, <2>1, <2>2
<1>12. \A x \in used : \E j \in Nodes(q) : x \in HomeElements(q, j)
  <2> TAKE x \in used
  <2>1. PICK j \in Nodes(p) : x \in HomeElements(p, j)
    BY <1>1 DEF PoolView
  <2> QED
    BY <1>6, <1>8, <2>1
<1>13. PoolView(q, used)
  BY <1>5, <1>8, <1>11, <1>12 DEF PoolView
<1> QED
  BY <1>13, PoolViewed DEF q

\* The pool's invariant, for every size, every increase and every order of
\* claims and reclaims.
THEOREM PoolInvariance == PoolSpec => []PoolInv(pool, claimed)
<1>1. PoolInit => PoolInv(pool, claimed)
  BY PoolAssumption, NewPoolKeeps DEF PoolInit
<1>2. PoolInv(pool, claimed) /\ [PoolNext]_poolvars => PoolInv(pool, claimed)'
  <2> SUFFICES ASSUME PoolInv(pool, claimed), [PoolNext]_poolvars
               PROVE  PoolInv(pool', claimed')
    BY DEF PoolInv, Partition, Nodes, HomeElements, Free, Elements
  <2>1. CASE ClaimOne
    BY <2>1, ClaimKeeps DEF ClaimOne
  <2>2. CASE ReclaimOne
    BY <2>2, ReclaimKeeps DEF ReclaimOne
  <2>3. CASE IncreasePool
    <3>1. PICK num \in Increases : pool' = Increase(pool, num)
      BY <2>3 DEF IncreasePool
    <3>2. num \in Nat /\ claimed' = claimed
      BY <2>3, PoolAssumption DEF IncreasePool
    <3> QED
      BY <3>1, <3>2, IncreaseKeeps
  <2>4. CASE UNCHANGED poolvars
    BY <2>4 DEF poolvars
  <2> QED
    BY <2>1, <2>2, <2>3, <2>4 DEF PoolNext
<1> QED
  BY <1>1, <1>2, PTL DEF PoolSpec

\* type_pool_claim never hands out an element that is in use and finds one
\* wherever it is free; what is reclaimed is free again in its own node.
THEOREM ClaimsExactly == PoolSpec => []PoolExact
<1>1. PoolInv(pool, claimed) => PoolExact
  <2> SUFFICES ASSUME PoolInv(pool, claimed) PROVE PoolExact
    OBVIOUS
  <2>1. Partition(pool, claimed)
    BY DEF PoolInv
  <2>2. Source(pool) = Null => claimed = Elements(pool)
    <3> SUFFICES ASSUME Source(pool) = Null PROVE claimed = Elements(pool)
      OBVIOUS
    <3>1. Claimed(pool) = NoElement
      BY DEF Claimed
    <3> QED
      BY <3>1, ClaimKeeps
  <2> QED
    BY <2>1, <2>2 DEF PoolExact
<1> QED
  BY <1>1, PoolInvariance, PTL
-----------------------------------------------------------------------------
(***************************************************************************)
(* The list of list.c.                                                     *)
(***************************************************************************)

\* The nodes inside list_s are no nodes of the pool.
LEMMA Apart ==
  /\ head \notin ListNodes /\ tail \notin ListNodes /\ NoElement \notin ListNodes
  /\ head # tail /\ head # NoElement /\ tail # NoElement
<1>1. \A x \in ListNodes : x[1] = 1 /\ Len(x) = 2
  BY DEF ListNodes
<1>2. head[1] = 0 /\ tail[1] = 0 /\ head[2] = 1 /\ tail[2] = 2
  BY DEF head, tail
<1>3. Len(head) = 2 /\ Len(tail) = 2 /\ Len(NoElement) = 0
  BY DEF head, tail, NoElement
<1> QED
  BY <1>1, <1>2, <1>3

\* A pool of one node of node_num elements hands out list nodes only.
LEMMA ListElements ==
  ASSUME NEW p, NEW used, PoolInv(p, used), p.size = <<node_num>>
  PROVE  Elements(p) = ListNodes
<1>1. /\ p \in Pool /\ Len(p.size) = Len(p.free) /\ Len(p.size) = 1 /\ p.size[1] = node_num
  BY DEF PoolInv
<1>2. Nodes(p) = {1}
  BY <1>1 DEF Nodes
<1>3. HomeElements(p, 1) = ListNodes
  BY <1>1 DEF HomeElements, ListNodes
<1>4. \A x : x \in Elements(p) <=> x \in ListNodes
  BY <1>1, <1>2, <1>3, ElementsAre
<1> QED
  BY <1>4

\* A list whose data differ has different nodes.
LEMMA OwnNodes ==
  ASSUME NEW c, NEW nd, OwnData(c, nd)
  PROVE  \A i, j \in 1 .. Len(c) : c[i][1] = c[j][1] => i = j
  BY DEF OwnData

\* The positions of a list, head and tail included, are different places.
LEMMA NodeInApart ==
  ASSUME NEW c \in Seq(ListNodes \X Values),
         \A i, j \in 1 .. Len(c) : c[i][1] = c[j][1] => i = j,
         NEW i \in 0 .. Len(c) + 1, NEW j \in 0 .. Len(c) + 1,
         NodeIn(c, i) = NodeIn(c, j)
  PROVE  i = j
<1>1. \A k \in 1 .. Len(c) : c[k][1] \in ListNodes
  BY ElementOfSeq
<1>2. Len(c) \in Nat
  OBVIOUS
<1>3. CASE i \in 1 .. Len(c) /\ j \in 1 .. Len(c)
  BY <1>2, <1>3 DEF NodeIn
<1>4. CASE ~(i \in 1 .. Len(c)) \/ ~(j \in 1 .. Len(c))
  <2>1. \A k \in 0 .. Len(c) + 1 :
          \/ k \in 1 .. Len(c) /\ NodeIn(c, k) = c[k][1]
          \/ k = 0 /\ NodeIn(c, k) = head
          \/ k = Len(c) + 1 /\ NodeIn(c, k) = tail
    BY <1>2 DEF NodeIn
  <2> QED
    BY <1>1, <1>4, <2>1, Apart
<1> QED
  BY <1>3, <1>4

\* What NodeIn is when a node is appended.
LEMMA NodeInAppend ==
  ASSUME NEW c \in Seq(ListNodes \X Values), NEW n \in ListNodes, NEW v \in Values
  PROVE  /\ Append(c, <<n, v>>) \in Seq(ListNodes \X Values)
         /\ Len(Append(c, <<n, v>>)) = Len(c) + 1
         /\ \A i \in 0 .. Len(c) : NodeIn(Append(c, <<n, v>>), i) = NodeIn(c, i)
         /\ NodeIn(Append(c, <<n, v>>), Len(c) + 1) = n
         /\ NodeIn(Append(c, <<n, v>>), Len(c) + 2) = tail
<1> DEFINE d == Append(c, <<n, v>>)
<1>1. /\ d \in Seq(ListNodes \X Values) /\ Len(d) = Len(c) + 1 /\ Len(c) \in Nat
      /\ d[Len(c) + 1] = <<n, v>> /\ \A i \in 1 .. Len(c) : d[i] = c[i]
  OBVIOUS
<1> HIDE DEF d
<1>2. \A i \in 0 .. Len(c) : NodeIn(d, i) = NodeIn(c, i)
  BY <1>1 DEF NodeIn
<1>3. NodeIn(d, Len(c) + 1) = n /\ NodeIn(d, Len(c) + 2) = tail
  BY <1>1 DEF NodeIn
<1> QED
  BY <1>1, <1>2, <1>3 DEF d

LEMMA NodeInTypes ==
  ASSUME NEW c \in Seq(ListNodes \X Values)
  PROVE  /\ Len(c) \in Nat
         /\ \A i \in 1 .. Len(c) : NodeIn(c, i) = c[i][1] /\ NodeIn(c, i) \in ListNodes
         /\ NodeIn(c, 0) = head /\ NodeIn(c, Len(c) + 1) = tail
         /\ \A i \in 0 .. Len(c) : NodeIn(c, i) \in ListNodes \cup {head}
         /\ \A i \in 1 .. Len(c) + 1 : NodeIn(c, i) \in ListNodes \cup {tail}
<1>1. Len(c) \in Nat /\ \A i \in 1 .. Len(c) : c[i][1] \in ListNodes
  BY ElementOfSeq
<1>2. \A i \in 1 .. Len(c) : NodeIn(c, i) = c[i][1]
  BY <1>1 DEF NodeIn
<1>3. NodeIn(c, 0) = head /\ NodeIn(c, Len(c) + 1) = tail
  BY <1>1 DEF NodeIn
<1> QED
  BY <1>1, <1>2, <1>3, SMTT(60)

\* list_push_back relinks the last node, the new one and tail.
LEMMA PushLinks ==
  ASSUME NEW c \in Seq(ListNodes \X Values), NEW n \in ListNodes, NEW v \in Values,
         NEW nx \in [ListNodes \cup {head} -> ListNodes \cup {tail, NoElement}],
         NEW pr \in [ListNodes \cup {tail} -> ListNodes \cup {head, NoElement}],
         \A i, j \in 1 .. Len(c) : c[i][1] = c[j][1] => i = j,
         Linked(c, nx, pr), n \notin NodesOf(c)
  PROVE  LET nx2 == [nx EXCEPT ![pr[tail]] = n, ![n] = tail]
             pr2 == [pr EXCEPT ![n] = pr[tail], ![tail] = n]
         IN  /\ Linked(Append(c, <<n, v>>), nx2, pr2)
             /\ nx2 \in [ListNodes \cup {head} -> ListNodes \cup {tail, NoElement}]
             /\ pr2 \in [ListNodes \cup {tail} -> ListNodes \cup {head, NoElement}]
<1> DEFINE nx2 == [nx EXCEPT ![pr[tail]] = n, ![n] = tail]
           pr2 == [pr EXCEPT ![n] = pr[tail], ![tail] = n]
           d == Append(c, <<n, v>>)
           m == Len(c)
<1>1. m \in Nat /\ \A i \in 0 .. m : NodeIn(c, i) \in ListNodes \cup {head}
  BY NodeInTypes
<1>2. \A i \in 1 .. m : NodeIn(c, i) \in ListNodes /\ NodeIn(c, i) # n
  BY NodeInTypes DEF NodesOf
<1>3. NodeIn(c, 0) = head /\ NodeIn(c, m + 1) = tail
  BY NodeInTypes
<1>4. /\ Len(d) = m + 1
      /\ \A i \in 0 .. m : NodeIn(d, i) = NodeIn(c, i)
      /\ NodeIn(d, m + 1) = n /\ NodeIn(d, m + 2) = tail
  BY NodeInAppend
<1>5. /\ \A i \in 0 .. m : nx[NodeIn(c, i)] = NodeIn(c, i + 1)
      /\ \A i \in 0 .. m : pr[NodeIn(c, i + 1)] = NodeIn(c, i)
  BY DEF Linked
<1>6. \A i \in 0 .. m : \A j \in 0 .. m : NodeIn(c, i) = NodeIn(c, j) => i = j
  BY <1>1, NodeInApart, SMTT(60)
<1> DEFINE l == NodeIn(c, m)
<1>7. pr[tail] = l
  BY <1>1, <1>3, <1>5
<1>8. l \in ListNodes \cup {head} /\ l # n /\ \A i \in 0 .. m : NodeIn(c, i) # n
  <2>1. head # n
    BY Apart
  <2>2. \A i \in 0 .. m : i = 0 \/ i \in 1 .. m
    BY <1>1
  <2>3. \A i \in 0 .. m : NodeIn(c, i) # n
    BY <1>2, <1>3, <2>1, <2>2
  <2>4. m \in 0 .. m
    BY <1>1
  <2> QED
    BY <1>1, <2>3, <2>4
<1> HIDE DEF l, m, d
<1>9. /\ nx2 \in [ListNodes \cup {head} -> ListNodes \cup {tail, NoElement}]
      /\ nx2[l] = n /\ nx2[n] = tail
      /\ \A x \in ListNodes \cup {head} : x # l /\ x # n => nx2[x] = nx[x]
  BY <1>7, <1>8
<1>10. /\ pr2 \in [ListNodes \cup {tail} -> ListNodes \cup {head, NoElement}]
       /\ pr2[n] = l /\ pr2[tail] = n
       /\ \A x \in ListNodes \cup {tail} : x # n /\ x # tail => pr2[x] = pr[x]
  BY <1>7, <1>8, Apart
<1> HIDE DEF nx2, pr2
<1>11. ASSUME NEW i \in 0 .. m + 1
       PROVE  nx2[NodeIn(d, i)] = NodeIn(d, i + 1) /\ pr2[NodeIn(d, i + 1)] = NodeIn(d, i)
  <2>1. CASE i = m + 1
    BY <1>1, <1>4, <1>9, <1>10, <2>1
  <2>2. CASE i = m
    <3>1. NodeIn(d, i) = l /\ NodeIn(d, i + 1) = n
      BY <1>1, <1>4, <2>2 DEF l
    <3> QED
      BY <1>9, <1>10, <3>1
  <2>3. CASE i \in 0 .. m - 1
    <3>1. i \in 0 .. m /\ i + 1 \in 1 .. m /\ i + 1 \in 0 .. m /\ m \in 0 .. m /\ i # m
      BY <1>1, <2>3
    <3>2. NodeIn(d, i) = NodeIn(c, i) /\ NodeIn(d, i + 1) = NodeIn(c, i + 1)
      BY <1>4, <3>1
    <3>3. NodeIn(c, i) # l
      BY <1>6, <3>1 DEF l
    <3>4. nx2[NodeIn(c, i)] = nx[NodeIn(c, i)]
      BY <1>1, <1>8, <1>9, <3>1, <3>3
    <3>5. pr2[NodeIn(c, i + 1)] = pr[NodeIn(c, i + 1)]
      BY <1>2, <1>10, <3>1, Apart
    <3> QED
      BY <1>5, <3>1, <3>2, <3>4, <3>5
  <2> QED
    BY <1>1, <2>1, <2>2, <2>3
<1>12. Linked(d, nx2, pr2)
  BY <1>4, <1>11 DEF Linked
<1> QED
  BY <1>9, <1>10, <1>12 DEF d, nx2, pr2

\* Where a node that is in the list is found.
LEMMA PlaceFound ==
  ASSUME NEW c, \A i, j \in 1 .. Len(c) : c[i][1] = c[j][1] => i = j,
         NEW k \in 1 .. Len(c)
  PROVE  PlaceOf(c, c[k][1]) = k
  BY DEF PlaceOf

\* A list without its k-th node.
LEMMA UnlinkedIs ==
  ASSUME NEW S, NEW c \in Seq(S), NEW k \in 1 .. Len(c), NEW n, PlaceOf(c, n) = k
  PROVE  /\ Unlinked(c, n) \in Seq(S)
         /\ Len(Unlinked(c, n)) = Len(c) - 1
         /\ \A i \in 1 .. Len(c) - 1 : Unlinked(c, n)[i] = IF i < k THEN c[i] ELSE c[i + 1]
<1> DEFINE a == SubSeq(c, 1, k - 1)
           b == SubSeq(c, k + 1, Len(c))
<1>1. Len(c) \in Nat /\ k \in Nat
  OBVIOUS
<1>2. a \in Seq(S) /\ Len(a) = k - 1 /\ \A i \in 1 .. k - 1 : a[i] = c[i]
  BY <1>1
<1>3. b \in Seq(S) /\ Len(b) = Len(c) - k /\ \A i \in 1 .. Len(c) - k : b[i] = c[k + i]
  BY <1>1
<1>4. Unlinked(c, n) = a \o b
  BY DEF Unlinked
<1> HIDE DEF a, b
<1>5. /\ a \o b \in Seq(S) /\ Len(a \o b) = Len(a) + Len(b)
      /\ \A i \in 1 .. Len(a) + Len(b) :
           (a \o b)[i] = IF i <= Len(a) THEN a[i] ELSE b[i - Len(a)]
  BY <1>2, <1>3, ConcatProperties, ZenonT(60)
<1>6. ASSUME NEW i \in 1 .. Len(c) - 1
      PROVE  (a \o b)[i] = IF i < k THEN c[i] ELSE c[i + 1]
  <2>1. i \in 1 .. Len(a) + Len(b)
    BY <1>1, <1>2, <1>3
  <2>2. CASE i < k
    BY <1>1, <1>2, <1>5, <2>1, <2>2, SMTT(60)
  <2>3. CASE ~(i < k)
    <3>1. i - Len(a) \in 1 .. Len(c) - k /\ k + (i - Len(a)) = i + 1 /\ ~(i <= Len(a))
      BY <1>1, <1>2, <2>3
    <3>2. (a \o b)[i] = b[i - Len(a)]
      BY <1>5, <2>1, <3>1
    <3>3. b[i - Len(a)] = c[k + (i - Len(a))]
      BY <1>3, <3>1
    <3> QED
      BY <2>3, <3>1, <3>2, <3>3
  <2> QED
    BY <2>2, <2>3
<1>7. a \o b \in Seq(S) /\ Len(a \o b) = Len(c) - 1
  BY <1>1, <1>2, <1>3, <1>5
<1> QED
  BY <1>4, <1>6, <1>7

LEMMA NodeInUnlinked ==
  ASSUME NEW c \in Seq(ListNodes \X Values), NEW k \in 1 .. Len(c), NEW n,
         PlaceOf(c, n) = k
  PROVE  \A i \in 0 .. Len(c) :
           NodeIn(Unlinked(c, n), i) = IF i < k THEN NodeIn(c, i) ELSE NodeIn(c, i + 1)
<1> DEFINE d == Unlinked(c, n)
<1>1. Len(c) \in Nat /\ k \in Nat /\ k \in 1 .. Len(c)
  OBVIOUS
<1>2. /\ Len(d) = Len(c) - 1
      /\ \A i \in 1 .. Len(c) - 1 : d[i] = IF i < k THEN c[i] ELSE c[i + 1]
  <2> DEFINE S == ListNodes \X Values
  <2>1. c \in Seq(S)
    OBVIOUS
  <2> HIDE DEF S, d
  <2>2. /\ Len(Unlinked(c, n)) = Len(c) - 1
        /\ \A i \in 1 .. Len(c) - 1 :
             Unlinked(c, n)[i] = IF i < k THEN c[i] ELSE c[i + 1]
    BY <2>1, UnlinkedIs
  <2>3. d = Unlinked(c, n)
    BY DEF d
  <2> QED
    BY <2>2, <2>3, Zenon
<1> HIDE DEF d
<1>3. ASSUME NEW i \in 0 .. Len(c)
      PROVE  NodeIn(d, i) = IF i < k THEN NodeIn(c, i) ELSE NodeIn(c, i + 1)
  <2>1. CASE i = 0
    BY <1>1, <2>1 DEF NodeIn
  <2>2. CASE i = Len(c)
    BY <1>1, <1>2, <2>2 DEF NodeIn
  <2>3. CASE i \in 1 .. Len(c) - 1
    <3>1. NodeIn(d, i) = d[i][1]
      BY <1>1, <1>2, <2>3 DEF NodeIn
    <3>2. NodeIn(c, i) = c[i][1] /\ NodeIn(c, i + 1) = c[i + 1][1]
      BY <1>1, <2>3 DEF NodeIn
    <3> QED
      BY <1>2, <2>3, <3>1, <3>2
  <2> QED
    BY <1>1, <2>1, <2>2, <2>3
<1>4. d = Unlinked(c, n)
  BY DEF d
<1> QED
  BY <1>3, <1>4, Zenon

\* list_erase joins the neighbours of the node.
LEMMA EraseLinks ==
  ASSUME NEW c \in Seq(ListNodes \X Values), NEW k \in 1 .. Len(c), NEW n,
         n = c[k][1],
         NEW nx \in [ListNodes \cup {head} -> ListNodes \cup {tail, NoElement}],
         NEW pr \in [ListNodes \cup {tail} -> ListNodes \cup {head, NoElement}],
         \A i, j \in 1 .. Len(c) : c[i][1] = c[j][1] => i = j,
         Linked(c, nx, pr)
  PROVE  LET nx2 == [nx EXCEPT ![pr[n]] = nx[n]]
             pr2 == [pr EXCEPT ![nx[n]] = pr[n]]
         IN  /\ Linked(Unlinked(c, n), nx2, pr2)
             /\ nx2 \in [ListNodes \cup {head} -> ListNodes \cup {tail, NoElement}]
             /\ pr2 \in [ListNodes \cup {tail} -> ListNodes \cup {head, NoElement}]
<1> DEFINE nx2 == [nx EXCEPT ![pr[n]] = nx[n]]
           pr2 == [pr EXCEPT ![nx[n]] = pr[n]]
           d == Unlinked(c, n)
           m == Len(c)
           l == NodeIn(c, k - 1)
           r == NodeIn(c, k + 1)
<1>1. m \in Nat /\ k \in 1 .. m
  OBVIOUS
<1>2. PlaceOf(c, n) = k
  BY PlaceFound
<1>3. /\ NodeIn(c, k) = n
      /\ \A i \in 0 .. m : NodeIn(c, i) \in ListNodes \cup {head}
      /\ \A i \in 1 .. m + 1 : NodeIn(c, i) \in ListNodes \cup {tail}
  BY <1>1, NodeInTypes
<1>4. /\ \A i \in 0 .. m : nx[NodeIn(c, i)] = NodeIn(c, i + 1)
      /\ \A i \in 0 .. m : pr[NodeIn(c, i + 1)] = NodeIn(c, i)
  BY DEF Linked
<1>5. \A i, j \in 0 .. m + 1 : NodeIn(c, i) = NodeIn(c, j) => i = j
  <2> TAKE i, j \in 0 .. m + 1
  <2> HAVE NodeIn(c, i) = NodeIn(c, j)
  <2> QED
    BY NodeInApart
<1>6. pr[n] = l /\ nx[n] = r
  <2>1. k \in 0 .. m /\ k - 1 \in 0 .. m /\ k - 1 + 1 = k
    BY <1>1
  <2>2. nx[NodeIn(c, k)] = NodeIn(c, k + 1) /\ pr[NodeIn(c, k - 1 + 1)] = NodeIn(c, k - 1)
    BY <1>4, <2>1
  <2> QED
    BY <1>3, <2>1, <2>2
<1>7. \A i \in 0 .. m : NodeIn(d, i) = IF i < k THEN NodeIn(c, i) ELSE NodeIn(c, i + 1)
  BY <1>2, NodeInUnlinked, SMTT(60)
<1>8. Len(d) = m - 1
  BY <1>2, UnlinkedIs
<1>9. l \in ListNodes \cup {head} /\ r \in ListNodes \cup {tail}
  BY <1>1, <1>3
<1> HIDE DEF l, r, m, d
<1>10. /\ nx2 \in [ListNodes \cup {head} -> ListNodes \cup {tail, NoElement}]
       /\ nx2[l] = r /\ \A x \in ListNodes \cup {head} : x # l => nx2[x] = nx[x]
  BY <1>6, <1>9
<1>11. /\ pr2 \in [ListNodes \cup {tail} -> ListNodes \cup {head, NoElement}]
       /\ pr2[r] = l /\ \A x \in ListNodes \cup {tail} : x # r => pr2[x] = pr[x]
  BY <1>6, <1>9
<1> HIDE DEF nx2, pr2
<1>12. ASSUME NEW i \in 0 .. m - 1
       PROVE  nx2[NodeIn(d, i)] = NodeIn(d, i + 1) /\ pr2[NodeIn(d, i + 1)] = NodeIn(d, i)
  <2>1. i \in 0 .. m /\ i + 1 \in 0 .. m /\ i + 1 \in 1 .. m + 1
    BY <1>1
  <2>2. CASE i = k - 1
    <3>1. NodeIn(d, i) = l /\ NodeIn(d, i + 1) = r
      <4>1. i < k /\ ~(i + 1 < k) /\ i + 1 + 1 = k + 1
        BY <1>1, <2>2
      <4> QED
        BY <1>7, <2>1, <2>2, <4>1 DEF l, r
    <3> QED
      BY <1>10, <1>11, <3>1
  <2>3. CASE i < k - 1
    <3>1. NodeIn(d, i) = NodeIn(c, i) /\ NodeIn(d, i + 1) = NodeIn(c, i + 1)
      <4>1. i < k /\ i + 1 < k
        BY <1>1, <2>3
      <4> QED
        BY <1>7, <2>1, <4>1
    <3>2. NodeIn(c, i) # l /\ NodeIn(c, i + 1) # r
      <4>1. /\ i # k - 1 /\ i + 1 # k + 1 /\ i \in 0 .. m + 1 /\ i + 1 \in 0 .. m + 1
            /\ k - 1 \in 0 .. m + 1 /\ k + 1 \in 0 .. m + 1
        BY <1>1, <2>1, <2>3
      <4> QED
        BY <1>5, <4>1 DEF l, r
    <3>3. nx2[NodeIn(c, i)] = nx[NodeIn(c, i)] /\ pr2[NodeIn(c, i + 1)] = pr[NodeIn(c, i + 1)]
      BY <1>3, <1>10, <1>11, <2>1, <3>2
    <3> QED
      BY <1>4, <2>1, <3>1, <3>3
  <2>4. CASE i > k - 1
    <3>1. NodeIn(d, i) = NodeIn(c, i + 1) /\ NodeIn(d, i + 1) = NodeIn(c, i + 1 + 1)
      <4>1. ~(i < k) /\ ~(i + 1 < k)
        BY <1>1, <2>4
      <4> QED
        BY <1>7, <2>1, <4>1
    <3>2. i + 1 + 1 \in 1 .. m + 1
      BY <1>1, <2>1
    <3>3. NodeIn(c, i + 1) # l /\ NodeIn(c, i + 1 + 1) # r
      <4>1. /\ i + 1 # k - 1 /\ i + 1 + 1 # k + 1
            /\ i + 1 \in 0 .. m + 1 /\ i + 1 + 1 \in 0 .. m + 1
            /\ k - 1 \in 0 .. m + 1 /\ k + 1 \in 0 .. m + 1
        BY <1>1, <2>1, <2>4
      <4> QED
        BY <1>5, <4>1 DEF l, r
    <3>4. nx2[NodeIn(c, i + 1)] = nx[NodeIn(c, i + 1)] /\ pr2[NodeIn(c, i + 1 + 1)] = pr[NodeIn(c, i + 1 + 1)]
      BY <1>3, <1>10, <1>11, <2>1, <3>2, <3>3
    <3> QED
      BY <1>4, <2>1, <3>1, <3>4
  <2> QED
    BY <1>1, <2>2, <2>3, <2>4
<1>13. Linked(d, nx2, pr2)
  BY <1>8, <1>12 DEF Linked
<1> QED
  BY <1>10, <1>11, <1>13 DEF d, nx2, pr2

\* The nodes and data of a list that one is appended to.
LEMMA PushData ==
  ASSUME NEW c \in Seq(ListNodes \X Values), NEW n \in ListNodes, NEW v \in Values,
         NEW nd \in [ListNodes -> ListNodes \cup {NoElement}],
         NEW mem \in [ListNodes -> Values \cup {NoElement}],
         NEW e \in ListNodes, n \notin NodesOf(c), e \notin DataOf(c, nd),
         DataOf(c, nd) \subseteq ListNodes, OwnData(c, nd), Stored(c, nd, mem)
  PROVE  LET nd2  == [nd EXCEPT ![n] = e]
             mem2 == [mem EXCEPT ![e] = v]
             d    == Append(c, <<n, v>>)
         IN  /\ NodesOf(d) = NodesOf(c) \cup {n}
             /\ DataOf(d, nd2) = DataOf(c, nd) \cup {e}
             /\ OwnData(d, nd2) /\ Stored(d, nd2, mem2)
<1> DEFINE nd2  == [nd EXCEPT ![n] = e]
           mem2 == [mem EXCEPT ![e] = v]
           d    == Append(c, <<n, v>>)
           m    == Len(c)
<1>1. /\ m \in Nat /\ Len(d) = m + 1
      /\ d[m + 1] = <<n, v>> /\ \A i \in 1 .. m : d[i] = c[i]
  OBVIOUS
<1>2. d[m + 1][1] = n /\ d[m + 1][2] = v
  BY <1>1
<1>3. \A i \in 1 .. m : c[i][1] \in ListNodes /\ c[i][1] # n
  BY ElementOfSeq DEF NodesOf
<1>4. \A i \in 1 .. m : nd[c[i][1]] # e /\ nd[c[i][1]] \in ListNodes
  BY DEF DataOf
<1>5. nd2[n] = e /\ \A x \in ListNodes : x # n => nd2[x] = nd[x]
  OBVIOUS
<1>6. mem2[e] = v /\ \A x \in ListNodes : x # e => mem2[x] = mem[x]
  OBVIOUS
<1>7. \A i \in 1 .. m + 1 : i \in 1 .. m \/ i = m + 1
  BY <1>1
<1>8. m + 1 \in 1 .. m + 1 /\ \A i \in 1 .. m : i \in 1 .. m + 1
  BY <1>1
<1> HIDE DEF nd2, mem2, d, m
<1>9. \A i \in 1 .. m : nd2[d[i][1]] = nd[c[i][1]]
  BY <1>1, <1>3, <1>5
<1>10. nd2[d[m + 1][1]] = e
  BY <1>2, <1>5
<1>11. NodesOf(d) = NodesOf(c) \cup {n}
  <2>1. \A x : x \in NodesOf(d) <=> \E i \in 1 .. m + 1 : x = d[i][1]
    BY <1>1 DEF NodesOf
  <2>2. \A x : x \in NodesOf(c) <=> \E i \in 1 .. m : x = c[i][1]
    BY DEF NodesOf, m
  <2>3. \A x : (\E i \in 1 .. m + 1 : x = d[i][1]) <=> (x = n \/ \E i \in 1 .. m : x = c[i][1])
    BY <1>1, <1>2, <1>7, <1>8
  <2> QED
    BY <2>1, <2>2, <2>3
<1>12. DataOf(d, nd2) = DataOf(c, nd) \cup {e}
  <2>1. \A x : x \in DataOf(d, nd2) <=> \E i \in 1 .. m + 1 : x = nd2[d[i][1]]
    BY <1>1 DEF DataOf
  <2>2. \A x : x \in DataOf(c, nd) <=> \E i \in 1 .. m : x = nd[c[i][1]]
    BY DEF DataOf, m
  <2>3. \A x : (\E i \in 1 .. m + 1 : x = nd2[d[i][1]]) <=> (x = e \/ \E i \in 1 .. m : x = nd[c[i][1]])
    BY <1>7, <1>8, <1>9, <1>10
  <2> QED
    BY <2>1, <2>2, <2>3
<1>13. OwnData(d, nd2)
  <2>1. \A i, j \in 1 .. m : nd[c[i][1]] = nd[c[j][1]] => i = j
    BY DEF OwnData, m
  <2> QED
    BY <1>1, <1>4, <1>7, <1>9, <1>10, <2>1 DEF OwnData
<1>14. Stored(d, nd2, mem2)
  <2>1. \A i \in 1 .. m : mem[nd[c[i][1]]] = c[i][2]
    BY DEF Stored, m
  <2>2. \A i \in 1 .. m : mem2[nd2[d[i][1]]] = d[i][2]
    BY <1>1, <1>4, <1>6, <1>9, <2>1
  <2>3. mem2[nd2[d[m + 1][1]]] = d[m + 1][2]
    BY <1>2, <1>6, <1>10
  <2> QED
    BY <1>1, <1>7, <2>2, <2>3 DEF Stored
<1> QED
  BY <1>11, <1>12, <1>13, <1>14 DEF nd2, mem2, d

\* The nodes and data of a list that its k-th node is erased from.
LEMMA EraseData ==
  ASSUME NEW c \in Seq(ListNodes \X Values), NEW k \in 1 .. Len(c), NEW n,
         n = c[k][1], NEW nd, NEW mem, OwnData(c, nd), Stored(c, nd, mem)
  PROVE  /\ NodesOf(Unlinked(c, n)) = NodesOf(c) \ {n}
         /\ DataOf(Unlinked(c, n), nd) = DataOf(c, nd) \ {nd[n]}
         /\ OwnData(Unlinked(c, n), nd) /\ Stored(Unlinked(c, n), nd, mem)
<1> DEFINE d == Unlinked(c, n)
           m == Len(c)
           From(i) == IF i < k THEN i ELSE i + 1
<1>1. m \in Nat /\ k \in 1 .. m
  OBVIOUS
<1>2. PlaceOf(c, n) = k
  BY PlaceFound, OwnNodes
<1>3. Len(d) = m - 1 /\ \A i \in 1 .. m - 1 : d[i] = IF i < k THEN c[i] ELSE c[i + 1]
  BY <1>2, UnlinkedIs
<1> HIDE DEF d
<1>4. \A i \in 1 .. m - 1 : d[i] = c[From(i)] /\ From(i) \in 1 .. m /\ From(i) # k
  BY <1>1, <1>3
<1>5. \A i, j \in 1 .. m - 1 : From(i) = From(j) => i = j
  BY <1>1
<1>6. \A j \in 1 .. m : j # k => \E i \in 1 .. m - 1 : From(i) = j
  <2> TAKE j \in 1 .. m
  <2> HAVE j # k
  <2>1. CASE j < k
    <3>1. j \in 1 .. m - 1 /\ From(j) = j
      BY <1>1, <2>1
    <3> QED
      BY <3>1
  <2>2. CASE j > k
    <3>1. j - 1 \in 1 .. m - 1 /\ From(j - 1) = j
      BY <1>1, <2>2
    <3> QED
      BY <3>1
  <2> QED
    BY <1>1, <2>1, <2>2
<1>7. \A i, j \in 1 .. m : nd[c[i][1]] = nd[c[j][1]] => i = j
  BY DEF OwnData
<1>8. \A i, j \in 1 .. m : c[i][1] = c[j][1] => i = j
  BY OwnNodes
<1> HIDE DEF From
<1>9. NodesOf(d) = NodesOf(c) \ {n}
  <2>1. \A x : x \in NodesOf(d) <=> \E i \in 1 .. m - 1 : x = c[From(i)][1]
    <3>1. \A x : x \in NodesOf(d) <=> \E i \in 1 .. m - 1 : x = d[i][1]
      BY <1>3 DEF NodesOf
    <3>2. \A i \in 1 .. m - 1 : d[i][1] = c[From(i)][1]
      BY <1>4
    <3> QED
      BY <3>1, <3>2
  <2>2. \A x : x \in NodesOf(c) <=> \E i \in 1 .. m : x = c[i][1]
    BY DEF NodesOf
  <2>3. \A i \in 1 .. m : c[i][1] = n <=> i = k
    BY <1>1, <1>8
  <2>4. \A x : (\E i \in 1 .. m - 1 : x = c[From(i)][1]) <=> (x # n /\ \E i \in 1 .. m : x = c[i][1])
    <3> SUFFICES ASSUME NEW x
                 PROVE  (\E i \in 1 .. m - 1 : x = c[From(i)][1])
                        <=> (x # n /\ \E i \in 1 .. m : x = c[i][1])
      OBVIOUS
    <3>1. ASSUME NEW i \in 1 .. m - 1, x = c[From(i)][1]
          PROVE  x # n /\ \E j \in 1 .. m : x = c[j][1]
      BY <1>4, <2>3, <3>1
    <3>2. ASSUME NEW j \in 1 .. m, x = c[j][1], x # n
          PROVE  \E i \in 1 .. m - 1 : x = c[From(i)][1]
      <4>1. j # k
        BY <2>3, <3>2
      <4>2. PICK i \in 1 .. m - 1 : From(i) = j
        BY <1>6, <4>1
      <4> QED BY <3>2, <4>2
    <3> QED
      BY <3>1, <3>2
  <2>5. \A x : x \in NodesOf(d) <=> x \in NodesOf(c) \ {n}
    <3> SUFFICES ASSUME NEW x
                 PROVE  x \in NodesOf(d) <=> (x # n /\ x \in NodesOf(c))
      OBVIOUS
    <3>1. x \in NodesOf(d) <=> \E i \in 1 .. m - 1 : x = c[From(i)][1]
      BY <2>1
    <3>2. x \in NodesOf(c) <=> \E i \in 1 .. m : x = c[i][1]
      BY <2>2
    <3>3. (\E i \in 1 .. m - 1 : x = c[From(i)][1]) <=> (x # n /\ \E i \in 1 .. m : x = c[i][1])
      BY <2>4
    <3> QED BY <3>1, <3>2, <3>3, Zenon
  <2> QED
    BY <2>5, Zenon
<1>10. DataOf(d, nd) = DataOf(c, nd) \ {nd[n]}
  <2>1. \A x : x \in DataOf(d, nd) <=> \E i \in 1 .. m - 1 : x = nd[c[From(i)][1]]
    <3>1. \A x : x \in DataOf(d, nd) <=> \E i \in 1 .. m - 1 : x = nd[d[i][1]]
      BY <1>3 DEF DataOf
    <3>2. \A i \in 1 .. m - 1 : nd[d[i][1]] = nd[c[From(i)][1]]
      BY <1>4
    <3> QED
      BY <3>1, <3>2, SMTT(60)
  <2>2. \A x : x \in DataOf(c, nd) <=> \E i \in 1 .. m : x = nd[c[i][1]]
    BY DEF DataOf
  <2>3. \A i \in 1 .. m : nd[c[i][1]] = nd[n] <=> i = k
    BY <1>1, <1>7
  <2>4. \A x : (\E i \in 1 .. m - 1 : x = nd[c[From(i)][1]])
               <=> (x # nd[n] /\ \E i \in 1 .. m : x = nd[c[i][1]])
    <3> SUFFICES ASSUME NEW x
                 PROVE  (\E i \in 1 .. m - 1 : x = nd[c[From(i)][1]])
                        <=> (x # nd[n] /\ \E i \in 1 .. m : x = nd[c[i][1]])
      OBVIOUS
    <3>1. ASSUME NEW i \in 1 .. m - 1, x = nd[c[From(i)][1]]
          PROVE  x # nd[n] /\ \E j \in 1 .. m : x = nd[c[j][1]]
      BY <1>4, <2>3, <3>1
    <3>2. ASSUME NEW j \in 1 .. m, x = nd[c[j][1]], x # nd[n]
          PROVE  \E i \in 1 .. m - 1 : x = nd[c[From(i)][1]]
      <4>1. j # k
        BY <2>3, <3>2
      <4>2. PICK i \in 1 .. m - 1 : From(i) = j
        BY <1>6, <4>1
      <4> QED BY <3>2, <4>2
    <3> QED
      BY <3>1, <3>2
  <2>5. \A x : x \in DataOf(d, nd) <=> x \in DataOf(c, nd) \ {nd[n]}
    <3> SUFFICES ASSUME NEW x
                 PROVE  x \in DataOf(d, nd) <=> (x # nd[n] /\ x \in DataOf(c, nd))
      OBVIOUS
    <3>1. x \in DataOf(d, nd) <=> \E i \in 1 .. m - 1 : x = nd[c[From(i)][1]]
      BY <2>1
    <3>2. x \in DataOf(c, nd) <=> \E i \in 1 .. m : x = nd[c[i][1]]
      BY <2>2
    <3>3. (\E i \in 1 .. m - 1 : x = nd[c[From(i)][1]])
            <=> (x # nd[n] /\ \E i \in 1 .. m : x = nd[c[i][1]])
      BY <2>4
    <3> QED BY <3>1, <3>2, <3>3, Zenon
  <2> QED
    BY <2>5, Zenon
<1>11. OwnData(d, nd)
  BY <1>3, <1>4, <1>5, <1>7 DEF OwnData
<1>12. Stored(d, nd, mem)
  <2>1. \A i \in 1 .. m : mem[nd[c[i][1]]] = c[i][2]
    BY DEF Stored
  <2>2. ASSUME NEW i \in 1 .. m - 1
        PROVE  mem[nd[d[i][1]]] = d[i][2]
    <3>1. From(i) \in 1 .. m /\ d[i] = c[From(i)]
      BY <1>4
    <3> QED BY <2>1, <3>1
  <2> QED
    BY <1>3, <2>2 DEF Stored
<1> QED
  BY <1>9, <1>10, <1>11, <1>12 DEF d

LEMMA ListInit_Inv == ListInit => ListInv
<1> SUFFICES ASSUME ListInit PROVE ListInv
  OBVIOUS
<1> USE DEF ListInit
<1>1. /\ next \in [ListNodes \cup {head} -> ListNodes \cup {tail, NoElement}]
      /\ prior \in [ListNodes \cup {tail} -> ListNodes \cup {head, NoElement}]
      /\ node_data \in [ListNodes -> ListNodes \cup {NoElement}]
      /\ memory \in [ListNodes -> Values \cup {NoElement}]
      /\ next[head] = tail /\ prior[tail] = head
  OBVIOUS
<1>2. /\ content \in Seq(ListNodes \X Values) /\ Len(content) = 0
      /\ at \in NodesOf(content) \cup {NoElement, tail}
  OBVIOUS
<1>3. NodesOf(content) = {} /\ DataOf(content, node_data) = {}
  BY <1>2 DEF NodesOf, DataOf
<1>4. /\ PoolInv(node_pool, {}) /\ node_pool.size = <<node_num>>
      /\ PoolInv(data_pool, {}) /\ data_pool.size = <<node_num>>
  <2>1. PoolInv(NewPool(node_num), {})
    BY ListAssumption, NewPoolKeeps
  <2>2. NewPool(node_num).size = <<node_num>>
    BY DEF NewPool
  <2> QED
    BY <2>1, <2>2
<1>5. Linked(content, next, prior)
  <2>1. NodeIn(content, 0) = head /\ NodeIn(content, 0 + 1) = tail
    BY <1>2 DEF NodeIn
  <2>2. \A i \in 0 .. Len(content) : i = 0
    BY <1>2
  <2> QED
    BY <1>1, <2>1, <2>2 DEF Linked
<1>6. OwnData(content, node_data) /\ Stored(content, node_data, memory)
  BY <1>2 DEF OwnData, Stored
<1> QED
  BY <1>1, <1>2, <1>3, <1>4, <1>5, <1>6 DEF ListInv

\* What the list has claimed, and that claims come from the list's own nodes.
LEMMA ListClaims ==
  ASSUME NEW p, NEW used, PoolInv(p, used), p.size = <<node_num>>
  PROVE  /\ PoolInv(Claim(p), used \cup ({Claimed(p)} \ {NoElement}))
         /\ Claim(p).size = <<node_num>>
         /\ used \subseteq ListNodes
         /\ Claimed(p) # NoElement => Claimed(p) \in ListNodes \ used
<1>1. Elements(p) = ListNodes
  BY ListElements
<1>2. used \subseteq Elements(p)
  BY DEF PoolInv, Partition
<1> QED
  BY <1>1, <1>2, ClaimKeeps

\* The invariant of the next state, conjunct by conjunct.
LEMMA ListInvNext ==
  ASSUME next' \in [ListNodes \cup {head} -> ListNodes \cup {tail, NoElement}],
         prior' \in [ListNodes \cup {tail} -> ListNodes \cup {head, NoElement}],
         node_data' \in [ListNodes -> ListNodes \cup {NoElement}],
         memory' \in [ListNodes -> Values \cup {NoElement}],
         content' \in Seq(ListNodes \X Values),
         at' \in NodesOf(content') \cup {NoElement, tail},
         PoolInv(node_pool', NodesOf(content')), (node_pool').size = <<node_num>>,
         PoolInv(data_pool', DataOf(content', node_data')),
         (data_pool').size = <<node_num>>,
         Linked(content', next', prior'), OwnData(content', node_data'),
         Stored(content', node_data', memory')
  PROVE  ListInv'
<1>1. PoolInv(node_pool, NodesOf(content))'
  BY DEF PoolInv, NodesOf, Partition, Nodes, HomeElements, Free, Elements
<1>2. PoolInv(data_pool, DataOf(content, node_data))'
  BY DEF PoolInv, DataOf, Partition, Nodes, HomeElements, Free, Elements
<1>3. Linked(content, next, prior)'
  BY DEF Linked, NodeIn
<1>4. OwnData(content, node_data)' /\ Stored(content, node_data, memory)'
  BY DEF OwnData, Stored
<1>5. (at \in NodesOf(content) \cup {NoElement, tail})'
  BY DEF NodesOf
<1> QED
  BY <1>1, <1>2, <1>3, <1>4, <1>5 DEF ListInv

LEMMA PushBack_Inv ==
  ASSUME ListInv, NEW v \in Values, PushBack(v)
  PROVE  ListInv'
<1> DEFINE n == Claimed(node_pool)
           e == Claimed(data_pool)
<1>1. /\ next \in [ListNodes \cup {head} -> ListNodes \cup {tail, NoElement}]
      /\ prior \in [ListNodes \cup {tail} -> ListNodes \cup {head, NoElement}]
      /\ node_data \in [ListNodes -> ListNodes \cup {NoElement}]
      /\ memory \in [ListNodes -> Values \cup {NoElement}]
      /\ content \in Seq(ListNodes \X Values)
      /\ at \in NodesOf(content) \cup {NoElement, tail}
  BY DEF ListInv
<1>2. /\ PoolInv(node_pool, NodesOf(content)) /\ node_pool.size = <<node_num>>
      /\ PoolInv(data_pool, DataOf(content, node_data)) /\ data_pool.size = <<node_num>>
  BY DEF ListInv
<1>3. /\ Linked(content, next, prior) /\ OwnData(content, node_data)
      /\ Stored(content, node_data, memory)
  BY DEF ListInv
<1>4. /\ PoolInv(Claim(node_pool), NodesOf(content) \cup ({n} \ {NoElement}))
      /\ Claim(node_pool).size = <<node_num>>
      /\ n # NoElement => n \in ListNodes \ NodesOf(content)
  BY <1>2, ListClaims
<1>5. /\ PoolInv(Claim(data_pool), DataOf(content, node_data) \cup ({e} \ {NoElement}))
      /\ Claim(data_pool).size = <<node_num>>
      /\ e # NoElement => e \in ListNodes \ DataOf(content, node_data)
      /\ DataOf(content, node_data) \subseteq ListNodes
  BY <1>2, ListClaims
<1> HIDE DEF n, e
<1>6. CASE n = NoElement \/ e = NoElement
  <2>1. /\ node_pool' = IF n = NoElement THEN node_pool ELSE Reclaim(Claim(node_pool), n)
        /\ UNCHANGED <<data_pool, next, prior, node_data, memory, at, content>>
    BY <1>6 DEF PushBack, n, e
  <2>2. PoolInv(node_pool', NodesOf(content)) /\ (node_pool').size = <<node_num>>
    <3>1. CASE n = NoElement
      BY <1>2, <2>1, <3>1
    <3>2. CASE n # NoElement
      <4>1. PoolInv(Claim(node_pool), NodesOf(content) \cup {n})
        <5>1. NodesOf(content) \cup ({n} \ {NoElement}) = NodesOf(content) \cup {n}
          BY <3>2
        <5> QED
          BY <1>4, <5>1
      <4>2. (NodesOf(content) \cup {n}) \ {n} = NodesOf(content)
        BY <1>4, <3>2
      <4>3. n \in NodesOf(content) \cup {n}
        OBVIOUS
      <4>4. /\ PoolInv(Reclaim(Claim(node_pool), n), (NodesOf(content) \cup {n}) \ {n})
            /\ Reclaim(Claim(node_pool), n).size = Claim(node_pool).size
        BY <4>1, <4>3, ReclaimKeeps
      <4> QED
        BY <1>4, <2>1, <3>2, <4>2, <4>4
    <3> QED
      BY <3>1, <3>2
  <2>3. PoolInv(data_pool, DataOf(content, node_data))'
    BY <1>2, <2>1
  <2>4. PoolInv(node_pool, NodesOf(content))'
    BY <2>1, <2>2
  <2>5. (Linked(content, next, prior) /\ OwnData(content, node_data)
         /\ Stored(content, node_data, memory))'
    BY <1>3, <2>1
  <2> QED
    BY <1>1, <1>2, <2>1, <2>2, <2>3, <2>4, <2>5 DEF ListInv, NodesOf
<1>7. CASE n # NoElement /\ e # NoElement
  <2>1. /\ node_pool' = Claim(node_pool)
        /\ data_pool' = Claim(data_pool)
        /\ node_data' = [node_data EXCEPT ![n] = e]
        /\ memory' = [memory EXCEPT ![e] = v]
        /\ next' = [next EXCEPT ![prior[tail]] = n, ![n] = tail]
        /\ prior' = [prior EXCEPT ![n] = prior[tail], ![tail] = n]
        /\ content' = Append(content, <<n, v>>)
        /\ at' = at
    BY <1>7 DEF PushBack, n, e
  <2>2. n \in ListNodes /\ n \notin NodesOf(content) /\ e \in ListNodes
        /\ e \notin DataOf(content, node_data)
    BY <1>4, <1>5, <1>7
  <2>3. /\ Linked(content', next', prior')
        /\ next' \in [ListNodes \cup {head} -> ListNodes \cup {tail, NoElement}]
        /\ prior' \in [ListNodes \cup {tail} -> ListNodes \cup {head, NoElement}]
    <3>1. \A i, j \in 1 .. Len(content) : content[i][1] = content[j][1] => i = j
      BY <1>3, OwnNodes
    <3> QED
      BY <1>1, <1>3, <2>1, <2>2, <3>1, PushLinks
  <2>4. /\ NodesOf(content') = NodesOf(content) \cup {n}
        /\ DataOf(content', node_data') = DataOf(content, node_data) \cup {e}
        /\ OwnData(content', node_data') /\ Stored(content', node_data', memory')
    <3> DEFINE nd2  == [node_data EXCEPT ![n] = e]
               mem2 == [memory EXCEPT ![e] = v]
               d    == Append(content, <<n, v>>)
    <3>1. /\ NodesOf(d) = NodesOf(content) \cup {n}
          /\ DataOf(d, nd2) = DataOf(content, node_data) \cup {e}
          /\ OwnData(d, nd2) /\ Stored(d, nd2, mem2)
      BY <1>1, <1>3, <1>5, <2>2, PushData
    <3>2. content' = d /\ node_data' = nd2 /\ memory' = mem2
      BY <2>1
    <3> HIDE DEF d, nd2, mem2
    <3> QED
      BY <3>1, <3>2
  <2>5. {n} \ {NoElement} = {n} /\ {e} \ {NoElement} = {e}
    BY <1>7
  <2>6. PoolInv(node_pool', NodesOf(content')) /\ (node_pool').size = <<node_num>>
    BY <1>4, <2>1, <2>4, <2>5
  <2>7. PoolInv(data_pool', DataOf(content', node_data')) /\ (data_pool').size = <<node_num>>
    BY <1>5, <2>1, <2>4, <2>5
  <2>8. /\ node_data' \in [ListNodes -> ListNodes \cup {NoElement}]
        /\ memory' \in [ListNodes -> Values \cup {NoElement}]
    BY <1>1, <2>1, <2>2
  <2>9. content' \in Seq(ListNodes \X Values)
    BY <1>1, <2>1, <2>2
  <2>10. at' \in NodesOf(content') \cup {NoElement, tail}
    BY <1>1, <2>1, <2>4
  <2> QED
    BY <2>3, <2>4, <2>6, <2>7, <2>8, <2>9, <2>10, ListInvNext
<1> QED
  BY <1>6, <1>7

LEMMA Walk_Inv ==
  ASSUME ListInv, Begin \/ Advance
  PROVE  ListInv'
<1>1. /\ content \in Seq(ListNodes \X Values) /\ Linked(content, next, prior)
      /\ at \in NodesOf(content) \cup {NoElement, tail}
  BY DEF ListInv
<1>2. UNCHANGED <<node_pool, data_pool, next, prior, node_data, memory, content>>
  BY DEF Begin, Advance
<1>3. /\ Len(content) \in Nat
      /\ \A i \in 1 .. Len(content) : NodeIn(content, i) = content[i][1]
      /\ NodeIn(content, 0) = head /\ NodeIn(content, Len(content) + 1) = tail
  BY <1>1, NodeInTypes
<1>4. ASSUME NEW i \in 1 .. Len(content) + 1
      PROVE  NodeIn(content, i) \in NodesOf(content) \cup {NoElement, tail}
  <2>1. i \in 1 .. Len(content) \/ i = Len(content) + 1
    BY <1>3
  <2> QED
    BY <1>3, <2>1 DEF NodesOf
<1>5. \A i \in 0 .. Len(content) : next[NodeIn(content, i)] = NodeIn(content, i + 1)
  BY <1>1 DEF Linked
<1>6. at' \in NodesOf(content') \cup {NoElement, tail}
  <2>1. PICK i \in 0 .. Len(content) : at' = next[NodeIn(content, i)]
    <3>1. CASE Begin
      <4>1. 0 \in 0 .. Len(content)
        BY <1>3
      <4> QED
        BY <1>3, <3>1, <4>1 DEF Begin
    <3>2. CASE Advance
      <4>1. at \in NodesOf(content) /\ at' = next[at]
        BY <1>1, <3>2 DEF Advance
      <4>2. PICK i \in 1 .. Len(content) : at = content[i][1]
        BY <4>1 DEF NodesOf
      <4>3. i \in 0 .. Len(content)
        BY <1>3
      <4> QED
        BY <1>3, <4>1, <4>2, <4>3
    <3> QED
      BY <3>1, <3>2
  <2>2. i + 1 \in 1 .. Len(content) + 1
    BY <1>3
  <2> QED
    BY <1>2, <1>4, <1>5, <2>1, <2>2
<1> QED
  BY <1>2, <1>6, ListInvNext DEF ListInv

LEMMA EraseNode_Inv ==
  ASSUME ListInv, EraseNode
  PROVE  ListInv'
<1>1. /\ next \in [ListNodes \cup {head} -> ListNodes \cup {tail, NoElement}]
      /\ prior \in [ListNodes \cup {tail} -> ListNodes \cup {head, NoElement}]
      /\ content \in Seq(ListNodes \X Values)
      /\ at \in NodesOf(content) \cup {NoElement, tail}
      /\ Linked(content, next, prior) /\ OwnData(content, node_data)
      /\ Stored(content, node_data, memory)
  BY DEF ListInv
<1>2. /\ PoolInv(node_pool, NodesOf(content)) /\ node_pool.size = <<node_num>>
      /\ PoolInv(data_pool, DataOf(content, node_data)) /\ data_pool.size = <<node_num>>
  BY DEF ListInv
<1>3. /\ next' = [next EXCEPT ![prior[at]] = next[at]]
      /\ prior' = [prior EXCEPT ![next[at]] = prior[at]]
      /\ node_pool' = Reclaim(node_pool, at)
      /\ data_pool' = Reclaim(data_pool, node_data[at])
      /\ at' = next[at] /\ content' = Unlinked(content, at)
      /\ UNCHANGED <<node_data, memory>>
  BY DEF EraseNode, Relinked
<1>4. at \in NodesOf(content)
  BY <1>1 DEF EraseNode
<1>5. PICK k \in 1 .. Len(content) : at = content[k][1]
  BY <1>4 DEF NodesOf
<1>6. \A i, j \in 1 .. Len(content) : content[i][1] = content[j][1] => i = j
  BY <1>1, OwnNodes
<1>7. /\ Linked(content', next', prior')
      /\ next' \in [ListNodes \cup {head} -> ListNodes \cup {tail, NoElement}]
      /\ prior' \in [ListNodes \cup {tail} -> ListNodes \cup {head, NoElement}]
  BY <1>1, <1>3, <1>5, <1>6, EraseLinks
<1>8. /\ NodesOf(content') = NodesOf(content) \ {at}
      /\ DataOf(content', node_data) = DataOf(content, node_data) \ {node_data[at]}
      /\ OwnData(content', node_data) /\ Stored(content', node_data, memory)
  <2> DEFINE d == Unlinked(content, at)
  <2>1. /\ NodesOf(d) = NodesOf(content) \ {at}
        /\ DataOf(d, node_data) = DataOf(content, node_data) \ {node_data[at]}
        /\ OwnData(d, node_data) /\ Stored(d, node_data, memory)
    <3>1. /\ content \in Seq(ListNodes \X Values)
          /\ OwnData(content, node_data) /\ Stored(content, node_data, memory)
      BY <1>1, Zenon
    <3> QED
      BY <1>5, <3>1, EraseData, SMTT(30)
  <2>2. content' = d
    BY <1>3, Zenon
  <2> HIDE DEF d
  <2>3. NodesOf(content') = NodesOf(d)
    BY <2>2, Zenon
  <2>4. DataOf(content', node_data) = DataOf(d, node_data)
    BY <2>2, Zenon
  <2>5. OwnData(content', node_data) /\ Stored(content', node_data, memory)
    BY <2>1, <2>2, Zenon
  <2> QED
    BY <2>1, <2>3, <2>4, <2>5, Zenon
<1>9. node_data[at] \in DataOf(content, node_data)
  BY <1>5 DEF DataOf
<1>10. PoolInv(node_pool', NodesOf(content')) /\ (node_pool').size = <<node_num>>
  BY <1>2, <1>3, <1>4, <1>8, ReclaimKeeps
<1>11. PoolInv(data_pool', DataOf(content', node_data')) /\ (data_pool').size = <<node_num>>
  BY <1>2, <1>3, <1>8, <1>9, ReclaimKeeps
<1>12. content' \in Seq(ListNodes \X Values)
  <2> DEFINE S == ListNodes \X Values
  <2>1. content \in Seq(S) /\ PlaceOf(content, at) = k
    BY <1>1, <1>5, <1>6, PlaceFound
  <2> HIDE DEF S
  <2>2. content' \in Seq(S)
    BY <1>3, <2>1, UnlinkedIs
  <2> QED
    BY <2>2 DEF S
<1>13. at' \in NodesOf(content') \cup {NoElement, tail}
  <2>1. /\ Len(content) \in Nat
        /\ \A i \in 1 .. Len(content) : NodeIn(content, i) = content[i][1]
        /\ NodeIn(content, Len(content) + 1) = tail
    BY <1>1, NodeInTypes
  <2>2. k \in 0 .. Len(content)
    BY <2>1
  <2>3. next[at] = NodeIn(content, k + 1)
    BY <1>1, <1>5, <2>1, <2>2 DEF Linked
  <2>4. CASE k = Len(content)
    BY <1>3, <2>1, <2>3, <2>4
  <2>5. CASE k # Len(content)
    <3>1. k + 1 \in 1 .. Len(content) /\ k + 1 # k
      BY <2>1, <2>5
    <3>2. next[at] = content[k + 1][1] /\ content[k + 1][1] # at
      BY <1>5, <1>6, <2>1, <2>3, <3>1
    <3>3. content[k + 1][1] \in NodesOf(content)
      BY <3>1 DEF NodesOf
    <3> QED
      BY <1>3, <1>8, <3>2, <3>3
  <2> QED
    BY <2>4, <2>5
<1>14. /\ node_data' \in [ListNodes -> ListNodes \cup {NoElement}]
       /\ memory' \in [ListNodes -> Values \cup {NoElement}]
  BY <1>3 DEF ListInv
<1>15. OwnData(content', node_data') /\ Stored(content', node_data', memory')
  BY <1>3, <1>8
<1> QED
  BY <1>7, <1>10, <1>11, <1>12, <1>13, <1>14, <1>15, ListInvNext

\* The list's invariant, for every capacity.
THEOREM ListInvariance == ListSpec => []ListInv
<1>1. ListInv /\ [ListNext]_listvars => ListInv'
  <2> SUFFICES ASSUME ListInv, [ListNext]_listvars PROVE ListInv'
    OBVIOUS
  <2>1. CASE UNCHANGED listvars
    <3>1. UNCHANGED <<node_pool, data_pool, next, prior, node_data, memory, at, content>>
      BY <2>1 DEF listvars
    <3> QED
      BY <3>1, ListInvNext DEF ListInv
  <2> QED
    BY <2>1, PushBack_Inv, Walk_Inv, EraseNode_Inv DEF ListNext
<1> QED
  BY <1>1, ListInit_Inv, PTL DEF ListSpec

\* list.c in full: the links in both directions spell out what was pushed and
\* not erased, each value in a data element of its own, and every node and data
\* element outside the list is free in its pool.
THEOREM ListsExactly == ListSpec => []ListExact
<1>1. ListInv => ListExact
  <2> SUFFICES ASSUME ListInv PROVE ListExact
    OBVIOUS
  <2>1. /\ content \in Seq(ListNodes \X Values)
        /\ Linked(content, next, prior) /\ OwnData(content, node_data)
        /\ Stored(content, node_data, memory)
        /\ PoolInv(node_pool, NodesOf(content))
        /\ PoolInv(data_pool, DataOf(content, node_data))
    BY DEF ListInv
  <2>2. \A i \in InList : NodeAt(i) = content[i][1]
    BY <2>1, NodeInTypes DEF NodeAt, InList
  <2>3. \A i \in 0 .. Len(content) : /\ next[NodeAt(i)] = NodeAt(i + 1)
                                     /\ prior[NodeAt(i + 1)] = NodeAt(i)
    BY <2>1 DEF Linked, NodeAt
  <2>4. {NodeAt(i) : i \in InList} = NodesOf(content)
    BY <2>2 DEF NodesOf, InList
  <2>5. {node_data[NodeAt(i)] : i \in InList} = DataOf(content, node_data)
    BY <2>2 DEF DataOf, InList
  <2>6. /\ Partition(node_pool, {NodeAt(i) : i \in InList})
        /\ Partition(data_pool, {node_data[NodeAt(i)] : i \in InList})
    <3>1. Partition(node_pool, NodesOf(content)) /\ Partition(data_pool, DataOf(content, node_data))
      BY <2>1 DEF PoolInv
    <3> QED
      BY <2>4, <2>5, <3>1
  <2>7. \A i \in InList : memory[node_data[NodeAt(i)]] = content[i][2]
    BY <2>1, <2>2 DEF Stored, InList
  <2>8. \A i, j \in InList : node_data[NodeAt(i)] = node_data[NodeAt(j)] => i = j
    BY <2>1, <2>2 DEF OwnData, InList
  <2> QED
    BY <2>3, <2>6, <2>7, <2>8 DEF ListExact
<1> QED
  BY <1>1, ListInvariance, PTL
-----------------------------------------------------------------------------
(***************************************************************************)
(* The swap list of rwlist.c.                                              *)
(***************************************************************************)

LEMMA RwInit_Inv == RwInit => RwInv
<1> SUFFICES ASSUME RwInit PROVE RwInv
  OBVIOUS
<1>1. RwShape
  <2>1. [i \in 1 .. RwNum |-> Blank] \in Seq(Items \cup {Blank})
    BY RwAssumption
  <2>2. Len([i \in 1 .. RwNum |-> Blank]) = RwNum
    BY RwAssumption
  <2> DEFINE b == [i \in 1 .. RwNum |-> Blank]
  <2>3. cells = [s \in Stacks |-> b] /\ count = [s \in Stacks |-> 0]
    BY DEF RwInit
  <2>4. read \in Stacks /\ write \in Stacks /\ read # write
    BY DEF RwInit, Stacks
  <2> HIDE DEF b
  <2>5. b \in Seq(Items \cup {Blank}) /\ Len(b) = RwNum
    BY <2>1, <2>2 DEF b
  <2>6. /\ cells \in [Stacks -> Seq(Items \cup {Blank})] /\ count \in [Stacks -> Nat]
        /\ \A s \in Stacks : count[s] = 0 /\ Len(cells[s]) = RwNum
    BY <2>3, <2>5
  <2>7. \A s \in Stacks : count[s] <= Len(cells[s]) /\ Len(cells[s]) <= RwMax
    BY <2>6, RwAssumption
  <2>8. /\ rpc \in [Consumers -> {"idle", "swapped", "popping", "popped"}]
        /\ handle \in [Consumers -> Stacks] /\ lowered \in [Consumers -> Nat]
        /\ \A c \in Consumers : rpc[c] # "popped"
        /\ taken \in [Items -> Nat] /\ shared \in BOOLEAN
        /\ unpushed \subseteq Items /\ pushed \subseteq Items /\ unpushed \cap pushed = {}
    BY DEF RwInit, Stacks
  <2> QED
    BY <2>4, <2>6, <2>7, <2>8 DEF RwShape
<1>2. Alone
  BY DEF RwInit, Alone, IsPopping
<1>3. OnePlace
  <2>1. \A s \in Stacks : 1 .. count[s] = {}
    <3>1. 1 .. 0 = {}
      OBVIOUS
    <3>2. \A s \in Stacks : count[s] = 0
      BY DEF RwInit
    <3> QED
      BY <3>1, <3>2
  <2> QED
    BY <2>1 DEF RwInit, OnePlace
<1> QED
  BY <1>1, <1>2, <1>3 DEF RwInv

\* rwlist_push writes behind the top of the producers' stack and nowhere else.
LEMMA RwPush_Cells ==
  ASSUME RwShape, NEW x \in Items, RwPush(x)
  PROVE  /\ cells' \in [Stacks -> Seq(Items \cup {Blank})]
         /\ count' \in [Stacks -> Nat]
         /\ \A s \in Stacks : count'[s] <= Len(cells'[s]) /\ Len(cells'[s]) <= RwMax
         /\ \A s \in Stacks : Len(cells[s]) <= Len(cells'[s])
         /\ \A s \in Stacks : s # write => cells'[s] = cells[s] /\ count'[s] = count[s]
         /\ \A k \in 1 .. count[write] : cells'[write][k] = cells[write][k]
         /\ \/ /\ count' = [count EXCEPT ![write] = count[write] + 1]
               /\ cells'[write][count[write] + 1] = x
               /\ pushed' = pushed \cup {x}
            \/ /\ count' = count /\ pushed' = pushed
<1> DEFINE n == Size(write)
           i == count[write] + 1
           a == cells[write]
           b == [k \in 1 .. n |-> IF k = i THEN x ELSE IF k <= Len(a) THEN a[k] ELSE Blank]
<1>1. /\ write \in Stacks /\ a \in Seq(Items \cup {Blank}) /\ count[write] \in Nat
      /\ count[write] <= Len(a) /\ Len(a) <= RwMax /\ Len(a) \in Nat
  BY DEF RwShape
<1>2. /\ count \in [Stacks -> Nat] /\ cells \in [Stacks -> Seq(Items \cup {Blank})]
      /\ \A s \in Stacks : count[s] <= Len(cells[s]) /\ Len(cells[s]) <= RwMax
  BY DEF RwShape
<1>3. n \in Nat /\ Len(a) <= n /\ n <= RwMax
  BY <1>1, RwAssumption DEF Size, Doubling
<1>4. /\ cells' = [cells EXCEPT ![write] = b]
      /\ count' = [count EXCEPT ![write] = IF i <= n THEN i ELSE @]
      /\ pushed' = IF i <= n THEN pushed \cup {x} ELSE pushed
  BY DEF RwPush
<1> HIDE DEF a, n
<1>5. b \in Seq(Items \cup {Blank}) /\ Len(b) = n
  <2>1. \A k \in 1 .. n : k <= Len(a) => a[k] \in Items \cup {Blank}
    BY <1>1
  <2>2. \A k \in 1 .. n : b[k] \in Items \cup {Blank}
    BY <2>1
  <2>3. DOMAIN b = 1 .. n /\ b = [k \in 1 .. n |-> b[k]]
    OBVIOUS
  <2> HIDE DEF b
  <2>4. b \in [1 .. n -> Items \cup {Blank}]
    BY <2>2, <2>3
  <2> QED
    BY <1>3, <2>4
<1>6. \A k \in 1 .. count[write] : b[k] = a[k]
  BY <1>1, <1>3
<1>7. i <= n => b[i] = x
  BY <1>1, <1>3
<1> HIDE DEF b
<1>8. /\ cells' \in [Stacks -> Seq(Items \cup {Blank})] /\ cells'[write] = b
      /\ \A s \in Stacks : s # write => cells'[s] = cells[s]
  BY <1>1, <1>2, <1>4, <1>5
<1>9. \/ i <= n /\ count' = [count EXCEPT ![write] = i] /\ pushed' = pushed \cup {x}
      \/ count' = count /\ pushed' = pushed
  <2>1. CASE i <= n
    BY <1>4, <2>1
  <2>2. CASE ~(i <= n)
    <3>1. count' = [count EXCEPT ![write] = count[write]] /\ pushed' = pushed
      BY <1>4, <2>2
    <3> QED
      BY <1>1, <1>2, <3>1
  <2> QED
    BY <2>1, <2>2
<1>10. /\ count' \in [Stacks -> Nat]
       /\ \A s \in Stacks : s # write => count'[s] = count[s]
       /\ count'[write] <= n
  <2>1. count \in [Stacks -> Nat] /\ write \in Stacks /\ i \in Nat /\ count[write] <= n
    BY <1>1, <1>2, <1>3
  <2>2. CASE i <= n /\ count' = [count EXCEPT ![write] = i]
    <3> HIDE DEF i
    <3> QED
      BY <2>1, <2>2
  <2>3. CASE count' = count
    BY <2>1, <2>3
  <2> QED
    BY <1>9, <2>2, <2>3
<1>11. \A s \in Stacks : /\ count'[s] <= Len(cells'[s]) /\ Len(cells'[s]) <= RwMax
                         /\ Len(cells[s]) <= Len(cells'[s])
  <2> TAKE s \in Stacks
  <2>1. CASE s = write
    BY <1>3, <1>5, <1>8, <1>10, <2>1 DEF a
  <2>2. CASE s # write
    BY <1>2, <1>8, <1>10, <2>2
  <2> QED
    BY <2>1, <2>2
<1>12. \A k \in 1 .. count[write] : cells'[write][k] = cells[write][k]
  BY <1>6, <1>8 DEF a
<1>13. \/ /\ count' = [count EXCEPT ![write] = count[write] + 1]
          /\ cells'[write][count[write] + 1] = x
          /\ pushed' = pushed \cup {x}
       \/ /\ count' = count /\ pushed' = pushed
  BY <1>7, <1>8, <1>9
<1>14. \A s \in Stacks : s # write => cells'[s] = cells[s] /\ count'[s] = count[s]
  BY <1>8, <1>10
<1>15. /\ \A s \in Stacks : count'[s] <= Len(cells'[s]) /\ Len(cells'[s]) <= RwMax
       /\ \A s \in Stacks : Len(cells[s]) <= Len(cells'[s])
  BY <1>11
<1>16. cells' \in [Stacks -> Seq(Items \cup {Blank})] /\ count' \in [Stacks -> Nat]
  BY <1>8, <1>10
<1> QED
  BY <1>12, <1>13, <1>14, <1>15, <1>16, Zenon

LEMMA RwPush_Inv ==
  ASSUME RwInv, NEW x \in Items, RwPush(x)
  PROVE  RwInv'
<1> USE DEF RwInv
<1>1. RwShape
  OBVIOUS
<1>2. /\ cells' \in [Stacks -> Seq(Items \cup {Blank})]
      /\ count' \in [Stacks -> Nat]
      /\ \A s \in Stacks : count'[s] <= Len(cells'[s]) /\ Len(cells'[s]) <= RwMax
      /\ \A s \in Stacks : Len(cells[s]) <= Len(cells'[s])
      /\ \A s \in Stacks : s # write => cells'[s] = cells[s] /\ count'[s] = count[s]
      /\ \A k \in 1 .. count[write] : cells'[write][k] = cells[write][k]
      /\ \/ /\ count' = [count EXCEPT ![write] = count[write] + 1]
            /\ cells'[write][count[write] + 1] = x
            /\ pushed' = pushed \cup {x}
         \/ /\ count' = count /\ pushed' = pushed
  BY <1>1, RwPush_Cells
<1>3. /\ x \in unpushed /\ unpushed' = unpushed \ {x}
      /\ UNCHANGED <<read, write, rpc, handle, lowered, taken, shared>>
  BY DEF RwPush
<1>4. /\ read \in Stacks /\ write \in Stacks /\ read # write
      /\ rpc \in [Consumers -> {"idle", "swapped", "popping", "popped"}]
      /\ handle \in [Consumers -> Stacks] /\ lowered \in [Consumers -> Nat]
      /\ \A c \in Consumers : rpc[c] = "popped" => lowered[c] + 1 <= Len(cells[handle[c]])
      /\ unpushed \subseteq Items /\ pushed \subseteq Items /\ unpushed \cap pushed = {}
      /\ taken \in [Items -> Nat] /\ shared \in BOOLEAN
      /\ cells \in [Stacks -> Seq(Items \cup {Blank})] /\ count \in [Stacks -> Nat]
  BY <1>1 DEF RwShape
<1>5. RwShape'
  <2>1. \A c \in Consumers : rpc'[c] = "popped" => lowered'[c] + 1 <= Len(cells'[handle'[c]])
    <3> SUFFICES ASSUME NEW c \in Consumers, rpc[c] = "popped"
                 PROVE  lowered[c] + 1 <= Len(cells'[handle[c]])
      BY <1>3
    <3>1. /\ handle[c] \in Stacks /\ lowered[c] \in Nat
          /\ lowered[c] + 1 <= Len(cells[handle[c]])
      BY <1>4
    <3>2. /\ Len(cells[handle[c]]) <= Len(cells'[handle[c]])
          /\ Len(cells[handle[c]]) \in Nat /\ Len(cells'[handle[c]]) \in Nat
      BY <1>2, <1>4, <3>1, SMTT(60)
    <3> QED
      BY <3>1, <3>2
  <2>2. /\ unpushed' \subseteq Items /\ pushed' \subseteq Items
        /\ unpushed' \cap pushed' = {}
    BY <1>2, <1>3, <1>4
  <2> QED
    BY <1>2, <1>3, <1>4, <2>1, <2>2 DEF RwShape
<1>6. ASSUME ~shared' PROVE Alone' /\ OnePlace'
  <2>1. Alone /\ OnePlace
    BY <1>3, <1>6
  <2>2. Alone'
    <3>1. /\ \A c \in Consumers : IsPopping(c) => handle[c] = read
          /\ \A c, d \in Consumers : IsPopping(c) /\ IsPopping(d) => c = d
          /\ \A c \in Consumers : rpc[c] = "popped" => lowered[c] + 1 = count[handle[c]]
      BY <2>1 DEF Alone
    <3>2. count'[read] = count[read]
      BY <1>2, <1>4
    <3>3. \A c \in Consumers : rpc[c] = "popped" => lowered[c] + 1 = count'[handle[c]]
      BY <3>1, <3>2 DEF IsPopping
    <3> QED
      BY <1>3, <3>1, <3>3 DEF Alone, IsPopping
  <2>3. /\ \A s \in Stacks : \A i \in 1 .. count[s] :
             /\ cells[s][i] \in pushed
             /\ \A t \in Stacks : \A j \in 1 .. count[t] :
                  cells[s][i] = cells[t][j] => s = t /\ i = j
        /\ \A y \in Items : taken[y] = IF y \in pushed /\ ~Waits(y) THEN 1 ELSE 0
    BY <2>1 DEF OnePlace
  <2>4. x \notin pushed
    BY <1>3, <1>4
  <2>5. \A s \in Stacks : \A i \in 1 .. count[s] : cells'[s][i] = cells[s][i] /\ cells[s][i] # x
    BY <1>2, <2>3, <2>4
  <2>6. CASE count' = count /\ pushed' = pushed
    <3>1. \A y \in Items : Waits(y)' <=> Waits(y)
      BY <2>5, <2>6 DEF Waits
    <3>2. \A y \in Items : taken'[y] = IF y \in pushed' /\ ~Waits(y)' THEN 1 ELSE 0
      BY <1>3, <2>3, <2>6, <3>1
    <3>3. \A s \in Stacks : \A i \in 1 .. count'[s] :
             /\ cells'[s][i] \in pushed'
             /\ \A t \in Stacks : \A j \in 1 .. count'[t] :
                  cells'[s][i] = cells'[t][j] => s = t /\ i = j
      BY <2>3, <2>5, <2>6
    <3> QED
      BY <2>2, <3>2, <3>3 DEF OnePlace, Waits
  <2>7. CASE /\ count' = [count EXCEPT ![write] = count[write] + 1]
             /\ cells'[write][count[write] + 1] = x
             /\ pushed' = pushed \cup {x}
    <3> DEFINE top == count[write] + 1
    <3>1. /\ count[write] \in Nat /\ count'[write] = top
          /\ \A s \in Stacks : s # write => count'[s] = count[s]
      BY <1>4, <2>7
    <3>2. \A s \in Stacks : \A i \in 1 .. count'[s] :
            i \in 1 .. count[s] \/ (s = write /\ i = top)
      BY <3>1
    <3>3. \A s \in Stacks : \A i \in 1 .. count[s] : i \in 1 .. count'[s]
      <4> SUFFICES ASSUME NEW s \in Stacks, NEW i \in 1 .. count[s]
                   PROVE  i \in 1 .. count'[s]
        OBVIOUS
      <4>1. count[s] \in Nat
        BY <1>4
      <4>2. CASE s = write
        BY <3>1, <4>1, <4>2
      <4>3. CASE s # write
        BY <3>1, <4>3
      <4> QED
        BY <4>2, <4>3
    <3>4. write \in Stacks /\ top \in 1 .. count'[write] /\ cells'[write][top] = x
      BY <1>4, <2>7, <3>1
    <3> HIDE DEF top
    <3>5. \A y \in Items : Waits(y)' <=> Waits(y) \/ y = x
      <4>1. ASSUME NEW y \in Items, Waits(y)' PROVE Waits(y) \/ y = x
        <5>1. PICK s \in Stacks : \E i \in 1 .. count'[s] : cells'[s][i] = y
          BY <4>1 DEF Waits
        <5>2. PICK i \in 1 .. count'[s] : cells'[s][i] = y
          BY <5>1
        <5> QED
          BY <2>5, <3>2, <3>4, <5>2 DEF Waits
      <4>2. ASSUME NEW y \in Items, Waits(y) PROVE Waits(y)'
        BY <2>5, <3>3, <4>2 DEF Waits
      <4>3. Waits(x)'
        BY <3>4 DEF Waits
      <4> QED
        BY <4>1, <4>2, <4>3
    <3>6. ~Waits(x)
      BY <2>5 DEF Waits
    <3>7. \A y \in Items : taken'[y] = IF y \in pushed' /\ ~Waits(y)' THEN 1 ELSE 0
      <4> TAKE y \in Items
      <4>1. CASE y = x
        <5>1. taken[x] = 0
          BY <2>3, <2>4
        <5> QED
          BY <1>3, <3>5, <4>1, <5>1
      <4>2. CASE y # x
        BY <1>3, <2>3, <2>7, <3>5, <4>2
      <4> QED
        BY <4>1, <4>2
    <3>8. ASSUME NEW s \in Stacks, NEW i \in 1 .. count'[s]
          PROVE  cells'[s][i] \in pushed'
      BY <2>3, <2>5, <2>7, <3>2, <3>4
    <3>9. ASSUME NEW s \in Stacks, NEW i \in 1 .. count'[s],
                 NEW t \in Stacks, NEW j \in 1 .. count'[t],
                 cells'[s][i] = cells'[t][j]
          PROVE  s = t /\ i = j
      <4>1. CASE i \in 1 .. count[s] /\ j \in 1 .. count[t]
        BY <2>3, <2>5, <3>9, <4>1
      <4>2. CASE i \in 1 .. count[s] /\ t = write /\ j = top
        BY <2>5, <3>4, <3>9, <4>2
      <4>3. CASE s = write /\ i = top /\ j \in 1 .. count[t]
        BY <2>5, <3>4, <3>9, <4>3
      <4> QED
        BY <3>2, <4>1, <4>2, <4>3
    <3> QED
      BY <2>2, <3>7, <3>8, <3>9 DEF OnePlace, Waits
  <2> QED
    BY <1>2, <2>6, <2>7
<1> QED
  BY <1>5, <1>6

\* The shape of the swap list, conjunct by conjunct.
LEMMA RwTypes ==
  ASSUME RwShape
  PROVE  /\ read \in Stacks /\ write \in Stacks /\ read # write
         /\ cells \in [Stacks -> Seq(Items \cup {Blank})] /\ count \in [Stacks -> Nat]
         /\ \A s \in Stacks : count[s] <= Len(cells[s]) /\ Len(cells[s]) <= RwMax
         /\ rpc \in [Consumers -> {"idle", "swapped", "popping", "popped"}]
         /\ handle \in [Consumers -> Stacks] /\ lowered \in [Consumers -> Nat]
         /\ \A c \in Consumers : rpc[c] = "popped" => lowered[c] + 1 <= Len(cells[handle[c]])
         /\ unpushed \subseteq Items /\ pushed \subseteq Items /\ unpushed \cap pushed = {}
         /\ taken \in [Items -> Nat] /\ shared \in BOOLEAN
  BY DEF RwShape

\* A step that leaves the stacks and the books alone keeps every item's place.
LEMMA PlacesUnchanged ==
  ASSUME OnePlace, UNCHANGED <<cells, count, pushed, taken>>
  PROVE  OnePlace'
  BY DEF OnePlace, Waits

\* The two locked or unlocked halves of rwlist_get_readlist: whoever pops after
\* it has the stack read stands for, and has it alone, or the stacks are shared.
LEMMA Roles_Inv ==
  ASSUME RwInv, NEW c \in Consumers, Swap(c) \/ GetHandle(c)
  PROVE  RwInv'
<1> USE DEF RwInv
<1>1. /\ read \in Stacks /\ write \in Stacks /\ read # write
      /\ cells \in [Stacks -> Seq(Items \cup {Blank})] /\ count \in [Stacks -> Nat]
      /\ \A s \in Stacks : count[s] <= Len(cells[s]) /\ Len(cells[s]) <= RwMax
      /\ rpc \in [Consumers -> {"idle", "swapped", "popping", "popped"}]
      /\ handle \in [Consumers -> Stacks] /\ lowered \in [Consumers -> Nat]
      /\ \A d \in Consumers : rpc[d] = "popped" => lowered[d] + 1 <= Len(cells[handle[d]])
      /\ unpushed \subseteq Items /\ pushed \subseteq Items /\ unpushed \cap pushed = {}
      /\ taken \in [Items -> Nat] /\ shared \in BOOLEAN
  BY RwTypes
<1>2. /\ read' \in Stacks /\ write' \in Stacks /\ read' # write'
      /\ \A s \in Stacks : s = read' \/ s = write'
  BY <1>1 DEF Swap, GetHandle, Stacks
<1>3. /\ rpc' \in [Consumers -> {"idle", "swapped", "popping", "popped"}]
      /\ handle' \in [Consumers -> Stacks]
      /\ \A d \in Consumers : rpc'[d] = "popped" => rpc[d] = "popped" /\ handle'[d] = handle[d]
      /\ UNCHANGED <<cells, count, lowered, unpushed, pushed, dropped, taken>>
  <2>1. CASE Swap(c)
    BY <1>1, <2>1 DEF Swap
  <2>2. CASE GetHandle(c)
    BY <1>1, <2>2 DEF GetHandle
  <2> QED
    BY <2>1, <2>2
<1>4. NowShared
  BY DEF Swap, GetHandle
<1>5. shared' \in BOOLEAN /\ (~shared' => ~shared)
  BY <1>1, <1>4 DEF NowShared
<1>6. RwShape'
  BY <1>1, <1>2, <1>3, <1>5 DEF RwShape
<1>7. ASSUME ~shared' PROVE Alone' /\ OnePlace'
  <2>1. Alone /\ OnePlace
    BY <1>5, <1>7
  <2>2. OnePlace'
    BY <1>3, <2>1, PlacesUnchanged
  <2>3. /\ \A d \in Consumers : ~Holds(d, write')
        /\ \A d, e \in Consumers : \A s \in Stacks : Holds(d, s) /\ Holds(e, s) => d = e
    BY <1>4, <1>7 DEF NowShared
  <2>4. \A d \in Consumers : rpc'[d] \in {"popping", "popped"} => Holds(d, read')
    <3> SUFFICES ASSUME NEW d \in Consumers, rpc'[d] \in {"popping", "popped"}
                 PROVE  Holds(d, read')
      OBVIOUS
    <3>1. handle'[d] \in Stacks
      BY <1>3
    <3>2. handle'[d] # write'
      BY <2>3 DEF Holds
    <3> QED
      BY <1>2, <3>1, <3>2 DEF Holds
  <2>5. \A d \in Consumers : rpc'[d] = "popped" => lowered'[d] + 1 = count'[handle'[d]]
    BY <1>3, <2>1 DEF Alone
  <2>6. \A d, e \in Consumers :
          rpc'[d] \in {"popping", "popped"} /\ rpc'[e] \in {"popping", "popped"} => d = e
    BY <1>2, <2>3, <2>4
  <2>7. Alone'
    BY <2>4, <2>5, <2>6 DEF Alone, IsPopping, Holds
  <2> QED
    BY <2>2, <2>7
<1> QED
  BY <1>6, <1>7

\* stack_pop reads the top and lowers it; a consumer that leaves does neither.
LEMMA PopTop_Inv ==
  ASSUME RwInv, NEW c \in Consumers, PopTop(c) \/ Leave(c)
  PROVE  RwInv'
<1> USE DEF RwInv
<1>1. /\ cells \in [Stacks -> Seq(Items \cup {Blank})] /\ count \in [Stacks -> Nat]
      /\ \A s \in Stacks : count[s] <= Len(cells[s]) /\ Len(cells[s]) <= RwMax
      /\ rpc \in [Consumers -> {"idle", "swapped", "popping", "popped"}]
      /\ handle \in [Consumers -> Stacks] /\ lowered \in [Consumers -> Nat]
      /\ \A d \in Consumers : rpc[d] = "popped" => lowered[d] + 1 <= Len(cells[handle[d]])
  BY RwTypes
<1>2. UNCHANGED <<read, write, cells, count, handle, unpushed, pushed, dropped, taken, shared>>
  BY DEF PopTop, Leave
<1>3. /\ rpc' \in [Consumers -> {"idle", "swapped", "popping", "popped"}]
      /\ lowered' \in [Consumers -> Nat]
      /\ \A d \in Consumers : rpc'[d] \in {"popping", "popped"} => rpc[d] \in {"popping", "popped"}
      /\ \A d \in Consumers :
           rpc'[d] = "popped" =>
             \/ rpc[d] = "popped" /\ lowered'[d] = lowered[d]
             \/ lowered'[d] + 1 = count[handle[d]]
  <2>1. CASE PopTop(c)
    <3>1. /\ rpc[c] = "popping" /\ rpc' = [rpc EXCEPT ![c] = "popped"]
          /\ count[handle[c]] > 0 /\ lowered' = [lowered EXCEPT ![c] = count[handle[c]] - 1]
      BY <2>1 DEF PopTop
    <3>2. count[handle[c]] \in Nat
      BY <1>1
    <3>3. /\ lowered'[c] + 1 = count[handle[c]] /\ lowered' \in [Consumers -> Nat]
          /\ \A d \in Consumers : d # c => lowered'[d] = lowered[d] /\ rpc'[d] = rpc[d]
      BY <1>1, <3>1, <3>2
    <3> QED
      BY <1>1, <3>1, <3>3
  <2>2. CASE Leave(c)
    BY <1>1, <2>2 DEF Leave
  <2> QED
    BY <2>1, <2>2
<1>4. RwShape'
  <2>1. \A d \in Consumers : rpc'[d] = "popped" => lowered'[d] + 1 <= Len(cells[handle[d]])
    <3> SUFFICES ASSUME NEW d \in Consumers, rpc'[d] = "popped"
                 PROVE  lowered'[d] + 1 <= Len(cells[handle[d]])
      OBVIOUS
    <3>1. handle[d] \in Stacks
      BY <1>1
    <3> QED
      BY <1>1, <1>3, <3>1
  <2> QED
    BY <1>2, <1>3, <2>1 DEF RwShape
<1>5. ASSUME ~shared' PROVE Alone' /\ OnePlace'
  <2>1. Alone /\ OnePlace
    BY <1>2, <1>5
  <2>2. OnePlace'
    BY <1>2, <2>1, PlacesUnchanged
  <2>3. Alone'
    BY <1>2, <1>3, <2>1 DEF Alone, IsPopping
  <2> QED
    BY <2>2, <2>3
<1> QED
  BY <1>4, <1>5

\* stack_pop hands out the cell at the lowered top: the item was in that place only.
LEMMA PopCell_Inv ==
  ASSUME RwInv, NEW c \in Consumers, PopCell(c)
  PROVE  RwInv'
<1> USE DEF RwInv
<1> DEFINE h == handle[c]
           top == lowered[c] + 1
           x == cells[h][top]
<1>1. /\ cells \in [Stacks -> Seq(Items \cup {Blank})] /\ count \in [Stacks -> Nat]
      /\ \A s \in Stacks : count[s] <= Len(cells[s]) /\ Len(cells[s]) <= RwMax
      /\ rpc \in [Consumers -> {"idle", "swapped", "popping", "popped"}]
      /\ handle \in [Consumers -> Stacks] /\ lowered \in [Consumers -> Nat]
      /\ \A d \in Consumers : rpc[d] = "popped" => lowered[d] + 1 <= Len(cells[handle[d]])
      /\ pushed \subseteq Items /\ taken \in [Items -> Nat]
  BY RwTypes
<1>2. /\ rpc[c] = "popped" /\ rpc' = [rpc EXCEPT ![c] = "popping"]
      /\ count' = [count EXCEPT ![h] = lowered[c]]
      /\ taken' = [taken EXCEPT ![x] = @ + 1]
      /\ lowered' = [lowered EXCEPT ![c] = 0]
      /\ UNCHANGED <<read, write, cells, handle, unpushed, pushed, dropped, shared>>
  BY DEF PopCell, TopLeft
<1>3. h \in Stacks /\ lowered[c] \in Nat /\ top <= Len(cells[h]) /\ top \in Nat
  BY <1>1, <1>2
<1>4. RwShape'
  <2>1. count' \in [Stacks -> Nat] /\ \A s \in Stacks : count'[s] <= Len(cells[s])
    <3>1. /\ count' \in [Stacks -> Nat] /\ count'[h] = lowered[c]
          /\ \A s \in Stacks : s # h => count'[s] = count[s]
      BY <1>1, <1>2, <1>3
    <3>2. lowered[c] <= Len(cells[h])
      <4>1. Len(cells[h]) \in Nat
        BY <1>1, <1>3
      <4> QED
        BY <1>3, <4>1
    <3> QED
      BY <1>1, <3>1, <3>2
  <2>2. taken' \in [Items -> Nat]
    <3>1. taken \in [Items -> Nat] /\ taken' = [taken EXCEPT ![x] = taken[x] + 1]
      BY <1>1, <1>2
    <3> HIDE DEF x
    <3>2. CASE x \in Items
      BY <3>1, <3>2
    <3>3. CASE x \notin Items
      BY <3>1, <3>3
    <3> QED
      BY <3>2, <3>3
  <2>3. /\ rpc' \in [Consumers -> {"idle", "swapped", "popping", "popped"}]
        /\ lowered' \in [Consumers -> Nat]
        /\ \A d \in Consumers : rpc'[d] = "popped" => rpc[d] = "popped" /\ lowered'[d] = lowered[d]
    BY <1>1, <1>2
  <2>4. \A d \in Consumers : rpc'[d] = "popped" => lowered'[d] + 1 <= Len(cells[handle[d]])
    BY <1>1, <2>3
  <2> QED
    BY <1>2, <2>1, <2>2, <2>3, <2>4, RwTypes DEF RwShape
<1>5. ASSUME ~shared' PROVE Alone' /\ OnePlace'
  <2>1. Alone /\ OnePlace
    BY <1>2, <1>5
  <2>2. top = count[h]
    BY <1>2, <2>1 DEF Alone
  <2>3. /\ \A s \in Stacks : \A i \in 1 .. count[s] :
             /\ cells[s][i] \in pushed
             /\ \A t \in Stacks : \A j \in 1 .. count[t] :
                  cells[s][i] = cells[t][j] => s = t /\ i = j
        /\ \A y \in Items : taken[y] = IF y \in pushed /\ ~Waits(y) THEN 1 ELSE 0
    BY <2>1 DEF OnePlace
  <2>4. top \in 1 .. count[h]
    BY <1>3, <2>2
  <2>5. x \in pushed /\ x \in Items /\ Waits(x)
    BY <1>1, <1>3, <2>3, <2>4 DEF Waits
  <2>6. /\ \A s \in Stacks : \A i \in 1 .. count[s] :
             i \in 1 .. count'[s] \/ (s = h /\ i = top)
        /\ \A s \in Stacks : \A i \in 1 .. count'[s] :
             i \in 1 .. count[s] /\ ~(s = h /\ i = top)
    <3> SUFFICES ASSUME NEW s \in Stacks
                 PROVE  /\ \A i \in 1 .. count[s] : i \in 1 .. count'[s] \/ (s = h /\ i = top)
                        /\ \A i \in 1 .. count'[s] : i \in 1 .. count[s] /\ ~(s = h /\ i = top)
      OBVIOUS
    <3>1. CASE s = h
      <4>1. count'[s] = lowered[c] /\ count[s] = lowered[c] + 1
        BY <1>1, <1>2, <1>3, <2>2, <3>1
      <4> QED
        BY <1>3, <3>1, <4>1
    <3>2. CASE s # h
      BY <1>1, <1>2, <3>2
    <3> QED
      BY <3>1, <3>2
  <2> HIDE DEF x, top, h
  <2>7. \A y \in Items : Waits(y)' <=> Waits(y) /\ y # x
    <3>1. ASSUME NEW y \in Items, Waits(y)' PROVE Waits(y) /\ y # x
      <4>1. PICK s \in Stacks : \E i \in 1 .. count'[s] : cells[s][i] = y
        BY <1>2, <3>1 DEF Waits
      <4>2. PICK i \in 1 .. count'[s] : cells[s][i] = y
        BY <4>1
      <4>3. i \in 1 .. count[s] /\ ~(s = h /\ i = top)
        BY <2>6
      <4>4. y # x
        BY <1>3, <2>3, <2>4, <4>2, <4>3 DEF x
      <4> QED
        BY <4>2, <4>3, <4>4 DEF Waits
    <3>2. ASSUME NEW y \in Items, Waits(y), y # x PROVE Waits(y)'
      <4>1. PICK s \in Stacks : \E i \in 1 .. count[s] : cells[s][i] = y
        BY <3>2 DEF Waits
      <4>2. PICK i \in 1 .. count[s] : cells[s][i] = y
        BY <4>1
      <4>3. i \in 1 .. count'[s]
        BY <2>6, <3>2, <4>2 DEF x
      <4> QED
        BY <1>2, <4>2, <4>3 DEF Waits
    <3> QED
      BY <3>1, <3>2
  <2>8. \A y \in Items : taken'[y] = IF y \in pushed /\ ~Waits(y)' THEN 1 ELSE 0
    <3> TAKE y \in Items
    <3>1. CASE y = x
      <4>1. taken[x] = 0 /\ taken'[x] = taken[x] + 1
        BY <1>1, <1>2, <2>3, <2>5
      <4> QED
        BY <2>5, <2>7, <3>1, <4>1
    <3>2. CASE y # x
      BY <1>1, <1>2, <2>3, <2>7, <3>2
    <3> QED
      BY <3>1, <3>2
  <2>9. OnePlace'
    <3>1. \A s \in Stacks : \A i \in 1 .. count'[s] :
             /\ cells[s][i] \in pushed
             /\ \A t \in Stacks : \A j \in 1 .. count'[t] :
                  cells[s][i] = cells[t][j] => s = t /\ i = j
      BY <2>3, <2>6
    <3> QED
      BY <1>2, <2>8, <3>1 DEF OnePlace, Waits
  <2>10. Alone'
    <3>1. /\ \A d \in Consumers : rpc'[d] \in {"popping", "popped"} => rpc[d] \in {"popping", "popped"}
          /\ \A d \in Consumers : rpc'[d] = "popped" => rpc[d] = "popped" /\ d # c
      BY <1>1, <1>2
    <3>2. \A d \in Consumers : rpc[d] = "popped" => d = c
      BY <1>2, <2>1 DEF Alone, IsPopping
    <3> QED
      BY <1>2, <2>1, <3>1, <3>2 DEF Alone, IsPopping
  <2> QED
    BY <2>9, <2>10
<1> QED
  BY <1>4, <1>5

\* The swap list's invariant, for any number of consumers and items.
THEOREM RwInvariance == RwSpec => []RwInv
<1>1. RwInv /\ [RwNext]_rwvars => RwInv'
  <2> SUFFICES ASSUME RwInv, [RwNext]_rwvars PROVE RwInv'
    OBVIOUS
  <2>1. CASE UNCHANGED rwvars
    BY <2>1 DEF rwvars, RwInv, RwShape, Alone, OnePlace, IsPopping, Waits
  <2>2. ASSUME NEW x \in Items, RwPush(x) PROVE RwInv'
    BY <2>2, RwPush_Inv
  <2>3. ASSUME NEW c \in Consumers,
               Swap(c) \/ GetHandle(c) \/ PopTop(c) \/ PopCell(c) \/ Leave(c)
        PROVE  RwInv'
    BY <2>3, Roles_Inv, PopTop_Inv, PopCell_Inv
  <2> QED
    BY <2>1, <2>2, <2>3 DEF RwNext
<1> QED
  BY <1>1, RwInit_Inv, PTL DEF RwSpec

\* The number of places an item waits in is one or none.
LEMMA WaitingIs ==
  ASSUME RwShape, OnePlace, NEW x \in Items
  PROVE  Waiting(x) = IF Waits(x) THEN 1 ELSE 0
<1> DEFINE P == {p \in Stacks \X (1 .. RwMax) : p[2] <= count[p[1]] /\ cells[p[1]][p[2]] = x}
<1>1. /\ count \in [Stacks -> Nat]
      /\ \A s \in Stacks : count[s] <= Len(cells[s]) /\ Len(cells[s]) <= RwMax
      /\ cells \in [Stacks -> Seq(Items \cup {Blank})]
  BY RwTypes
<1>2. \A s \in Stacks : \A i \in 1 .. count[s] : i \in 1 .. RwMax
  <2> TAKE s \in Stacks
  <2>1. count[s] \in Nat /\ Len(cells[s]) \in Nat /\ RwMax \in Nat
    BY <1>1, RwAssumption
  <2> QED
    BY <1>1, <2>1
<1>3. CASE Waits(x)
  <2>1. PICK s \in Stacks : \E i \in 1 .. count[s] : cells[s][i] = x
    BY <1>3 DEF Waits
  <2>2. PICK i \in 1 .. count[s] : cells[s][i] = x
    BY <2>1
  <2>3. <<s, i>> \in P
    <3>1. i \in 1 .. RwMax /\ i <= count[s]
      BY <1>1, <1>2
    <3> QED
      BY <2>2, <3>1
  <2>4. ASSUME NEW p \in P PROVE p = <<s, i>>
    <3>1. /\ p[1] \in Stacks /\ p[2] \in 1 .. RwMax /\ p = <<p[1], p[2]>>
          /\ p[2] <= count[p[1]] /\ cells[p[1]][p[2]] = x
      OBVIOUS
    <3>2. p[2] \in 1 .. count[p[1]]
      BY <1>1, <3>1
    <3> HIDE DEF P
    <3>3. \A u, w \in Stacks : \A k \in 1 .. count[u] : \A l \in 1 .. count[w] :
            cells[u][k] = cells[w][l] => u = w /\ k = l
      BY DEF OnePlace
    <3>4. p[1] = s /\ p[2] = i
      BY <2>2, <3>1, <3>2, <3>3
    <3> QED
      BY <3>1, <3>4
  <2> HIDE DEF P
  <2>5. P = {<<s, i>>}
    BY <2>3, <2>4
  <2>6. Cardinality(P) = 1
    BY <2>5, FS_Singleton
  <2> QED
    BY <1>3, <2>6 DEF Waiting, P
<1>4. CASE ~Waits(x)
  <2>1. ASSUME NEW p \in P PROVE FALSE
    <3>1. /\ p[1] \in Stacks /\ p[2] \in 1 .. RwMax
          /\ p[2] <= count[p[1]] /\ cells[p[1]][p[2]] = x
      OBVIOUS
    <3>2. p[2] \in 1 .. count[p[1]]
      BY <1>1, <3>1
    <3> QED
      BY <1>4, <3>1, <3>2 DEF Waits
  <2>2. Cardinality(P) = 0
    <3> HIDE DEF P
    <3>1. P = {}
      BY <2>1
    <3> QED
      BY <3>1, FS_EmptySet
  <2> QED
    BY <1>4, <2>2 DEF Waiting
<1> QED
  BY <1>3, <1>4

\* rwlist.c hands every pushed item out exactly once or keeps it, in one of the
\* two stacks, as long as no consumer pops a stack that is not its own.
THEOREM SwapsExactly == RwSpec => []RwExact
<1>1. RwInv => RwExact
  <2> SUFFICES ASSUME RwInv, ~shared, NEW x \in Items
               PROVE  taken[x] + Waiting(x) = IF x \in pushed THEN 1 ELSE 0
    BY DEF RwExact
  <2>1. RwShape /\ OnePlace
    BY DEF RwInv
  <2>2. Waiting(x) = IF Waits(x) THEN 1 ELSE 0
    BY <2>1, WaitingIs
  <2>3. taken[x] = IF x \in pushed /\ ~Waits(x) THEN 1 ELSE 0
    BY <2>1 DEF OnePlace
  <2>4. Waits(x) => x \in pushed
    BY <2>1 DEF OnePlace, Waits
  <2> QED
    BY <2>2, <2>3, <2>4
<1> QED
  BY <1>1, RwInvariance, PTL

(***************************************************************************)
(* The parts together, as the run explores them.                           *)
(***************************************************************************)

\* A step of the run is one of the part it chose, and leaves the others alone.
LEMMA StepsAreOfParts ==
  ASSUME [Next]_libvars
  PROVE  /\ [FdSetNext]_fdvars /\ [PoolNext]_poolvars /\ [ListNext]_listvars
         /\ [RwNext]_rwvars /\ [EventNext]_evvars /\ [EntityNext]_envars
         /\ [IocpSendNext]_iosvars
  BY DEF Next, libvars

LEMMA RunsEveryPart ==
  LibrarySpec => /\ FdSetSpec /\ PoolSpec /\ ListSpec /\ RwSpec /\ EventSpec /\ EntitySpec
                 /\ IocpSendSpec
<1>1. Init => /\ FdSetInit /\ PoolInit /\ ListInit /\ RwInit /\ EventInit /\ EntityInit
              /\ IocpSendInit
  BY DEF Init
<1> QED
  BY <1>1, StepsAreOfParts, PTL
     DEF LibrarySpec, FdSetSpec, PoolSpec, ListSpec, RwSpec, EventSpec, EntitySpec, IocpSendSpec

\* No item is lost on the producers' side: it is to be pushed, pushed or refused.
Accounted == unpushed \cup pushed \cup dropped = Items

LEMMA ItemsAccounted == RwSpec => []Accounted
<1>1. RwInit => Accounted
  BY DEF RwInit, Accounted
<1>2. Accounted /\ [RwNext]_rwvars => Accounted'
  BY DEF Accounted, RwNext, RwPush, Swap, GetHandle, PopTop, PopCell, Leave, rwvars
<1> QED
  BY <1>1, <1>2, PTL DEF RwSpec

LEMMA PoolTypes ==
  ASSUME NEW p, NEW used, PoolInv(p, used)
  PROVE  PoolType(p)
<1>1. \A i \in Nodes(p) : HomeElements(p, i) \subseteq Elements(p)
  BY DEF HomeElements, Elements
<1>2. \A i \in Nodes(p) : p.free[i] \in Seq(HomeElements(p, i))
  BY DEF PoolInv
<1>3. \A i \in Nodes(p) : p.free[i] \in Seq(Elements(p))
  BY <1>1, <1>2
<1> QED
  BY <1>3 DEF PoolInv, PoolType

LEMMA ListTypes == ListInv => ListTypeOK
<1> SUFFICES ASSUME ListInv PROVE ListTypeOK
  OBVIOUS
<1>1. PoolType(node_pool) /\ PoolType(data_pool)
  BY PoolTypes DEF ListInv
<1>2. at \in ListNodes \cup {NoElement, tail}
  <2>1. NodesOf(content) \subseteq ListNodes
    BY DEF ListInv, NodesOf
  <2> QED
    BY <2>1 DEF ListInv
<1> QED
  BY <1>1, <1>2 DEF ListInv, ListTypeOK

LEMMA SwapListTypes == RwInv /\ Accounted => RwTypeOK
<1> SUFFICES ASSUME RwInv, Accounted PROVE RwTypeOK
  OBVIOUS
<1>1. {read, write} = Stacks
  BY DEF RwInv, RwShape, Stacks
<1>2. \A s \in Stacks : cells[s] \in Seq(Items \cup {Blank}) /\ count[s] \in 0 .. Len(cells[s])
  BY DEF RwInv, RwShape
<1> QED
  BY <1>1, <1>2 DEF RwInv, RwShape, RwTypeOK, Accounted

\* Every part keeps its types and its inductive invariant, for every value of the
\* constants: the flags and junk of the select set, the home of every pool element,
\* the list's links, the swap list's one consumer per stack, the frames of the
\* notifications and the executions, and the posted regions of the sends.
THEOREM LibraryInvariance == LibrarySpec => []LibraryInv
<1>1. LibrarySpec => /\ []FdSetInv /\ []PoolInv(pool, claimed) /\ []ListInv
                     /\ []RwInv /\ []Accounted /\ []EventInv /\ []EntityInv /\ []IocpSendInv
  BY RunsEveryPart, SelectInvariance, PoolInvariance, ListInvariance, RwInvariance,
     ItemsAccounted, EventInvariance, EntityInvariance, IocpSendInvariance, PTL
<1>2. /\ FdSetInv /\ PoolInv(pool, claimed) /\ ListInv /\ RwInv /\ Accounted
      /\ EventInv /\ EntityInv /\ IocpSendInv
      => LibraryInv
  BY PoolTypes, ListTypes, SwapListTypes
     DEF LibraryInv, FdSetInv, EventInv, EntityInv, IocpSendInv
<1> QED
  BY <1>1, <1>2, PTL
=============================================================================
