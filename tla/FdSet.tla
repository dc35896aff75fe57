-------------------------------- MODULE FdSet --------------------------------
(***************************************************************************)
(* common/fdset.c on Linux: descriptors watched by select, with an array   *)
(* of flags from which the highest watched descriptor is searched when the *)
(* highest one leaves.                                                     *)
(***************************************************************************)
EXTENDS Integers, FiniteSets

CONSTANTS Fds,     \* descriptors the program opens
          Checks   \* ReadCheck, WriteCheck, ErrorCheck, or some of them

ASSUME FdAssumption == Fds \subseteq Nat /\ IsFiniteSet(Fds)

VARIABLES
  watched,              \* read, write and error: pairs of descriptor and check
  results,              \* read_result, write_result and error_result
  fd_num,               \* length of the array fds, NoArray before the first push
  fds,                  \* its flags: "on", "off", or "junk" in memory that
                        \* array_increase got and nobody wrote
  max_fd, push_max_fd,
  ready,                \* history: watched pairs that were ready at the last poll
  interrupted,          \* history: a signal interrupted the last poll
  outgrown,             \* history: a descriptor was added that the array, grown
                        \* once, did not reach
  fdcrash               \* "erase": fdset_erase dereferenced NULL; "early": it
                        \* ran on an fdset that never had an array

fdvars == <<watched, results, fd_num, fds, max_fd, push_max_fd, ready, interrupted,
            outgrown, fdcrash>>

SOCKET_ERROR == -1
NoArray == -1
Pairs == Fds \X Checks
Larger(m, n) == IF m > n THEN m ELSE n

FdSetInit ==
  /\ watched = {} /\ results = {} /\ ready = {}
  /\ fd_num = NoArray /\ fds = <<>>
  /\ max_fd = SOCKET_ERROR
  /\ push_max_fd = 0
  /\ interrupted = FALSE /\ outgrown = FALSE
  /\ fdcrash = "no"
-----------------------------------------------------------------------------
\* array_new(fd) gives fd clear flags, none for descriptor 0; array_increase
\* doubles the array, once, and does nothing to an empty one.
Made(fd) == IF fd_num = NoArray THEN fd ELSE fd_num
Doubled(fd) == IF Made(fd) <= fd THEN 2 * Made(fd) ELSE Made(fd)

\* The flags between the highest descriptor pushed so far and this one.
Skipped(i, fd) == push_max_fd < i /\ i < fd

\* fdset_push; array_set does nothing behind the end of the array.
Pushed(i, fd) ==
  CASE i = fd -> "on"
    [] i # fd /\ Skipped(i, fd) -> "off"
    [] i # fd /\ ~Skipped(i, fd) /\ i < fd_num -> fds[i]
    [] i # fd /\ ~Skipped(i, fd) /\ i >= fd_num ->
         IF fd_num = NoArray /\ i < fd THEN "off" ELSE "junk"

Add(fd, types) ==
  /\ watched' = watched \cup ({fd} \X types)
  /\ fd_num' = Doubled(fd)
  /\ fds' = [i \in 0 .. Doubled(fd) - 1 |-> Pushed(i, fd)]
  /\ max_fd' = Larger(max_fd, fd)
  /\ push_max_fd' = Larger(push_max_fd, fd)
  /\ outgrown' = (outgrown \/ fd >= Doubled(fd))
  /\ UNCHANGED <<results, ready, interrupted, fdcrash>>

\* The scan of fdset_erase from fd down stops at the first flag that reads as
\* true; junk reads as anything.  Nothing found is SOCKET_ERROR.
Stops(a, fd) ==
  {i \in 0 .. fd : /\ a[i] # "off"
                   /\ \A j \in i + 1 .. fd : a[j] # "on"}
  \cup (IF \A j \in 0 .. fd : a[j] # "on" THEN {SOCKET_ERROR} ELSE {})

Erase(fd) ==
  LET off == [i \in DOMAIN fds |-> IF i = fd THEN "off" ELSE fds[i]] IN
  \/ /\ fd_num = NoArray
     /\ fdcrash' = "early"
     /\ UNCHANGED <<fds, max_fd>>
  \/ /\ fd_num # NoArray /\ (fd = max_fd => fd < fd_num)
     /\ fds' = off
     /\ max_fd' \in (IF fd = max_fd THEN Stops(off, fd) ELSE {max_fd})
     /\ UNCHANGED fdcrash
  \/ /\ fd_num # NoArray /\ fd = max_fd /\ fd >= fd_num
     /\ fdcrash' = "erase"
     /\ UNCHANGED <<fds, max_fd>>

\* fdset_del leaves the descriptor recorded while another check watches it.
Unwatched_Always(fd, w) == TRUE
Unwatched(fd, w) == \A c \in Checks : <<fd, c>> \notin w

Del(fd, types) ==
  /\ watched' = watched \ ({fd} \X types)
  /\ IF Unwatched(fd, watched') THEN Erase(fd) ELSE UNCHANGED <<fds, max_fd, fdcrash>>
  /\ UNCHANGED <<results, fd_num, push_max_fd, ready, interrupted, outgrown>>
-----------------------------------------------------------------------------
(***************************************************************************)
(* fdset_poll.  select (external) leaves the ready ones of the pairs below *)
(* max_fd + 1; what it does with the others depends on the word they are   *)
(* in.  Interrupted, or not called at all, it leaves the copies as they    *)
(* are.                                                                    *)
(***************************************************************************)
Nfds == max_fd + 1

Poll ==
  \E r \in SUBSET watched :
    /\ ready' = r
    /\ IF max_fd = SOCKET_ERROR
       THEN results' = watched
       ELSE \E other \in SUBSET {p \in watched : p[1] >= Nfds} :
              results' = {p \in r : p[1] < Nfds} \cup other
    /\ interrupted' = FALSE
    /\ UNCHANGED <<watched, fd_num, fds, max_fd, push_max_fd, outgrown, fdcrash>>

PollInterrupted ==
  /\ max_fd # SOCKET_ERROR
  /\ results' = watched
  /\ ready' = {}
  /\ interrupted' = TRUE
  /\ UNCHANGED <<watched, fd_num, fds, max_fd, push_max_fd, outgrown, fdcrash>>

\* fdset_check
Active(fd, types) == \E c \in types : <<fd, c>> \in results

FdSetNext ==
  /\ fdcrash = "no"
  /\ \/ \E fd \in Fds, types \in (SUBSET Checks) \ {{}} : Add(fd, types) \/ Del(fd, types)
     \/ Poll
     \/ PollInterrupted

FdSetSpec == FdSetInit /\ [][FdSetNext]_fdvars
-----------------------------------------------------------------------------
FdSetTypeOK ==
  /\ watched \subseteq Pairs /\ results \subseteq Pairs /\ ready \subseteq Pairs
  /\ max_fd \in Fds \cup {SOCKET_ERROR} \cup (0 .. push_max_fd)
  /\ push_max_fd \in Fds \cup {0}
  /\ fd_num \in Nat \cup {NoArray}
  /\ fds \in [0 .. fd_num - 1 -> {"on", "off", "junk"}]
  /\ interrupted \in BOOLEAN /\ outgrown \in BOOLEAN
  /\ fdcrash \in {"no", "erase", "early"}

\* As long as the flag array reached every descriptor that was added, the cached
\* max_fd is the highest watched descriptor, although it is searched in memory
\* that is partly uninitialized: fdset_poll hides no ready descriptor,
\* fdset_check reports none that was not ready, unless a signal interrupted
\* select, and fdset_erase never runs off the array.
IsHighest(m) ==
  IF watched = {} THEN m = SOCKET_ERROR
  ELSE (\E p \in watched : p[1] = m) /\ \A p \in watched : p[1] <= m
SelectExact ==
  ~outgrown /\ fdcrash # "early" =>
    /\ IsHighest(max_fd)
    /\ interrupted \/ \A p \in Pairs : Active(p[1], {p[2]}) <=> p \in ready
    /\ fdcrash # "erase"

\* The flags up to the highest descriptor pushed are written and exact as long
\* as the array reached every descriptor, so the scan down from a watched one
\* meets no junk.
FlagsExact ==
  /\ \/ fd_num = NoArray /\ push_max_fd = 0
     \/ push_max_fd < fd_num
  /\ \A p \in watched : p[1] <= push_max_fd /\ p[1] < fd_num
  /\ \A i \in 0 .. push_max_fd :
       i < fd_num => fds[i] = IF Unwatched(i, watched) THEN "off" ELSE "on"

\* The inductive invariant that SelectExact rests on.
FdSetInv ==
  /\ FdSetTypeOK
  /\ max_fd <= push_max_fd
  /\ ~outgrown =>
       /\ FlagsExact
       /\ IsHighest(max_fd)
       /\ interrupted \/ results = ready
       /\ fdcrash # "erase"
=============================================================================
