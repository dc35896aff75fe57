-------------------------------- MODULE Event --------------------------------
(***************************************************************************)
(* common/event.c, for one event id: an object notifies its observers, and *)
(* each observer's handlers are called.  The tables have fixed sizes, the  *)
(* loops run to the lengths they read at their start, and callbacks may    *)
(* insert and notify in turn.                                              *)
(***************************************************************************)
EXTENDS Integers, Sequences

CONSTANTS Objects,
          Callbacks,     \* what is registered
          MaxObservers,  \* MAX_EVENT_OBSERVER_NUM
          MaxHandlers,   \* MAX_EVENT_HANDLER_NUM
          MaxDepth,      \* bound: notifications inside each other
          MaxCalls       \* bound: notifications over all

ASSUME EventAssumption == /\ MaxObservers \in Nat /\ MaxHandlers \in Nat
                          /\ MaxDepth \in Nat /\ MaxCalls \in Nat

VARIABLES
  handlers, observers,   \* the tables of each object
  frames,                \* the notifications in progress, innermost last, each
                         \* inside the callback at place: root, onum, hnum are
                         \* the locals of the two loops
  notified,              \* notifications so far
  finished               \* history: the last notification that returned

evvars == <<handlers, observers, frames, notified, finished>>

NoFrame == [root |-> "none", onum |-> 0, place |-> <<0, 0>>, hnum |-> 0,
            owed |-> {}, ran |-> <<>>]

EventInit ==
  /\ handlers = [o \in Objects |-> <<>>]
  /\ observers = [o \in Objects |-> <<>>]
  /\ frames = <<>>
  /\ notified = 0
  /\ finished = NoFrame
-----------------------------------------------------------------------------
\* object_insert_observer, object_insert_handler: from outside or in a callback.
Inserted_Always(table, x, max) == Append(table, x)
Inserted(table, x, max) == IF Len(table) < max THEN Append(table, x) ELSE table

InsertObserver(o, p) ==
  /\ observers' = [observers EXCEPT ![o] = Inserted(@, p, MaxObservers)]
  /\ UNCHANGED <<handlers, frames, notified, finished>>

InsertHandler(o, c) ==
  /\ handlers' = [handlers EXCEPT ![o] = Inserted(@, c, MaxHandlers)]
  /\ UNCHANGED <<observers, frames, notified, finished>>

\* The next callback of the two loops after place: the next handler of this
\* observer, else the first one of the next observer that has any; its length is
\* read there.
HandlersOf(f, i) == Len(handlers[observers[f.root][i]])
Turns(f) == {i \in f.place[1] + 1 .. f.onum : HandlersOf(f, i) > 0}
LastHandler_Short(f) == f.hnum - 1
LastHandler(f) == f.hnum
NextPlace(f) ==
  IF f.place[2] < LastHandler(f)
  THEN [f EXCEPT !.place = <<f.place[1], f.place[2] + 1>>]
  ELSE LET i == CHOOSE i \in Turns(f) : \A k \in Turns(f) : i <= k
       IN  [f EXCEPT !.place = <<i, 1>>, !.hnum = HandlersOf(f, i)]
IsOver(f) == f.place[2] >= LastHandler(f) /\ Turns(f) = {}
Called(f) == [NextPlace(f) EXCEPT !.ran = Append(@, NextPlace(f).place)]

\* What is registered, with its observer, when the notification begins.
Owed(o) ==
  UNION {{<<i, j>> : j \in 1 .. Len(handlers[observers[o][i]])} :
           i \in 1 .. Len(observers[o])}

\* object_nofify up to its first callback.
Notify(o) ==
  LET f == [root |-> o, onum |-> Len(observers[o]), place |-> <<0, 0>>, hnum |-> 0,
            owed |-> Owed(o), ran |-> <<>>]
  IN  /\ Len(frames) < MaxDepth /\ notified < MaxCalls
      /\ notified' = notified + 1
      /\ frames' = IF IsOver(f) THEN frames ELSE Append(frames, Called(f))
      /\ UNCHANGED <<handlers, observers, finished>>

\* The innermost callback returns.
Return ==
  /\ frames # <<>>
  /\ LET n == Len(frames)
         f == frames[n]
     IN  IF IsOver(f)
         THEN frames' = SubSeq(frames, 1, n - 1) /\ finished' = f
         ELSE frames' = [frames EXCEPT ![n] = Called(f)] /\ UNCHANGED finished
  /\ UNCHANGED <<handlers, observers, notified>>

EventNext ==
  \/ \E o, p \in Objects : InsertObserver(o, p)
  \/ \E o \in Objects : (\E c \in Callbacks : InsertHandler(o, c)) \/ Notify(o)
  \/ Return

EventSpec == EventInit /\ [][EventNext]_evvars
-----------------------------------------------------------------------------
Places == (0 .. MaxObservers) \X (0 .. MaxHandlers)
EventTypeOK ==
  /\ \A o \in Objects : /\ handlers[o] \in Seq(Callbacks)
                        /\ Len(handlers[o]) <= MaxHandlers
                        /\ observers[o] \in Seq(Objects)
                        /\ Len(observers[o]) <= MaxObservers
  /\ notified \in 0 .. MaxCalls
  /\ Len(frames) <= MaxDepth
  /\ \A n \in 1 .. Len(frames) : frames[n].place \in Places

\* A notification calls everything that was registered when it began, each
\* handler once and in the order of registration, whatever its callbacks insert
\* or notify; of what they insert it calls at most what comes before its turn.
Before(p, q) == p[1] < q[1] \/ (p[1] = q[1] /\ p[2] < q[2])
InOrder(s) == \A m, n \in 1 .. Len(s) : m < n => Before(s[m], s[n])
NotifyExact ==
  /\ InOrder(finished.ran)
  /\ finished.owed \subseteq {finished.ran[n] : n \in 1 .. Len(finished.ran)}
  /\ \A n \in 1 .. Len(finished.ran) : finished.ran[n][1] <= finished.onum

\* A notification in progress: what it ran lies in order up to its place, what
\* it owes lies behind it, within the lengths it read or will read, or was run.
Frame == [root : Objects, onum : Nat, place : Nat \X Nat, hnum : Nat,
          owed : SUBSET (Nat \X Nat), ran : Seq(Nat \X Nat)]
Reached(p, f) == p = f.place \/ Before(p, f.place)
OwedInv(f) ==
  \A p \in f.owed :
    /\ p[1] \in 1 .. f.onum
    /\ p[2] \in 1 .. HandlersOf(f, p[1])
    /\ p[1] = f.place[1] => p[2] <= f.hnum
    /\ Reached(p, f) => \E n \in 1 .. Len(f.ran) : f.ran[n] = p
FrameInv(f) ==
  /\ f \in Frame
  /\ f.onum <= Len(observers[f.root])
  /\ f.place[1] <= f.onum
  /\ f.place[2] <= f.hnum /\ f.hnum <= MaxHandlers
  /\ InOrder(f.ran)
  /\ \A n \in 1 .. Len(f.ran) : Reached(f.ran[n], f)
  /\ OwedInv(f)

\* The inductive invariant that NotifyExact rests on.
EventInv ==
  /\ handlers \in [Objects -> Seq(Callbacks)]
  /\ observers \in [Objects -> Seq(Objects)]
  /\ frames \in Seq(Frame)
  /\ EventTypeOK
  /\ \A n \in 1 .. Len(frames) : FrameInv(frames[n])
  /\ NotifyExact
=============================================================================
