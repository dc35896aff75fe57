------------------------------- MODULE Entity -------------------------------
(***************************************************************************)
(* common/dnotify.h: one LogicCollection of an Entity (its logics,         *)
(* observers or checks), a vector of lists of handlers by key.  Callbacks  *)
(* run in the middle of a list and may add, delete and execute again.      *)
(***************************************************************************)
EXTENDS Integers, Sequences

CONSTANTS KeyNum,       \* keys 0 .. KeyNum - 1
          Handlers,     \* each with its own id, in a list at most once
          EntityDepth,  \* bound: executions inside each other
          MaxRounds,    \* bound: executions over all
          MaxAdds       \* bound: calls of addLogic

ASSUME EntityAssumption ==
  /\ "NULL" \notin Handlers
  /\ KeyNum \in Nat /\ EntityDepth \in Nat /\ MaxRounds \in Nat /\ MaxAdds \in Nat

VARIABLES
  m_logics,    \* the vector: per key a list, or NoList for NULL
  rounds,      \* executions in progress, innermost last: key, whether it is a
               \* check, the handler the iterator is at, whether its node was erased
  executed, added,   \* counts for the bounds
  ecrash,      \* "no", "list" (NULL list used), "iterator" (erased node used)
  ended,       \* history: the last round that ran to the end of the list
  misused      \* history: a handler was deleted while a round stood at it, or a
               \* key was used first after a higher one

envars == <<m_logics, rounds, executed, added, ecrash, ended, misused>>

NoList == <<"NULL">>
NoRound == [key |-> 0, check |-> FALSE, at |-> <<>>, erased |-> FALSE,
            owed |-> {}, ran |-> <<>>]

EntityInit ==
  /\ m_logics = <<>>
  /\ rounds = <<>>
  /\ executed = 0 /\ added = 0
  /\ ecrash = "no"
  /\ ended = NoRound
  /\ misused = FALSE
-----------------------------------------------------------------------------
\* PropertyBank<int, V>: the vector is indexed from 0, a sequence from 1.
InVector(key) == key < Len(m_logics)
ListAt(key) == m_logics[key + 1]
HasList(key) == InVector(key) /\ ListAt(key) # NoList
Members(list) == {list[i] : i \in 1 .. Len(list)}
PlaceIn(list, h) == CHOOSE i \in 1 .. Len(list) : list[i] = h
Resized(key) == [i \in 1 .. key + 1 |-> IF i <= Len(m_logics) THEN m_logics[i] ELSE NoList]

\* addLogic makes a list only for a key behind the end of the vector.
AddLogic(key, h) ==
  /\ added < MaxAdds
  /\ HasList(key) => h \notin Members(ListAt(key))
  /\ added' = added + 1
  /\ \/ /\ ~InVector(key)
        /\ m_logics' = [Resized(key) EXCEPT ![key + 1] = <<h>>]
        /\ UNCHANGED <<ecrash, misused>>
     \/ /\ HasList(key)
        /\ m_logics' = [m_logics EXCEPT ![key + 1] = Append(@, h)]
        /\ UNCHANGED <<ecrash, misused>>
     \/ /\ InVector(key) /\ ~HasList(key)
        /\ ecrash' = "list"
        /\ misused' = TRUE
        /\ UNCHANGED m_logics
  /\ UNCHANGED <<rounds, executed, ended>>

\* delLogic, from outside or in a callback, of any handler.
Erased(list, h) ==
  LET i == PlaceIn(list, h) IN SubSeq(list, 1, i - 1) \o SubSeq(list, i + 1, Len(list))
Without(r, key, h) ==
  IF r.key # key THEN r
  ELSE [r EXCEPT !.owed = @ \ {h}, !.erased = @ \/ r.at = h]
DelLogic(key, h) ==
  /\ HasList(key) /\ h \in Members(ListAt(key))
  /\ m_logics' = [m_logics EXCEPT ![key + 1] = Erased(@, h)]
  /\ rounds' = [n \in 1 .. Len(rounds) |-> Without(rounds[n], key, h)]
  /\ misused' = (misused \/ \E n \in 1 .. Len(rounds) :
                              rounds[n].key = key /\ rounds[n].at = h)
  /\ UNCHANGED <<executed, added, ecrash, ended>>

\* execute and check call the first handler ...
Run(r, h) == [r EXCEPT !.at = h, !.ran = Append(@, h)]
Execute(key, check) ==
  /\ Len(rounds) < EntityDepth /\ executed < MaxRounds
  /\ HasList(key) /\ ListAt(key) # <<>>
  /\ executed' = executed + 1
  /\ rounds' = Append(rounds,
       Run([key |-> key, check |-> check, at |-> <<>>, erased |-> FALSE,
            owed |-> Members(ListAt(key)), ran |-> <<>>], ListAt(key)[1]))
  /\ UNCHANGED <<m_logics, added, ecrash, ended, misused>>

\* ... and when it has returned the one that is behind it in the list by now.
Behind_Next(list, h) == SubSeq(list, PlaceIn(list, h) + 2, Len(list))
Behind(list, h) == SubSeq(list, PlaceIn(list, h) + 1, Len(list))

Innermost == rounds[Len(rounds)]
Outer == SubSeq(rounds, 1, Len(rounds) - 1)

Continue ==
  /\ rounds # <<>>
  /\ LET r    == Innermost
         rest == IF r.erased THEN <<>> ELSE Behind(ListAt(r.key), r.at)
     IN  CASE r.erased -> ecrash' = "iterator" /\ UNCHANGED <<rounds, ended>>
           [] ~r.erased /\ rest = <<>> ->
                rounds' = Outer /\ ended' = r /\ UNCHANGED ecrash
           [] ~r.erased /\ rest # <<>> ->
                rounds' = Append(Outer, Run(r, rest[1])) /\ UNCHANGED <<ecrash, ended>>
  /\ UNCHANGED <<m_logics, executed, added, misused>>

\* A check stops at the first ELOGIC_CHECK_NO, without moving the iterator.
CheckFails ==
  /\ rounds # <<>> /\ Innermost.check
  /\ rounds' = Outer
  /\ UNCHANGED <<m_logics, executed, added, ecrash, ended, misused>>

EntityNext ==
  /\ ecrash = "no"
  /\ \/ \E key \in 0 .. KeyNum - 1 :
          \/ \E h \in Handlers : AddLogic(key, h) \/ DelLogic(key, h)
          \/ \E check \in BOOLEAN : Execute(key, check)
     \/ Continue
     \/ CheckFails

EntitySpec == EntityInit /\ [][EntityNext]_envars
-----------------------------------------------------------------------------
EntityTypeOK ==
  /\ Len(m_logics) <= KeyNum
  /\ \A i \in 1 .. Len(m_logics) : m_logics[i] = NoList \/ m_logics[i] \in Seq(Handlers)
  /\ \A n \in 1 .. Len(rounds) : /\ rounds[n].key \in 0 .. KeyNum - 1
                                 /\ rounds[n].at \in Handlers
                                 /\ rounds[n].owed \subseteq Handlers
                                 /\ rounds[n].ran \in Seq(Handlers)
  /\ executed \in 0 .. MaxRounds /\ added \in 0 .. MaxAdds
  /\ ecrash \in {"no", "list", "iterator"}
  /\ misused \in BOOLEAN

\* While handlers are added and deleted under it, an execution calls each
\* handler that is in the list from its beginning to its end exactly once, and
\* it crashes only if a callback, an inner execution's included, deleted the
\* handler some execution stood at, or a key was used first after a higher one.
Times(h, s) == {i \in 1 .. Len(s) : s[i] = h}
ExecuteExact ==
  /\ \A h \in ended.owed : \E i \in 1 .. Len(ended.ran) : Times(h, ended.ran) = {i}
  /\ ecrash # "no" => misused

\* Of what an execution owes it has called once what is in the list up to the
\* handler it stands at, and nothing behind that.
Round == [key : 0 .. KeyNum - 1, check : BOOLEAN, at : Handlers, erased : BOOLEAN,
          owed : SUBSET Handlers, ran : Seq(Handlers)]
Once(h, s) == \E i \in 1 .. Len(s) : Times(h, s) = {i}
OnList(at, owed, ran, list) ==
  \E p \in 1 .. Len(list) :
    /\ list[p] = at
    /\ \A h \in owed : \E q \in 1 .. Len(list) :
         /\ list[q] = h
         /\ IF q <= p THEN Once(h, ran) ELSE Times(h, ran) = {}
RoundInv(r) ==
  IF r.erased THEN misused
  ELSE HasList(r.key) /\ OnList(r.at, r.owed, r.ran, ListAt(r.key))
Distinct(list) == \A i, j \in 1 .. Len(list) : list[i] = list[j] => i = j

\* The inductive invariant that ExecuteExact rests on.
EntityInv ==
  /\ m_logics \in Seq(Seq(Handlers) \cup {NoList})
  /\ rounds \in Seq(Round)
  /\ EntityTypeOK
  /\ \A i \in 1 .. Len(m_logics) : m_logics[i] # NoList => Distinct(m_logics[i])
  /\ \A n \in 1 .. Len(rounds) : RoundInv(rounds[n])
  /\ ExecuteExact
=============================================================================
