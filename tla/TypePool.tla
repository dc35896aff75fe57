------------------------------ MODULE TypePool ------------------------------
(***************************************************************************)
(* common/typepool.c: elements of one size handed out from chained nodes,  *)
(* each with a stack of pointers to its free elements.  A pool is a record *)
(*   free : the stacks, by number of the node, in the order of the chain   *)
(*   size : the number of elements of each node                            *)
(*   free_node : where claim looks first, Null for none.                   *)
(* An element is the pair of its node (its header points there) and place. *)
(***************************************************************************)
EXTENDS Integers, Sequences

CONSTANTS FirstNum,     \* num of type_pool_new
          Increases,    \* the increase_num offered
          MaxNodes      \* bound: nodes of a pool

ASSUME PoolAssumption == FirstNum \in Nat /\ Increases \subseteq Nat /\ MaxNodes \in Nat

VARIABLES pool,         \* a pool used on its own
          claimed       \* the elements its user holds

poolvars == <<pool, claimed>>

Null == 0           \* no node
NoElement == <<>>   \* no element

\* type_pool_node_new pushes its elements in their order.
NodeElements(i, num) == [k \in 1 .. num |-> <<i, k>>]

NewPool(num) ==
  [free |-> <<NodeElements(1, num)>>, size |-> <<num>>, free_node |-> 1]

Nodes(p) == 1 .. Len(p.free)

\* The node type_pool_claim pops from: free_node, or the first of the chain that
\* has an element; Null when all are empty.
Has(p, i) == p.free[i] # <<>>
FromFreeNode(p) == p.free_node # Null /\ Has(p, p.free_node)
Source(p) ==
  IF FromFreeNode(p) THEN p.free_node
  ELSE IF \E i \in Nodes(p) : Has(p, i)
       THEN CHOOSE i \in Nodes(p) : Has(p, i) /\ \A j \in 1 .. i - 1 : ~Has(p, j)
       ELSE Null

\* What it returns.
Claimed(p) ==
  LET i == Source(p) IN IF i = Null THEN NoElement ELSE p.free[i][Len(p.free[i])]

\* The search has gone on to the next node when it notes free_node.
NextNode(p, i) == IF i < Len(p.free) THEN i + 1 ELSE Null
AfterPop_Peek(p, i) == p.free
AfterPop(p, i) == [p.free EXCEPT ![i] = SubSeq(@, 1, Len(@) - 1)]
Claim(p) ==
  LET i == Source(p) IN
  IF i = Null THEN p
  ELSE [p EXCEPT !.free = AfterPop(p, i),
                 !.free_node = IF FromFreeNode(p) THEN @ ELSE NextNode(p, i)]

\* type_pool_reclaim: a full stack refuses the element.
Home_Current(p, e) == IF p.free_node = Null THEN 1 ELSE p.free_node
Home(p, e) == e[1]
Reclaim(p, e) ==
  LET i == Home(p, e) IN
  [p EXCEPT !.free[i] = IF Len(@) < p.size[i] THEN Append(@, e) ELSE @,
            !.free_node = i]

Increase(p, num) ==
  [free      |-> Append(p.free, NodeElements(Len(p.free) + 1, num)),
   size      |-> Append(p.size, num),
   free_node |-> Len(p.free) + 1]
-----------------------------------------------------------------------------
PoolInit == pool = NewPool(FirstNum) /\ claimed = {}

ClaimOne == pool' = Claim(pool) /\ claimed' = claimed \cup ({Claimed(pool)} \ {NoElement})

ReclaimOne == \E e \in claimed : pool' = Reclaim(pool, e) /\ claimed' = claimed \ {e}

IncreasePool ==
  /\ Len(pool.free) < MaxNodes
  /\ \E num \in Increases : pool' = Increase(pool, num)
  /\ UNCHANGED claimed

PoolNext == ClaimOne \/ ReclaimOne \/ IncreasePool

PoolSpec == PoolInit /\ [][PoolNext]_poolvars
-----------------------------------------------------------------------------
Elements(p) == UNION {{<<i, k>> : k \in 1 .. p.size[i]} : i \in Nodes(p)}

PoolType(p) ==
  /\ Len(p.size) = Len(p.free)
  /\ p.free_node \in Nodes(p) \cup {Null}
  /\ \A i \in Nodes(p) : p.free[i] \in Seq(Elements(p))

\* The elements that are free and those in use share nothing and are all there
\* are, and no element is free twice.
Free(p) == UNION {{p.free[i][k] : k \in 1 .. Len(p.free[i])} : i \in Nodes(p)}
Partition(p, used) ==
  /\ Free(p) \cap used = {}
  /\ Free(p) \cup used = Elements(p)
  /\ \A i \in Nodes(p) : \A k, l \in 1 .. Len(p.free[i]) :
       p.free[i][k] = p.free[i][l] => k = l
  /\ \A i, j \in Nodes(p) : \A k \in 1 .. Len(p.free[i]), l \in 1 .. Len(p.free[j]) :
       p.free[i][k] = p.free[j][l] => i = j

\* type_pool_claim never hands out an element that is in use, finds one wherever
\* it is free, and every reclaimed element is free again in the node it came
\* from, although free_node is only a hint that a search leaves one node too far.
PoolExact ==
  /\ Partition(pool, claimed)
  /\ Source(pool) = Null => claimed = Elements(pool)

\* The inductive invariant that PoolExact rests on: every stack holds elements of
\* its own node only, so none is ever full when one of them comes back.
Pool == [free : Seq(Seq(Nat \X Nat)), size : Seq(Nat), free_node : Nat]
HomeElements(p, i) == {i} \X (1 .. p.size[i])
PoolInv(p, used) ==
  /\ p \in Pool
  /\ Len(p.size) = Len(p.free)
  /\ p.free_node \in Nodes(p) \cup {Null}
  /\ \A i \in Nodes(p) : p.free[i] \in Seq(HomeElements(p, i))
  /\ Partition(p, used)
=============================================================================
