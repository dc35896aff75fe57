-------------------------------- MODULE List --------------------------------
(***************************************************************************)
(* common/list.c: a doubly linked list whose nodes and data come from two  *)
(* type pools that never grow.  A program pushes, walks and erases.        *)
(***************************************************************************)
EXTENDS TypePool

CONSTANTS node_num,    \* capacity of list_new
          Values       \* what is pushed

ASSUME ListAssumption == node_num \in Nat

VARIABLES
  node_pool, data_pool,    \* the two pools
  next, prior,             \* links of the nodes, of head and of tail
  node_data,               \* the data element of each node
  memory,                  \* what each data element holds
  at,                      \* where the program's walk stands, or NoElement
  content                  \* history: nodes linked in, with their values, in order

listvars == <<node_pool, data_pool, next, prior, node_data, memory, at, content>>

head == <<0, 1>>   \* the two nodes inside list_s
tail == <<0, 2>>
ListNodes == {<<1, k>> : k \in 1 .. node_num}

ListInit ==
  /\ node_pool = NewPool(node_num)
  /\ data_pool = NewPool(node_num)
  /\ next = [n \in ListNodes \cup {head} |-> IF n = head THEN tail ELSE NoElement]
  /\ prior = [n \in ListNodes \cup {tail} |-> IF n = tail THEN head ELSE NoElement]
  /\ node_data = [n \in ListNodes |-> NoElement]
  /\ memory = [e \in ListNodes |-> NoElement]
  /\ at = NoElement
  /\ content = <<>>
-----------------------------------------------------------------------------
\* list_push_back gives the node back when there is no data element for it, and
\* drops the value silently when a pool is empty.
PushBack(v) ==
  LET node == Claimed(node_pool)
      data == Claimed(data_pool)
  IN  IF node = NoElement \/ data = NoElement
      THEN /\ node_pool' = IF node = NoElement THEN node_pool
                           ELSE Reclaim(Claim(node_pool), node)
           /\ UNCHANGED <<data_pool, next, prior, node_data, memory, at, content>>
      ELSE /\ node_pool' = Claim(node_pool)
           /\ data_pool' = Claim(data_pool)
           /\ node_data' = [node_data EXCEPT ![node] = data]
           /\ memory' = [memory EXCEPT ![data] = v]
           /\ next' = [next EXCEPT ![prior[tail]] = node, ![node] = tail]
           /\ prior' = [prior EXCEPT ![node] = prior[tail], ![tail] = node]
           /\ content' = Append(content, <<node, v>>)
           /\ UNCHANGED at

\* The program walks from list_begin to list_end and may erase the node it is
\* at; list_erase hands it the next one.
Begin ==
  /\ at' = next[head]
  /\ UNCHANGED <<node_pool, data_pool, next, prior, node_data, memory, content>>

Advance ==
  /\ at \notin {NoElement, tail}
  /\ at' = next[at]
  /\ UNCHANGED <<node_pool, data_pool, next, prior, node_data, memory, content>>

\* node->data is read after the node went back to its pool.
Relinked_Forward(n) == prior
Relinked(n) == [prior EXCEPT ![next[n]] = prior[n]]

PlaceOf(c, n) == CHOOSE k \in 1 .. Len(c) : c[k][1] = n
Unlinked(c, n) ==
  LET k == PlaceOf(c, n) IN SubSeq(c, 1, k - 1) \o SubSeq(c, k + 1, Len(c))

EraseNode ==
  /\ at \notin {NoElement, tail}
  /\ next' = [next EXCEPT ![prior[at]] = next[at]]
  /\ prior' = Relinked(at)
  /\ node_pool' = Reclaim(node_pool, at)
  /\ data_pool' = Reclaim(data_pool, node_data[at])
  /\ at' = next[at]
  /\ content' = Unlinked(content, at)
  /\ UNCHANGED <<node_data, memory>>

ListNext == (\E v \in Values : PushBack(v)) \/ Begin \/ Advance \/ EraseNode

ListSpec == ListInit /\ [][ListNext]_listvars
-----------------------------------------------------------------------------
ListTypeOK ==
  /\ PoolType(node_pool) /\ PoolType(data_pool)
  /\ next \in [ListNodes \cup {head} -> ListNodes \cup {tail, NoElement}]
  /\ prior \in [ListNodes \cup {tail} -> ListNodes \cup {head, NoElement}]
  /\ node_data \in [ListNodes -> ListNodes \cup {NoElement}]
  /\ memory \in [ListNodes -> Values \cup {NoElement}]
  /\ at \in ListNodes \cup {NoElement, tail}
  /\ content \in Seq(ListNodes \X Values)

\* The links in both directions spell out the values pushed and not erased, in
\* order, each in a data element of its own; what is not linked in is free in
\* its pool, in equal numbers of nodes and data.
NodeIn(c, i) == IF i = 0 THEN head ELSE IF i > Len(c) THEN tail ELSE c[i][1]
NodeAt(i) == NodeIn(content, i)
InList == 1 .. Len(content)
ListExact ==
  /\ \A i \in 0 .. Len(content) : /\ next[NodeAt(i)] = NodeAt(i + 1)
                                  /\ prior[NodeAt(i + 1)] = NodeAt(i)
  /\ \A i \in InList : memory[node_data[NodeAt(i)]] = content[i][2]
  /\ Partition(node_pool, {NodeAt(i) : i \in InList})
  /\ Partition(data_pool, {node_data[NodeAt(i)] : i \in InList})
  /\ \A i, j \in InList : node_data[NodeAt(i)] = node_data[NodeAt(j)] => i = j

\* The inductive invariant that ListExact rests on: the walk stands in the list or
\* at its end, and both pools are still the one node they began with.
NodesOf(c) == {c[i][1] : i \in 1 .. Len(c)}
DataOf(c, nd) == {nd[c[i][1]] : i \in 1 .. Len(c)}
Linked(c, nx, pr) ==
  \A i \in 0 .. Len(c) : nx[NodeIn(c, i)] = NodeIn(c, i + 1) /\ pr[NodeIn(c, i + 1)] = NodeIn(c, i)
OwnData(c, nd) == \A i, j \in 1 .. Len(c) : nd[c[i][1]] = nd[c[j][1]] => i = j
Stored(c, nd, mem) == \A i \in 1 .. Len(c) : mem[nd[c[i][1]]] = c[i][2]
ListInv ==
  /\ next \in [ListNodes \cup {head} -> ListNodes \cup {tail, NoElement}]
  /\ prior \in [ListNodes \cup {tail} -> ListNodes \cup {head, NoElement}]
  /\ node_data \in [ListNodes -> ListNodes \cup {NoElement}]
  /\ memory \in [ListNodes -> Values \cup {NoElement}]
  /\ content \in Seq(ListNodes \X Values)
  /\ at \in NodesOf(content) \cup {NoElement, tail}
  /\ PoolInv(node_pool, NodesOf(content)) /\ node_pool.size = <<node_num>>
  /\ PoolInv(data_pool, DataOf(content, node_data)) /\ data_pool.size = <<node_num>>
  /\ Linked(content, next, prior)
  /\ OwnData(content, node_data)
  /\ Stored(content, node_data, memory)
=============================================================================
