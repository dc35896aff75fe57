----------------------------- MODULE IocpProofs -----------------------------
(***************************************************************************)
(* Proofs about the sessions of the completion-port server: receiving      *)
(* keeps the stream, and no session falls silent, unless two lives of a    *)
(* session meet; for any number of sessions, workers and connections.      *)
(***************************************************************************)
EXTENDS Iocp, BufferProofs, FiniteSetTheorems, FunctionTheorems

(***************************************************************************)
(* The packets of a session in a queue.                                    *)
(***************************************************************************)

QAt(q, s) == {i \in 1 .. Len(q) : q[i].s = s}

\* The packets of s are the same in r as in q, all of them d places further on.
Kept(q, r, s) ==
  \E d \in {0, 1} :
    /\ \A i \in QAt(r, s) : i + d \in QAt(q, s) /\ r[i] = q[i + d]
    /\ \A i \in QAt(q, s) : i - d \in QAt(r, s) /\ r[i - d] = q[i]

LEMMA QAtType ==
  ASSUME NEW q, Len(q) \in Nat, NEW s
  PROVE  QAt(q, s) \subseteq Nat \ {0}
BY DEF QAt

LEMMA SameKept ==
  ASSUME NEW q, NEW s, Len(q) \in Nat
  PROVE  Kept(q, q, s)
<1>1. \A i \in QAt(q, s) : i + 0 = i /\ i - 0 = i
  BY DEF QAt
<1> QED
  BY <1>1 DEF Kept

LEMMA AppendKept ==
  ASSUME NEW q \in Seq(PacketType), NEW p \in PacketType, NEW s, p.s # s
  PROVE  Kept(q, Append(q, p), s)
<1> DEFINE r == Append(q, p)
<1>1. /\ Len(q) \in Nat /\ Len(r) = Len(q) + 1 /\ r[Len(q) + 1] = p
      /\ \A i \in 1 .. Len(q) : r[i] = q[i]
  BY OneMore
<1> HIDE DEF r
<1>2. QAt(r, s) = QAt(q, s) /\ \A i \in QAt(q, s) : r[i] = q[i] /\ i + 0 = i /\ i - 0 = i
  BY <1>1 DEF QAt
<1> QED
  BY <1>2 DEF Kept, r

LEMMA AppendAdds ==
  ASSUME NEW q \in Seq(PacketType), NEW p \in PacketType
  PROVE  /\ QAt(Append(q, p), p.s) = QAt(q, p.s) \cup {Len(q) + 1}
         /\ Append(q, p)[Len(q) + 1] = p
         /\ \A i \in QAt(q, p.s) : Append(q, p)[i] = q[i]
<1> DEFINE r == Append(q, p)
<1>1. /\ Len(q) \in Nat /\ Len(r) = Len(q) + 1 /\ r[Len(q) + 1] = p
      /\ \A i \in 1 .. Len(q) : r[i] = q[i]
  BY OneMore
<1> HIDE DEF r
<1>2. QAt(r, p.s) = QAt(q, p.s) \cup {Len(q) + 1}
  BY <1>1 DEF QAt
<1>3. \A i \in QAt(q, p.s) : r[i] = q[i]
  BY <1>1 DEF QAt
<1> QED
  BY <1>1, <1>2, <1>3 DEF r

LEMMA TailFacts ==
  ASSUME NEW q \in Seq(PacketType), q # <<>>
  PROVE  /\ Len(q) \in Nat \ {0} /\ Head(q) = q[1] /\ Tail(q) \in Seq(PacketType)
         /\ Len(Tail(q)) = Len(q) - 1
         /\ \A i \in 1 .. Len(q) - 1 : Tail(q)[i] = q[i + 1]
OBVIOUS

\* What is left was there before ...
LEMMA TailFrom ==
  ASSUME NEW q \in Seq(PacketType), q # <<>>, NEW s
  PROVE  \A i \in QAt(Tail(q), s) : i + 1 \in QAt(q, s) /\ Tail(q)[i] = q[i + 1]
<1> DEFINE r == Tail(q)
<1>1. /\ Len(q) \in Nat \ {0} /\ Len(r) = Len(q) - 1
      /\ \A i \in 1 .. Len(q) - 1 : r[i] = q[i + 1]
  BY TailFacts
<1> HIDE DEF r
<1>2. \A i \in QAt(r, s) : i + 1 \in QAt(q, s) /\ r[i] = q[i + 1]
  BY <1>1 DEF QAt
<1> QED
  BY <1>2 DEF r

\* ... and all of it, but for the head.
LEMMA TailKept ==
  ASSUME NEW q \in Seq(PacketType), q # <<>>, NEW s, Head(q).s # s
  PROVE  Kept(q, Tail(q), s)
<1> DEFINE r == Tail(q)
<1>1. /\ Len(q) \in Nat \ {0} /\ Len(r) = Len(q) - 1 /\ q[1].s # s
      /\ \A i \in 1 .. Len(q) - 1 : r[i] = q[i + 1]
  BY TailFacts
<1>2. \A i \in QAt(r, s) : i + 1 \in QAt(q, s) /\ r[i] = q[i + 1]
  BY TailFrom
<1> HIDE DEF r
<1>3. ASSUME NEW i \in QAt(q, s) PROVE i - 1 \in QAt(r, s) /\ r[i - 1] = q[i]
  <2>1. i \in 1 .. Len(q) /\ q[i].s = s
    BY <1>1, <1>3 DEF QAt
  <2>2. i # 1
    BY <1>1, <2>1
  <2>3. i - 1 \in 1 .. Len(q) - 1 /\ (i - 1) + 1 = i
    BY <1>1, <2>1, <2>2
  <2>4. r[i - 1] = q[i]
    BY <1>1, <2>3
  <2> QED
    BY <1>1, <2>1, <2>3, <2>4 DEF QAt
<1> QED
  BY <1>2, <1>3 DEF Kept, r

LEMMA TailTakes ==
  ASSUME NEW q \in Seq(PacketType), q # <<>>, NEW s, Head(q).s = s,
         \A i, j \in QAt(q, s) : i = j
  PROVE  QAt(Tail(q), s) = {}
<1>1. 1 \in QAt(q, s)
  BY TailFacts DEF QAt
<1>2. \A i \in QAt(Tail(q), s) : i + 1 \in QAt(q, s) /\ i \in Nat \ {0}
  BY TailFrom, TailFacts, QAtType
<1> QED
  BY <1>1, <1>2

LEMMA ConcatKept ==
  ASSUME NEW q \in Seq(PacketType), NEW e \in Seq(PacketType), NEW s,
         \A i \in 1 .. Len(e) : e[i].s # s
  PROVE  Kept(q, q \o e, s)
<1> DEFINE r == q \o e
<1>1. /\ Len(q) \in Nat /\ Len(e) \in Nat /\ Len(r) = Len(q) + Len(e)
      /\ \A i \in 1 .. Len(q) + Len(e) : r[i] = IF i <= Len(q) THEN q[i] ELSE e[i - Len(q)]
  BY ConcatProperties
<1> HIDE DEF r
<1>2. \A i \in 1 .. Len(r) : i > Len(q) => r[i].s # s
  BY <1>1
<1>3. QAt(r, s) = QAt(q, s) /\ \A i \in QAt(q, s) : r[i] = q[i] /\ i + 0 = i /\ i - 0 = i
  BY <1>1, <1>2 DEF QAt
<1> QED
  BY <1>3 DEF Kept, r

(***************************************************************************)
(* The packets of stop in a queue, those with no key.                      *)
(***************************************************************************)
Keyless(q) == {i \in 1 .. Len(q) : q[i].key = "null"}

LEMMA KeylessFinite ==
  ASSUME NEW q, Len(q) \in Nat
  PROVE  IsFiniteSet(Keyless(q)) /\ Cardinality(Keyless(q)) \in Nat
<1>1. IsFiniteSet(1 .. Len(q))
  BY FS_Interval
<1>2. Keyless(q) \subseteq 1 .. Len(q)
  BY DEF Keyless
<1> QED
  BY <1>1, <1>2, FS_Subset, FS_CardinalityType

LEMMA AppendKeyless ==
  ASSUME NEW q \in Seq(PacketType), NEW p \in PacketType
  PROVE  Cardinality(Keyless(Append(q, p)))
           = Cardinality(Keyless(q)) + (IF p.key = "null" THEN 1 ELSE 0)
<1> DEFINE r == Append(q, p)
           n == Len(q)
<1>1. n \in Nat /\ Len(r) = n + 1 /\ r[n + 1] = p /\ \A i \in 1 .. n : r[i] = q[i]
  BY OneMore
<1> HIDE DEF r
<1>2. Keyless(r) = IF p.key = "null" THEN Keyless(q) \cup {n + 1} ELSE Keyless(q)
  <2> HIDE DEF n
  <2>1. ASSUME NEW i PROVE i \in Keyless(r) <=> i \in Keyless(q) \/ (i = n + 1 /\ p.key = "null")
    BY <1>1 DEF Keyless, n
  <2> QED BY <2>1
<1>3. n + 1 \notin Keyless(q)
  BY <1>1 DEF Keyless
<1>4. IsFiniteSet(Keyless(q)) /\ Cardinality(Keyless(q)) \in Nat
  BY <1>1, KeylessFinite
<1>5. Cardinality(Keyless(q) \cup {n + 1}) = Cardinality(Keyless(q)) + 1
  BY <1>3, <1>4, FS_AddElement
<1> QED
  BY <1>2, <1>4, <1>5 DEF r

LEMMA TailKeyless ==
  ASSUME NEW q \in Seq(PacketType), q # <<>>
  PROVE  Cardinality(Keyless(q))
           = Cardinality(Keyless(Tail(q))) + (IF Head(q).key = "null" THEN 1 ELSE 0)
<1> DEFINE r == Tail(q)
           A == Keyless(r)
           B == {i \in Keyless(q) : i # 1}
           f == [i \in A |-> i + 1]
<1>1. /\ Len(q) \in Nat \ {0} /\ Len(r) = Len(q) - 1 /\ Head(q) = q[1]
      /\ \A i \in 1 .. Len(q) - 1 : r[i] = q[i + 1]
  BY TailFacts
<1> HIDE DEF r
<1>2. \A i \in A : i \in Nat /\ i + 1 \in B
  BY <1>1 DEF Keyless
<1>3. \A j \in B : j - 1 \in A /\ (j - 1) + 1 = j
  <2> SUFFICES ASSUME NEW j \in B PROVE j - 1 \in A /\ (j - 1) + 1 = j
    OBVIOUS
  <2>1. j \in 1 .. Len(q) /\ j # 1 /\ q[j].key = "null"
    BY DEF Keyless
  <2>2. j - 1 \in 1 .. Len(q) - 1 /\ (j - 1) + 1 = j
    BY <1>1, <2>1
  <2>3. r[j - 1] = q[j]
    BY <1>1, <2>2
  <2> QED
    BY <1>1, <2>1, <2>2, <2>3 DEF Keyless
<1>4. f \in Bijection(A, B)
  <2> HIDE DEF A, B
  <2>1. f \in [A -> B] /\ \A i \in A : f[i] = i + 1
    BY <1>2
  <2>2. \A i, j \in A : f[i] = f[j] => i = j
    BY <1>2, <2>1
  <2>3. \A j \in B : \E i \in A : f[i] = j
    BY <1>3, <2>1
  <2> HIDE DEF f
  <2>4. f \in Injection(A, B)
    BY <2>1, <2>2, Zenon DEF Injection, IsInjective
  <2>5. f \in Surjection(A, B)
    BY <2>1, <2>3 DEF Surjection
  <2> QED
    BY <2>4, <2>5 DEF Bijection
<1>5. IsFiniteSet(A) /\ Cardinality(A) \in Nat
  BY <1>1, KeylessFinite
<1>6. IsFiniteSet(B) /\ Cardinality(B) = Cardinality(A)
  <2> HIDE DEF A, B, f
  <2>1. ExistsBijection(A, B)
    BY <1>4 DEF ExistsBijection
  <2> QED BY <1>5, <2>1, FS_Bijection
<1>7. Keyless(q) = IF Head(q).key = "null" THEN B \cup {1} ELSE B
  BY <1>1 DEF Keyless
<1>8. Cardinality(B \cup {1}) = Cardinality(B) + 1
  BY <1>6, FS_AddElement
<1> QED
  <2> HIDE DEF A, B
  <2> QED BY <1>5, <1>6, <1>7, <1>8 DEF A, r

LEMMA ConcatKeyless ==
  ASSUME NEW q \in Seq(PacketType), NEW e \in Seq(PacketType),
         \A i \in 1 .. Len(e) : e[i].key # "null"
  PROVE  Keyless(q \o e) = Keyless(q)
<1> DEFINE r == q \o e
<1>1. /\ Len(q) \in Nat /\ Len(e) \in Nat /\ Len(r) = Len(q) + Len(e)
      /\ \A i \in 1 .. Len(q) + Len(e) : r[i] = IF i <= Len(q) THEN q[i] ELSE e[i - Len(q)]
  BY ConcatProperties
<1> HIDE DEF r
<1>2. \A i \in 1 .. Len(r) : i > Len(q) => r[i].key # "null"
  BY <1>1
<1>3. Keyless(r) = Keyless(q)
  BY <1>1, <1>2 DEF Keyless
<1> QED
  BY <1>3 DEF r

(***************************************************************************)
(* The receive buffer.                                                     *)
(***************************************************************************)

LEMMA AddZero ==
  ASSUME NEW b \in BufferType
  PROVE  AddWritePos(b, 0) = b
<1>1. /\ b.write_pos \in 0 .. data_len /\ b.write_pos + 0 = b.write_pos /\ data_len \in Nat
      /\ b = [data |-> b.data, read_pos |-> b.read_pos, write_pos |-> b.write_pos]
  BY BufferAssumption DEF BufferType
<1>2. [b EXCEPT !.write_pos = b.write_pos] = b
  BY <1>1
<1> QED
  BY <1>1, <1>2 DEF AddWritePos

LEMMA AddWriteType ==
  ASSUME NEW b \in BufferType, NEW n \in 0 .. data_len
  PROVE  /\ AddWritePos(b, n) \in BufferType
         /\ AddWritePos(b, n).read_pos = b.read_pos
         /\ n <= WriteValid(b) => AddWritePos(b, n).write_pos = b.write_pos + n
  BY BufferAssumption DEF AddWritePos, BufferType, WriteValid

LEMMA AddReadType ==
  ASSUME NEW b \in BufferType, NEW n \in 0 .. data_len
  PROVE  AddReadPos(b, n) \in BufferType
  BY BufferAssumption DEF AddReadPos, BufferType

LEMMA UsedType ==
  ASSUME NEW b \in BufferType, NEW n \in 0 .. data_len
  PROVE  Used(b, n) \in Seq(Bytes)
<1> DEFINE m == AddReadPos(b, n).read_pos - b.read_pos
<1>1. /\ b.data \in [Cells -> Bytes] /\ b.read_pos \in 0 .. data_len /\ data_len \in Nat
  BY BufferAssumption DEF BufferType
<1>2. m \in Nat /\ b.read_pos + m <= data_len
  BY <1>1 DEF AddReadPos, BufferType
<1> HIDE DEF m
<1>3. \A i \in 1 .. m : b.data[b.read_pos + i - 1] \in Bytes
  <2> TAKE i \in 1 .. m
  <2>1. b.read_pos + i - 1 \in Cells
    BY <1>1, <1>2 DEF Cells
  <2> QED BY <1>1, <2>1
<1>4. [i \in 1 .. m |-> b.data[b.read_pos + i - 1]] \in Seq(Bytes)
  BY <1>2, <1>3
<1> QED
  BY <1>4 DEF Used, m

\* The logic used the first n unread bytes: they and the rest are the content.
LEMMA ReadSplits ==
  ASSUME NEW b, Orderly(b), NEW n \in 0 .. ReadValid(b)
  PROVE  /\ Orderly(AddReadPos(b, n))
         /\ Content(b) = Used(b, n) \o Content(AddReadPos(b, n))
         /\ Content(AddReadPos(b, n)) \in Seq(Bytes) /\ Used(b, n) \in Seq(Bytes)
<1> DEFINE c == AddReadPos(b, n)
           r == b.read_pos
           v == b.write_pos - b.read_pos
<1>1. /\ b.data \in [Cells -> Bytes] /\ r \in 0 .. data_len /\ b.write_pos \in 0 .. data_len
      /\ v \in Nat /\ n \in 0 .. v /\ data_len \in Nat /\ r + v = b.write_pos /\ r \in Nat
      /\ b = [data |-> b.data, read_pos |-> r, write_pos |-> b.write_pos]
  BY BufferFields DEF ReadValid
<1>2. c = [data |-> b.data, read_pos |-> r + n, write_pos |-> b.write_pos]
  BY <1>1 DEF AddReadPos
<1> HIDE DEF c
<1>3. c.data = b.data /\ c.read_pos = r + n /\ c.write_pos = b.write_pos
  BY <1>2
<1>4. Orderly(c)
  <2>1. r + n \in 0 .. data_len /\ r + n <= b.write_pos
    BY <1>1
  <2> QED BY <1>1, <1>2, <2>1 DEF Orderly, BufferType
<1>5. /\ Content(b) \in Seq(Bytes) /\ Len(Content(b)) = v
      /\ \A i \in 1 .. v : Content(b)[i] = b.data[r + i - 1]
  BY ContentIs
<1>6. /\ Content(c) \in Seq(Bytes) /\ Len(Content(c)) = v - n
      /\ \A i \in 1 .. v - n : Content(c)[i] = b.data[r + n + i - 1]
  <2>1. c.write_pos - c.read_pos = v - n
    BY <1>1, <1>3
  <2> QED BY <1>3, <1>4, <2>1, ContentIs
<1>7. /\ Used(b, n) \in Seq(Bytes) /\ Len(Used(b, n)) = n
      /\ \A i \in 1 .. n : Used(b, n)[i] = b.data[r + i - 1]
  <2>1. c.read_pos - b.read_pos = n
    BY <1>1, <1>3
  <2>2. Used(b, n) = [i \in 1 .. n |-> b.data[r + i - 1]]
    BY <2>1 DEF Used, c
  <2>3. n \in 0 .. data_len /\ b \in BufferType
    BY <1>1 DEF Orderly
  <2>4. Used(b, n) \in Seq(Bytes)
    BY <2>3, UsedType
  <2>5. n \in Nat
    BY <1>1
  <2> QED BY <2>2, <2>4, <2>5
<1> DEFINE x == Content(b)
           y == Used(b, n)
           z == Content(c)
           w == y \o z
<1> HIDE DEF x, y, z, v
<1>8. /\ w \in Seq(Bytes) /\ Len(w) = v
      /\ \A i \in 1 .. v : w[i] = IF i <= n THEN y[i] ELSE z[i - n]
  <2>1. n + (v - n) = v
    BY <1>1
  <2>2. y \in Seq(Bytes) /\ z \in Seq(Bytes) /\ Len(y) = n /\ Len(z) = v - n
    BY <1>6, <1>7 DEF y, z
  <2>3. /\ w \in Seq(Bytes) /\ Len(w) = Len(y) + Len(z)
        /\ \A i \in 1 .. Len(y) + Len(z) : w[i] = IF i <= Len(y) THEN y[i] ELSE z[i - Len(y)]
    BY <2>2, ConcatProperties
  <2> HIDE DEF w
  <2> QED BY <2>1, <2>2, <2>3
<1> HIDE DEF w
<1>9. ASSUME NEW i \in 1 .. v PROVE x[i] = w[i]
  <2>1. x[i] = b.data[r + i - 1] /\ w[i] = IF i <= n THEN y[i] ELSE z[i - n]
    BY <1>5, <1>8 DEF x
  <2>2. CASE i <= n
    <3>1. i \in 1 .. n
      BY <1>1, <2>2
    <3> QED BY <2>1, <2>2, <3>1, <1>7 DEF y
  <2>3. CASE ~(i <= n)
    <3>1. i - n \in 1 .. v - n /\ r + n + (i - n) - 1 = r + i - 1
      BY <1>1, <2>3
    <3>2. z[i - n] = b.data[r + n + (i - n) - 1]
      BY <1>6, <3>1 DEF z
    <3> QED BY <2>1, <2>3, <3>1, <3>2
  <2> QED BY <2>2, <2>3
<1>10. x = w
  BY <1>5, <1>8, <1>9 DEF x
<1> QED
  BY <1>4, <1>6, <1>7, <1>10 DEF x, y, z, w, c

LEMMA CompactedIs ==
  ASSUME NEW b \in BufferType
  PROVE  /\ Compacted(b) \in BufferType
         /\ Orderly(b) => /\ Orderly(Compacted(b)) /\ Content(Compacted(b)) = Content(b)
                          /\ Compacted(b).write_pos = data_len => Compacted(b).read_pos = 0
<1>1. CASE b.write_pos # data_len
  <2>1. Compacted(b) = b
    BY <1>1 DEF Compacted
  <2> QED BY <1>1, <2>1
<1>2. CASE b.write_pos = data_len
  <2>1. Orderly(b) /\ data_len \in Nat /\ b.read_pos \in 0 .. data_len
    BY <1>2, BufferAssumption DEF Orderly, BufferType
  <2>2. Compacted(b) = AdjustToHead(b)
    BY <1>2 DEF Compacted
  <2>3. Orderly(AdjustToHead(b)) /\ Content(AdjustToHead(b)) = Content(b)
    BY <2>1, AdjustKeeps
  <2>4. AdjustToHead(b).read_pos = 0
    BY <2>1 DEF AdjustToHead
  <2> QED BY <2>2, <2>3, <2>4 DEF Orderly
<1> QED
  BY <1>1, <1>2

\* Bytes come to lie in the buffer where the receive was told to put them.
LEMMA FilledType ==
  ASSUME NEW b \in BufferType, NEW at \in 0 .. data_len, NEW bytes \in Seq(Bytes)
  PROVE  Fill([b EXCEPT !.write_pos = at], bytes).data \in [Cells -> Bytes]
<1> DEFINE a == [b EXCEPT !.write_pos = at]
           d == [i \in Cells |-> IF i >= at /\ i < at + Len(bytes)
                                 THEN bytes[i - at + 1] ELSE b.data[i]]
<1>1. b.data \in [Cells -> Bytes] /\ at \in Nat /\ Len(bytes) \in Nat /\ data_len \in Nat
  BY BufferAssumption DEF BufferType
<1>2. a = [data |-> b.data, read_pos |-> b.read_pos, write_pos |-> at]
  BY DEF BufferType
<1> HIDE DEF a
<1>3. a.data = b.data /\ a.write_pos = at
  BY <1>2
<1>4. Fill(a, bytes) = [a EXCEPT !.data = d]
  BY <1>3 DEF Fill
<1>5. d \in [Cells -> Bytes]
  <2>1. \A i \in Cells : i >= at /\ i < at + Len(bytes) => bytes[i - at + 1] \in Bytes
    <3> TAKE i \in Cells
    <3> HAVE i >= at /\ i < at + Len(bytes)
    <3>1. i - at + 1 \in 1 .. Len(bytes)
      BY <1>1, SMTT(60) DEF Cells
    <3> QED
      BY <3>1
  <2>2. \A i \in Cells : b.data[i] \in Bytes
    BY <1>1
  <2> QED
    BY <2>1, <2>2
<1> HIDE DEF d
<1>6. [a EXCEPT !.data = d] = [data |-> d, read_pos |-> b.read_pos, write_pos |-> at]
  BY <1>2
<1> QED
  BY <1>4, <1>5, <1>6 DEF a

\* One byte after the other, a stream.
LEMMA FirstBytes ==
  ASSUME NEW s \in Seq(Bytes), NEW a \in Nat, NEW n \in Nat, a + n <= Len(s)
  PROVE  /\ SubSeq(s, 1, a) \in Seq(Bytes)
         /\ SubSeq(s, a + 1, a + n) \in Seq(Bytes) /\ Len(SubSeq(s, a + 1, a + n)) = n
         /\ SubSeq(s, 1, a) \o SubSeq(s, a + 1, a + n) = SubSeq(s, 1, a + n)
<1> DEFINE x == SubSeq(s, 1, a)
           y == SubSeq(s, a + 1, a + n)
           z == SubSeq(s, 1, a + n)
<1>0. Len(s) \in Nat /\ \A i \in 1 .. Len(s) : s[i] \in Bytes
  BY ElementOfSeq
<1>1. x \in Seq(Bytes) /\ Len(x) = a /\ \A i \in 1 .. a : x[i] = s[i]
  <2>1. 1 \in Int /\ a \in Int /\ \A i \in 1 .. a : s[i] \in Bytes
    BY <1>0
  <2>2. /\ x \in Seq(Bytes) /\ Len(x) = IF 1 <= a THEN a - 1 + 1 ELSE 0
        /\ \A i \in 1 .. a - 1 + 1 : x[i] = s[1 + i - 1]
    BY <2>1, SubSeqProperties
  <2> HIDE DEF x
  <2> QED BY <2>2
<1>2. y \in Seq(Bytes) /\ Len(y) = n /\ \A i \in 1 .. n : y[i] = s[a + i]
  <2>1. a + 1 \in Int /\ a + n \in Int /\ \A i \in a + 1 .. a + n : s[i] \in Bytes
    BY <1>0
  <2>2. /\ y \in Seq(Bytes) /\ Len(y) = IF a + 1 <= a + n THEN (a + n) - (a + 1) + 1 ELSE 0
        /\ \A i \in 1 .. (a + n) - (a + 1) + 1 : y[i] = s[a + 1 + i - 1]
    BY <2>1, SubSeqProperties
  <2> HIDE DEF y
  <2>3. (a + n) - (a + 1) + 1 = n /\ \A i \in 1 .. n : a + 1 + i - 1 = a + i
    OBVIOUS
  <2> QED BY <2>2, <2>3
<1>3. z \in Seq(Bytes) /\ Len(z) = a + n /\ \A i \in 1 .. a + n : z[i] = s[i]
  <2>1. 1 \in Int /\ a + n \in Int /\ \A i \in 1 .. a + n : s[i] \in Bytes
    BY <1>0
  <2>2. /\ z \in Seq(Bytes) /\ Len(z) = IF 1 <= a + n THEN a + n - 1 + 1 ELSE 0
        /\ \A i \in 1 .. a + n - 1 + 1 : z[i] = s[1 + i - 1]
    BY <2>1, SubSeqProperties
  <2> HIDE DEF z
  <2> QED BY <2>2
<1> DEFINE w == x \o y
<1> HIDE DEF x, y, z
<1>4. /\ w \in Seq(Bytes) /\ Len(w) = a + n
      /\ \A i \in 1 .. a + n : w[i] = IF i <= a THEN x[i] ELSE y[i - a]
  BY <1>1, <1>2, ConcatProperties, ZenonT(60)
<1> HIDE DEF w
<1>5. ASSUME NEW i \in 1 .. a + n PROVE w[i] = z[i]
  <2>1. CASE i <= a
    <3>1. i \in 1 .. a
      BY <2>1
    <3> QED BY <1>1, <1>3, <1>4, <2>1, <3>1
  <2>2. CASE ~(i <= a)
    <3>1. i - a \in 1 .. n /\ a + (i - a) = i
      BY <2>2
    <3> QED BY <1>2, <1>3, <1>4, <2>2, <3>1
  <2> QED BY <2>1, <2>2
<1>6. w = z
  BY <1>3, <1>4, <1>5
<1> QED
  BY <1>1, <1>2, <1>6 DEF w, x, y, z

(***************************************************************************)
(* The invariant by session, and the steps that leave a session alone.     *)
(***************************************************************************)

ActiveOf(s) ==
  /\ conn[s] = entered[s] /\ conn[s] # None /\ ~leaving[s]
  /\ OneAtWork(s) /\ BufferInv(s) /\ Attended(s)
LifeOf(s) == s \notin mixed => Between(s) /\ (active[s] => ActiveOf(s))

LEMMA LifeIs == LifeInv <=> \A s \in Sessions : LifeOf(s)
  BY DEF LifeInv, LifeOf, ActiveOf

LEMMA LifeIsNext == LifeInv' <=> \A s \in Sessions : LifeOf(s)'
  BY DEF LifeInv, LifeOf, ActiveOf

PacketsStill(s) ==
  /\ Kept(queue, queue', s)
  /\ \A w \in Workers :
       /\ hand'[w].s = s <=> hand[w].s = s
       /\ hand[w].s = s => hand'[w] = hand[w] /\ wpc'[w] = wpc[w] /\ valid'[w] = valid[w]
FieldsStill(s) ==
  /\ conn'[s] = conn[s] /\ entered'[s] = entered[s] /\ active'[s] = active[s]
  /\ leaving'[s] = leaving[s] /\ accepting'[s] = accepting[s] /\ recvs'[s] = recvs[s]
  /\ recv_buffer'[s] = recv_buffer[s]
BytesStill(s) ==
  \A c \in ConnsOf(s) : sentbytes'[c] = sentbytes[c] /\ consumed'[c] = consumed[c]
MarksStill(s) ==
  /\ s \in mixed => s \in mixed'
  /\ s \in declined => s \in declined'
  /\ (\E t \in Threads : resetting[t] = s) => \E t \in Threads : resetting'[t] = s

\* What the packets of a session are read for.
Holder(w, c) == Waiting(hand[w]) /\ Untaken(w) /\ hand[w].conn = c
LEMMA AcceptsIs ==
  ASSUME NEW s, NEW c
  PROVE  c \in Accepts(s) <=> \/ \E i \in Queued(s) : Waiting(queue[i]) /\ queue[i].conn = c
                              \/ \E w \in Holders(s) : Holder(w, c)
  BY DEF Accepts, Holder

LEMMA AddingIs ==
  ASSUME NEW s, NEW n
  PROVE  n \in Adding(s) <=>
           \/ \E i \in Queued(s) : queue[i].op = "recv" /\ queue[i].n = n
           \/ \E w \in Holders(s) : hand[w].op = "recv" /\ Untaken(w) /\ hand[w].n = n
  BY DEF Adding, Queued, Holders, Untaken

LEMMA PacketsSeen ==
  ASSUME NEW s, PacketsStill(s)
  PROVE  /\ Holders(s)' = Holders(s) /\ Accepts(s)' = Accepts(s) /\ Adding(s)' = Adding(s)
         /\ Queued(s)' = {} <=> Queued(s) = {}
         /\ (\A i, j \in Queued(s) : i = j /\ i \in Nat) => \A i, j \in Queued(s)' : i = j
         /\ \A i \in Queued(s)' : \E j \in Queued(s) : queue'[i] = queue[j]
<1>1. PICK d \in {0, 1} :
        /\ \A i \in Queued(s)' : i + d \in Queued(s) /\ queue'[i] = queue[i + d]
        /\ \A i \in Queued(s) : i - d \in Queued(s)' /\ queue'[i - d] = queue[i]
  BY DEF PacketsStill, Kept, QAt, Queued
<1>2. Holders(s)' = Holders(s)
  BY DEF PacketsStill, Holders
<1>3. \A w \in Holders(s) : hand'[w] = hand[w] /\ wpc'[w] = wpc[w]
  BY DEF PacketsStill, Holders
<1>4. ASSUME NEW c PROVE c \in Accepts(s)' <=> c \in Accepts(s)
  <2>1. c \in Accepts(s)' <=> \/ \E i \in Queued(s)' : Waiting(queue'[i]) /\ queue'[i].conn = c
                              \/ \E w \in Holders(s)' : Holder(w, c)'
    BY DEF Accepts, Holder, Waiting
  <2>2. (\E i \in Queued(s)' : Waiting(queue'[i]) /\ queue'[i].conn = c)
          <=> \E i \in Queued(s) : Waiting(queue[i]) /\ queue[i].conn = c
    BY <1>1
  <2>3. (\E w \in Holders(s)' : Holder(w, c)') <=> \E w \in Holders(s) : Holder(w, c)
    BY <1>2, <1>3 DEF Holder, Waiting, Untaken
  <2> QED BY <2>1, <2>2, <2>3, AcceptsIs
<1>5. ASSUME NEW n PROVE n \in Adding(s)' <=> n \in Adding(s)
  <2>1. n \in Adding(s)' <=>
           \/ \E i \in Queued(s)' : queue'[i].op = "recv" /\ queue'[i].n = n
           \/ \E w \in Holders(s)' : hand'[w].op = "recv" /\ Untaken(w)' /\ hand'[w].n = n
    BY DEF Adding, Queued, Holders, Untaken
  <2>2. (\E i \in Queued(s)' : queue'[i].op = "recv" /\ queue'[i].n = n)
          <=> \E i \in Queued(s) : queue[i].op = "recv" /\ queue[i].n = n
    BY <1>1
  <2>3. (\E w \in Holders(s)' : hand'[w].op = "recv" /\ Untaken(w)' /\ hand'[w].n = n)
          <=> \E w \in Holders(s) : hand[w].op = "recv" /\ Untaken(w) /\ hand[w].n = n
    BY <1>2, <1>3 DEF Untaken
  <2> QED BY <2>1, <2>2, <2>3, AddingIs
<1>6. Queued(s)' = {} <=> Queued(s) = {}
  BY <1>1
<1>7. ASSUME \A i, j \in Queued(s) : i = j /\ i \in Nat, NEW i \in Queued(s)', NEW j \in Queued(s)'
      PROVE  i = j
  <2>1. i + d = j + d
    BY <1>1, <1>7
  <2>2. i \in Int /\ j \in Int
    BY DEF Queued
  <2> QED BY <2>1, <2>2
<1> QED
  BY <1>1, <1>2, <1>4, <1>5, <1>6, <1>7

LEMMA ConnsSeen ==
  ASSUME NEW s, PacketsStill(s), FieldsStill(s)
  PROVE  ConnsOf(s)' = ConnsOf(s)
BY PacketsSeen DEF ConnsOf, FieldsStill

LEMMA OneAtWorkStill ==
  ASSUME NEW s, PacketsStill(s), FieldsStill(s), OneAtWork(s)
  PROVE  OneAtWork(s)'
<1>1. \A i \in Queued(s) : i \in Nat
  BY DEF Queued
<1>2. /\ Holders(s)' = Holders(s) /\ recvs'[s] = recvs[s]
      /\ Queued(s)' = {} <=> Queued(s) = {}
      /\ \A i, j \in Queued(s)' : i = j
      /\ \A i \in Queued(s)' : queue'[i].op = "recv"
  BY <1>1, PacketsSeen DEF FieldsStill, OneAtWork
<1>3. \A w \in Holders(s) : hand'[w] = hand[w] /\ wpc'[w] = wpc[w]
  BY DEF PacketsStill, Holders
<1> QED
  BY <1>2, <1>3 DEF OneAtWork

LEMMA HoldsStill ==
  ASSUME NEW s, FieldsStill(s), BytesStill(s), entered[s] # None, NEW n
  PROVE  Holds(s, n)' <=> Holds(s, n)
<1>1. entered[s] \in ConnsOf(s)
  BY DEF ConnsOf
<1> QED
  BY <1>1 DEF Holds, FieldsStill, BytesStill

LEMMA BufferStill ==
  ASSUME NEW s, PacketsStill(s), FieldsStill(s), BytesStill(s), entered[s] # None, BufferInv(s)
  PROVE  BufferInv(s)'
<1>1. Holders(s)' = Holders(s) /\ Adding(s)' = Adding(s)
  BY PacketsSeen
<1>2. \A w \in Holders(s) : wpc'[w] = wpc[w] /\ valid'[w] = valid[w]
  BY DEF PacketsStill, Holders
<1>3. recv_buffer'[s] = recv_buffer[s] /\ recvs'[s] = recvs[s]
  BY DEF FieldsStill
<1>4. \A n : Holds(s, n)' <=> Holds(s, n)
  BY HoldsStill
<1> QED
  BY <1>1, <1>2, <1>3, <1>4 DEF BufferInv

LEMMA LifeStill ==
  ASSUME NEW s, LifeOf(s), PacketsStill(s), FieldsStill(s), BytesStill(s), MarksStill(s),
         None \notin Accepts(s)
  PROVE  LifeOf(s)'
<1> SUFFICES ASSUME s \notin mixed'
             PROVE  Between(s)' /\ (active'[s] => ActiveOf(s)')
  BY DEF LifeOf
<1>1. Between(s) /\ (active[s] => ActiveOf(s))
  BY DEF MarksStill, LifeOf
<1>2. Between(s)'
  <2>1. \A c \in Accepts(s) : Untouched(c)' <=> Untouched(c)
    BY DEF Untouched, BytesStill, ConnsOf
  <2>2. Accepts(s)' = Accepts(s)
    BY PacketsSeen
  <2> QED BY <1>1, <2>1, <2>2 DEF Between, FieldsStill
<1>3. ASSUME active'[s] PROVE ActiveOf(s)'
  <2>1. ActiveOf(s)
    BY <1>1, <1>3 DEF FieldsStill
  <2>2. conn'[s] = entered'[s] /\ conn'[s] # None /\ ~leaving'[s] /\ entered[s] # None
    BY <2>1 DEF FieldsStill, ActiveOf
  <2>3. OneAtWork(s)' /\ BufferInv(s)'
    BY <2>1, <2>2, OneAtWorkStill, BufferStill DEF ActiveOf
  <2>4. Attended(s)'
    <3>1. Holders(s)' = Holders(s) /\ (Queued(s)' = {} <=> Queued(s) = {})
      BY PacketsSeen
    <3>2. Attended(s)
      BY <2>1 DEF ActiveOf
    <3> QED
      BY <3>1, <3>2 DEF Attended, FieldsStill, MarksStill
  <2> QED
    BY <2>2, <2>3, <2>4 DEF ActiveOf
<1> QED
  BY <1>2, <1>3

(***************************************************************************)
(* A packet joins the queue, and the workers stay as they are.             *)
(***************************************************************************)
HandsStill == UNCHANGED workVars

LEMMA AppendStill ==
  ASSUME queue \in Seq(PacketType), NEW p \in PacketType, queue' = Append(queue, p),
         HandsStill, NEW s, s # p.s
  PROVE  PacketsStill(s)
BY AppendKept DEF PacketsStill, HandsStill, workVars

LEMMA AppendOwn ==
  ASSUME queue \in Seq(PacketType), NEW p \in PacketType, queue' = Append(queue, p),
         HandsStill
  PROVE  /\ Queued(p.s)' = Queued(p.s) \cup {Len(queue) + 1}
         /\ queue'[Len(queue) + 1] = p
         /\ \A i \in Queued(p.s) : queue'[i] = queue[i]
         /\ Holders(p.s)' = Holders(p.s)
         /\ Accepts(p.s)' = Accepts(p.s) \cup (IF Waiting(p) THEN {p.conn} ELSE {})
<1> DEFINE n == Len(queue) + 1
           s == p.s
<1>1. /\ Queued(s)' = Queued(s) \cup {n}
      /\ queue'[n] = p /\ \A i \in Queued(s) : queue'[i] = queue[i]
  BY AppendAdds DEF Queued, QAt
<1>2. Holders(s)' = Holders(s) /\ \A w : Untaken(w)' <=> Untaken(w)
  BY DEF Holders, HandsStill, workVars, Untaken
<1> HIDE DEF n, s
<1>3. ASSUME NEW c
      PROVE  c \in Accepts(s)' <=> c \in Accepts(s) \/ (Waiting(p) /\ c = p.conn)
  <2>1. c \in Accepts(s)' <=> \/ \E i \in Queued(s)' : Waiting(queue'[i]) /\ queue'[i].conn = c
                              \/ \E w \in Holders(s)' : Holder(w, c)'
    BY DEF Accepts, Holder, Waiting
  <2>2. (\E i \in Queued(s)' : Waiting(queue'[i]) /\ queue'[i].conn = c)
          <=> \/ \E i \in Queued(s) : Waiting(queue[i]) /\ queue[i].conn = c
              \/ Waiting(p) /\ p.conn = c
    BY <1>1
  <2>3. \A w : Holder(w, c)' <=> Holder(w, c)
    BY <1>2 DEF Holder, Waiting, HandsStill, workVars
  <2> QED BY <1>2, <2>1, <2>2, <2>3, AcceptsIs
<1>4. Accepts(s)' = Accepts(s) \cup (IF Waiting(p) THEN {p.conn} ELSE {})
  BY <1>3
<1> QED
  BY <1>1, <1>2, <1>4 DEF n, s

LEMMA PacketStillOK ==
  ASSUME listen_key' = listen_key, NEW p, PacketOK(p), NEW i, queue'[i] = p
  PROVE  PacketOK(queue[i])'
BY DEF PacketOK

LEMMA QueueAppended ==
  ASSUME QueueInv, NEW p \in PacketType, PacketOK(p), p.key # "null",
         queue' = Append(queue, p), UNCHANGED stopVars
  PROVE  QueueInv'
<1>1. /\ queue \in Seq(PacketType) /\ close_num + Cardinality(Uncounted) = closing
      /\ \A i \in 1 .. Len(queue) : PacketOK(queue[i])
      /\ (spc = "running" => closing = 0) /\ (spc = "closing" => closing < max_num)
      /\ listen_key = "exit" => spc \in {"joining", "stopped"}
  BY DEF QueueInv
<1>2. /\ listen_key' = listen_key /\ close_num' = close_num /\ spc' = spc /\ closing' = closing
  BY DEF stopVars
<1>3. /\ queue' \in Seq(PacketType) /\ Len(queue') = Len(queue) + 1 /\ Len(queue) \in Nat
      /\ queue'[Len(queue) + 1] = p /\ \A i \in 1 .. Len(queue) : queue'[i] = queue[i]
  BY <1>1, OneMore
<1>4. Cardinality(Uncounted)' = Cardinality(Uncounted)
  <2>1. Cardinality(Keyless(queue')) = Cardinality(Keyless(queue)) + 0
    BY <1>1, AppendKeyless
  <2>2. Cardinality(Keyless(queue)) \in Nat
    BY <1>3, KeylessFinite
  <2>3. Cardinality(Keyless(queue')) = Cardinality(Keyless(queue))
    BY <2>1, <2>2
  <2> QED BY <2>3 DEF Uncounted, Keyless
<1>5. ASSUME NEW i \in 1 .. Len(queue')
      PROVE  PacketOK(queue[i])'
  <2>1. CASE i = Len(queue) + 1
    BY <1>2, <1>3, <2>1, PacketStillOK
  <2>2. CASE i # Len(queue) + 1
    <3>1. i \in 1 .. Len(queue)
      BY <1>3, <2>2
    <3>2. queue'[i] = queue[i] /\ PacketOK(queue[i])
      BY <3>1, <1>1, <1>3
    <3> QED BY <3>2, <1>2, PacketStillOK
  <2> QED BY <2>1, <2>2
<1> QED
  BY <1>1, <1>2, <1>3, <1>4, <1>5 DEF QueueInv

LEMMA QueueStill ==
  ASSUME QueueInv, queue' = queue, UNCHANGED stopVars
  PROVE  QueueInv'
BY DEF QueueInv, stopVars, PacketOK, Uncounted

LEMMA HandStill ==
  ASSUME HandInv, HandsStill, listen_key' = listen_key
  PROVE  HandInv'
BY DEF HandInv, HandsStill, workVars, PacketOK

LEMMA AcceptsConns ==
  ASSUME QueueInv, HandInv, NEW s
  PROVE  Accepts(s) \subseteq Conns /\ None \notin Accepts(s)
<1>1. ASSUME NEW p \in PacketType, PacketOK(p), Waiting(p)
      PROVE  p.conn \in Conns /\ p.conn # None
  BY <1>1 DEF PacketType, PacketOK, Waiting
<1>2. \A i \in Queued(s) : queue[i] \in PacketType /\ PacketOK(queue[i])
  BY DEF QueueInv, Queued
<1>3. \A w \in Holders(s) : hand[w] \in PacketType /\ PacketOK(hand[w])
  BY DEF HandInv, Holders
<1>4. ASSUME NEW c \in Accepts(s) PROVE c \in Conns /\ c # None
  BY <1>1, <1>2, <1>3, AcceptsIs DEF Holder
<1> QED
  BY <1>4

(***************************************************************************)
(* The sessions together.                                                  *)
(***************************************************************************)
Still(s) == PacketsStill(s) /\ FieldsStill(s) /\ BytesStill(s) /\ MarksStill(s)

\* No two sessions have to do with one connection.
LEMMA Apart ==
  ASSUME OwnerInv, NEW s \in Sessions, NEW a \in Sessions, s # a, NEW c \in ConnsOf(s)
  PROVE  c \in Conns /\ c \notin backlog /\ c # None /\ c \notin ConnsOf(a)
BY DEF OwnerInv, ConnsOf

LEMMA Assemble ==
  ASSUME IocpInv, NEW a,
         \A s \in Sessions : s # a => Still(s),
         a \in Sessions => LifeOf(a)' /\ ConnsOf(a)' \subseteq ConnsOf(a),
         backlog' = backlog, sentbytes' \in [Conns -> Nat],
         \A c \in Conns : sentbytes'[c] <= Len(Stream[c]),
         \A c \in backlog : Untouched(c)'
  PROVE  OwnerInv' /\ LifeInv'
<1>1. \A s \in Sessions : None \notin Accepts(s)
  BY AcceptsConns DEF IocpInv
<1>2. \A s \in Sessions : LifeOf(s)
  BY LifeIs DEF IocpInv
<1>3. \A s \in Sessions : LifeOf(s)'
  BY <1>1, <1>2, LifeStill DEF Still
<1>4. \A s \in Sessions : ConnsOf(s)' \subseteq ConnsOf(s)
  BY ConnsSeen DEF Still
<1>5. OwnerInv
  BY DEF IocpInv
<1>6. OwnerInv'
  <2>1. \A s \in Sessions : ConnsOf(s)' \subseteq Conns \ backlog'
    BY <1>4, <1>5 DEF OwnerInv
  <2>2. \A s, other \in Sessions : s # other => ConnsOf(s)' \cap ConnsOf(other)' = {}
    BY <1>4, <1>5 DEF OwnerInv
  <2>3. backlog' \subseteq Conns /\ \A c \in backlog' : Untouched(c)'
    BY <1>5 DEF OwnerInv
  <2> QED BY <2>1, <2>2, <2>3 DEF OwnerInv
<1> QED
  BY <1>3, <1>6, LifeIsNext

(***************************************************************************)
(* The system: a WSARecv completes, in whatever way.                       *)
(***************************************************************************)

LEMMA NewPacket ==
  ASSUME NEW key \in {"listen", "session", "null"},
         NEW op \in {"none", "accept", "recv", "disconnect"},
         NEW s \in Sessions \cup {None}, NEW ok \in BOOLEAN, NEW n \in 0 .. data_len
  PROVE  /\ Packet(key, op, s, ok, n) \in PacketType
         /\ Packet(key, op, s, ok, n).key = key /\ Packet(key, op, s, ok, n).op = op
         /\ Packet(key, op, s, ok, n).s = s /\ Packet(key, op, s, ok, n).ok = ok
         /\ Packet(key, op, s, ok, n).n = n
  BY DEF Packet, PacketType

LEMMA RecvPacket ==
  ASSUME IocpInv, NEW s \in Sessions, recvs[s] # <<>>,
         NEW ok \in BOOLEAN, NEW n \in 0 .. data_len, ok \/ n = 0,
         queue' = Append(queue, Packet("session", "recv", s, ok, n)),
         recvs' = [recvs EXCEPT ![s] = Tail(@)],
         HandsStill, UNCHANGED <<stopVars, conn, accepting, leaving, active, entered, mixed>>,
         recv_buffer'[s].read_pos = recv_buffer[s].read_pos,
         recv_buffer'[s].write_pos = recv_buffer[s].write_pos,
         s \notin mixed /\ active[s] =>
           /\ recvs[s] = <<[at |-> recv_buffer[s].write_pos, len |-> WriteValid(recv_buffer[s])]>>
              => n <= WriteValid(recv_buffer[s]) /\ Holds(s, n)'
  PROVE  /\ QueueInv' /\ HandInv' /\ SocketInv'
         /\ \A other : other # s => PacketsStill(other)
         /\ ConnsOf(s)' = ConnsOf(s) /\ LifeOf(s)'
<1> DEFINE p == Packet("session", "recv", s, ok, n)
           m == Len(queue) + 1
<1>1. /\ p \in PacketType /\ p.key = "session" /\ p.op = "recv" /\ p.s = s /\ p.ok = ok
      /\ p.n = n /\ PacketOK(p) /\ ~Waiting(p)
  BY NewPacket DEF PacketOK, Waiting
<1> HIDE DEF p
<1>2. QueueInv /\ HandInv /\ SocketInv /\ queue \in Seq(PacketType) /\ queue' = Append(queue, p)
  BY DEF IocpInv, QueueInv, p
<1>3. QueueInv' /\ HandInv'
  BY <1>1, <1>2, QueueAppended, HandStill DEF stopVars
<1>4. SocketInv'
  <2> DEFINE E == [at : 0 .. data_len, len : 0 .. data_len]
             R == Seq(E)
  <2>0. recvs \in [Sessions -> R]
    BY <1>2 DEF SocketInv
  <2> HIDE DEF E
  <2>1. Tail(recvs[s]) \in R
    BY <2>0, HeadTailProperties
  <2> HIDE DEF R
  <2>2. recvs' \in [Sessions -> R] /\ \A t \in Sessions : t # s => recvs'[t] = recvs[t]
    BY <2>0, <2>1
  <2>3. conn[s] # None
    BY <1>2 DEF SocketInv
  <2> QED BY <2>2, <2>3, <1>2 DEF SocketInv, R, E
<1>5. \A other : other # s => PacketsStill(other)
  BY <1>1, <1>2, AppendStill
<1>6. /\ Queued(s)' = Queued(s) \cup {m} /\ queue'[m] = p
      /\ \A i \in Queued(s) : queue'[i] = queue[i]
      /\ Holders(s)' = Holders(s) /\ Accepts(s)' = Accepts(s)
  BY <1>1, <1>2, AppendOwn
<1>7. ConnsOf(s)' = ConnsOf(s)
  BY <1>6 DEF ConnsOf
<1>8. LifeOf(s)'
  <2> SUFFICES ASSUME s \notin mixed PROVE Between(s)' /\ (active[s] => ActiveOf(s)')
    BY DEF LifeOf
  <2>1. Between(s) /\ (active[s] => ActiveOf(s))
    BY LifeIs DEF IocpInv, LifeOf
  <2>2. Accepts(s) = {}
    BY <2>1 DEF Between
  <2>3. Between(s)'
    BY <2>1, <2>2, <1>6 DEF Between
  <2>4. ASSUME active[s] PROVE ActiveOf(s)'
    <3>1. /\ ActiveOf(s) /\ Len(recvs[s]) <= 1 /\ Queued(s) = {} /\ Holders(s) = {}
          /\ recvs[s] = <<[at |-> recv_buffer[s].write_pos, len |-> WriteValid(recv_buffer[s])]>>
          /\ recv_buffer[s].read_pos <= recv_buffer[s].write_pos
      BY <2>1, <2>4 DEF ActiveOf, OneAtWork, BufferInv
    <3>2. recvs'[s] = <<>>
      <4>1. recvs'[s] = Tail(recvs[s])
        BY <1>2 DEF SocketInv
      <4> QED BY <3>1, <4>1
    <3>3. Queued(s)' = {m} /\ Holders(s)' = {} /\ queue'[m] = p
      BY <3>1, <1>6
    <3>4. OneAtWork(s)'
      BY <3>2, <3>3, <1>1 DEF OneAtWork
    <3>5. \A x : x \in Adding(s)' <=> x = n
      <4>1. \A x : x \in Adding(s)' <=>
              \/ \E i \in Queued(s)' : queue'[i].op = "recv" /\ queue'[i].n = x
              \/ \E w \in Holders(s)' : hand'[w].op = "recv" /\ Untaken(w)' /\ hand'[w].n = x
        BY DEF Adding, Queued, Holders, Untaken
      <4> QED BY <4>1, <3>3, <1>1
    <3>6. n <= WriteValid(recv_buffer[s]) /\ Holds(s, n)'
      BY <3>1, <2>4
    <3>7. BufferInv(s)'
      <4>1. WriteValid(recv_buffer[s])' = WriteValid(recv_buffer[s])
        BY DEF WriteValid
      <4>2. Adding(s)' = {n}
        BY <3>5
      <4>3. \A x \in Adding(s)' : x <= WriteValid(recv_buffer[s])' /\ Holds(s, x)'
        BY <3>6, <4>1, <4>2
      <4> QED BY <3>1, <3>2, <3>3, <4>2, <4>3 DEF BufferInv
    <3>8. Attended(s)'
      BY <3>3 DEF Attended
    <3> QED BY <3>1, <3>4, <3>7, <3>8 DEF ActiveOf
  <2> QED BY <2>3, <2>4
<1> QED
  BY <1>3, <1>4, <1>5, <1>7, <1>8

\* Every receive reaches to the end of the buffer.
RoomsOK ==
  \A s \in Sessions : \A i \in 1 .. Len(recvs[s]) : recvs[s][i].at + recvs[s][i].len = data_len

LEMMA RecvTaken ==
  ASSUME SocketInv, RoomsOK, NEW s \in Sessions, recvs[s] # <<>>,
         recvs' = [recvs EXCEPT ![s] = Tail(@)]
  PROVE  /\ RoomsOK' /\ \A other : other # s => recvs'[other] = recvs[other]
         /\ Head(recvs[s]).at \in 0 .. data_len /\ Head(recvs[s]).len \in 0 .. data_len
         /\ Head(recvs[s]).at + Head(recvs[s]).len = data_len
<1> DEFINE E == [at : 0 .. data_len, len : 0 .. data_len]
<1>1. recvs \in [Sessions -> Seq(E)]
  BY DEF SocketInv
<1>2. \A e \in E : e.at \in 0 .. data_len /\ e.len \in 0 .. data_len
  OBVIOUS
<1> HIDE DEF E
<1>3. /\ Len(recvs[s]) \in Nat \ {0} /\ Head(recvs[s]) = recvs[s][1] /\ recvs[s][1] \in E
      /\ Len(Tail(recvs[s])) = Len(recvs[s]) - 1
      /\ \A i \in 1 .. Len(recvs[s]) - 1 : Tail(recvs[s])[i] = recvs[s][i + 1]
  <2> DEFINE q == recvs[s]
  <2>1. q \in Seq(E) /\ q # <<>>
    BY <1>1
  <2> HIDE DEF q
  <2>2. /\ Len(q) \in Nat \ {0} /\ Head(q) = q[1] /\ q[1] \in E /\ Len(Tail(q)) = Len(q) - 1
        /\ \A i \in 1 .. Len(q) - 1 : Tail(q)[i] = q[i + 1]
    BY <2>1
  <2> QED BY <2>2 DEF q
<1>4. recvs'[s] = Tail(recvs[s]) /\ \A other : other # s => recvs'[other] = recvs[other]
  BY <1>1
<1>5. ASSUME NEW i \in 1 .. Len(recvs'[s])
      PROVE  recvs'[s][i].at + recvs'[s][i].len = data_len
  <2>0. i \in 1 .. Len(recvs[s]) - 1 /\ recvs'[s][i] = Tail(recvs[s])[i]
    BY <1>3, <1>4, Zenon
  <2>1. i + 1 \in 1 .. Len(recvs[s]) /\ recvs'[s][i] = recvs[s][i + 1]
    BY <1>3, <2>0
  <2> QED BY <2>1 DEF RoomsOK
<1>6. RoomsOK'
  BY <1>4, <1>5 DEF RoomsOK
<1>7. 1 \in 1 .. Len(recvs[s])
  BY <1>3
<1> QED
  BY <1>2, <1>3, <1>4, <1>6, <1>7 DEF RoomsOK

LEMMA TypeIs == TypeOK => RoomsOK
  BY DEF TypeOK, RoomsOK

LEMMA BytesSeen ==
  ASSUME IocpInv, UNCHANGED <<sentbytes, consumed, backlog>>
  PROVE  /\ \A s : BytesStill(s)
         /\ sentbytes' \in [Conns -> Nat] /\ \A c \in Conns : sentbytes'[c] <= Len(Stream[c])
         /\ \A c \in backlog : Untouched(c)'
BY DEF IocpInv, OwnerInv, Untouched, BytesStill

LEMMA ReceiveEndKeeps ==
  ASSUME IocpInv, NEW s \in Sessions, ReceiveEnd(s)
  PROVE  IocpInv'
<1>1. /\ recvs[s] # <<>> /\ queue' = Append(queue, Packet("session", "recv", s, TRUE, 0))
      /\ recvs' = [recvs EXCEPT ![s] = Tail(@)] /\ 0 \in 0 .. data_len
      /\ HandsStill
      /\ UNCHANGED <<stopVars, conn, accepting, leaving, sessVars, netVars, histVars, resetting>>
  BY BufferAssumption DEF ReceiveEnd, HandsStill
<1>2. s \notin mixed /\ active[s] =>
        /\ recvs[s] = <<[at |-> recv_buffer[s].write_pos, len |-> WriteValid(recv_buffer[s])]>>
           => 0 <= WriteValid(recv_buffer[s]) /\ Holds(s, 0)'
  <2> SUFFICES ASSUME s \notin mixed, active[s] PROVE 0 <= WriteValid(recv_buffer[s]) /\ Holds(s, 0)'
    OBVIOUS
  <2>1. ActiveOf(s)
    BY LifeIs DEF IocpInv, LifeOf
  <2>2. Queued(s) = {} /\ Holders(s) = {} /\ BufferInv(s)
    BY <1>1, <2>1 DEF ActiveOf, OneAtWork
  <2>3. Adding(s) = {}
    BY <2>2, AddingIs
  <2>4. Holds(s, 0)'
    BY <1>1, <2>2, <2>3 DEF BufferInv, Holds, sessVars, netVars, histVars
  <2>5. recv_buffer[s] \in BufferType
    BY DEF IocpInv, TypeOK
  <2> QED BY <2>4, <2>5, BufferAssumption DEF BufferType, WriteValid
<1>3. /\ QueueInv' /\ HandInv' /\ SocketInv' /\ (\A other : other # s => PacketsStill(other))
      /\ ConnsOf(s)' = ConnsOf(s) /\ LifeOf(s)'
  BY <1>1, <1>2, RecvPacket DEF sessVars, histVars
<1>4. RoomsOK' /\ \A other : other # s => recvs'[other] = recvs[other]
  BY <1>1, RecvTaken, TypeIs DEF IocpInv
<1>5. TypeOK'
  BY <1>1, <1>4 DEF IocpInv, TypeOK, RoomsOK, HandsStill, stopVars, workVars, sessVars, netVars, histVars
<1>6. \A other \in Sessions : other # s => Still(other)
  BY <1>1, <1>3, <1>4, BytesSeen DEF Still, FieldsStill, MarksStill, sessVars, netVars, histVars
<1>7. OwnerInv' /\ LifeInv'
  BY <1>1, <1>3, <1>6, BytesSeen, Assemble DEF netVars, histVars
<1> QED
  BY <1>3, <1>5, <1>7 DEF IocpInv

LEMMA AbortRecvKeeps ==
  ASSUME IocpInv, NEW s \in Sessions, AbortRecv(s)
  PROVE  IocpInv'
<1>1. /\ recvs[s] # <<>> /\ queue' = Append(queue, Packet("session", "recv", s, FALSE, 0))
      /\ recvs' = [recvs EXCEPT ![s] = Tail(@)] /\ 0 \in 0 .. data_len
      /\ HandsStill
      /\ UNCHANGED <<stopVars, conn, accepting, leaving, sessVars, netVars, histVars, resetting>>
  BY BufferAssumption DEF AbortRecv, HandsStill
<1>2. s \notin mixed /\ active[s] =>
        /\ recvs[s] = <<[at |-> recv_buffer[s].write_pos, len |-> WriteValid(recv_buffer[s])]>>
           => 0 <= WriteValid(recv_buffer[s]) /\ Holds(s, 0)'
  <2> SUFFICES ASSUME s \notin mixed, active[s] PROVE 0 <= WriteValid(recv_buffer[s]) /\ Holds(s, 0)'
    OBVIOUS
  <2>1. ActiveOf(s)
    BY LifeIs DEF IocpInv, LifeOf
  <2>2. Queued(s) = {} /\ Holders(s) = {} /\ BufferInv(s)
    BY <1>1, <2>1 DEF ActiveOf, OneAtWork
  <2>3. Adding(s) = {}
    BY <2>2, AddingIs
  <2>4. Holds(s, 0)'
    BY <1>1, <2>2, <2>3 DEF BufferInv, Holds, sessVars, netVars, histVars
  <2>5. recv_buffer[s] \in BufferType
    BY DEF IocpInv, TypeOK
  <2> QED BY <2>4, <2>5, BufferAssumption DEF BufferType, WriteValid
<1>3. /\ QueueInv' /\ HandInv' /\ SocketInv' /\ (\A other : other # s => PacketsStill(other))
      /\ ConnsOf(s)' = ConnsOf(s) /\ LifeOf(s)'
  BY <1>1, <1>2, RecvPacket DEF sessVars, histVars
<1>4. RoomsOK' /\ \A other : other # s => recvs'[other] = recvs[other]
  BY <1>1, RecvTaken, TypeIs DEF IocpInv
<1>5. TypeOK'
  BY <1>1, <1>4 DEF IocpInv, TypeOK, RoomsOK, HandsStill, stopVars, workVars, sessVars, netVars, histVars
<1>6. \A other \in Sessions : other # s => Still(other)
  BY <1>1, <1>3, <1>4, BytesSeen DEF Still, FieldsStill, MarksStill, sessVars, netVars, histVars
<1>7. OwnerInv' /\ LifeInv'
  BY <1>1, <1>3, <1>6, BytesSeen, Assemble DEF netVars, histVars
<1> QED
  BY <1>3, <1>5, <1>7 DEF IocpInv

\* The bytes come to lie behind those that are unread.
LEMMA ReceiveKeeps ==
  ASSUME IocpInv, NEW s \in Sessions, Receive(s)
  PROVE  IocpInv'
<1> USE IocpAssumption
<1> DEFINE c == conn[s]
           r == Head(recvs[s])
           b == recv_buffer[s]
           k == sentbytes[c]
<1>1. /\ recvs[s] # <<>> /\ Connected(s) /\ recvs' = [recvs EXCEPT ![s] = Tail(@)]
      /\ HandsStill
      /\ UNCHANGED <<stopVars, conn, accepting, leaving, active, offset, backlog, histVars, resetting>>
  BY DEF Receive, HandsStill
<1>2. /\ TypeOK /\ OwnerInv /\ SocketInv /\ c \in Conns /\ b \in BufferType /\ k \in Nat
      /\ Stream[c] \in Seq(Bytes) /\ data_len \in Nat /\ sentbytes \in [Conns -> Nat]
      /\ recv_buffer \in [Sessions -> BufferType]
  BY <1>1, BufferAssumption DEF IocpInv, TypeOK, OwnerInv, Connected
<1>3. /\ RoomsOK' /\ \A other : other # s => recvs'[other] = recvs[other]
      /\ r.at \in 0 .. data_len /\ r.len \in 0 .. data_len
  BY <1>1, <1>2, RecvTaken, TypeIs
<1> HIDE DEF r
<1>4. PICK n \in 1 .. r.len :
        LET bytes == SubSeq(Stream[c], k + 1, k + n)
        IN  /\ k + n <= Len(Stream[c])
            /\ sentbytes' = [sentbytes EXCEPT ![c] = @ + n]
            /\ recv_buffer' = [recv_buffer EXCEPT ![s].data =
                                  Fill([b EXCEPT !.write_pos = r.at], bytes).data]
            /\ queue' = Append(queue, Packet("session", "recv", s, TRUE, n))
  BY DEF Receive, r
<1> DEFINE bytes == SubSeq(Stream[c], k + 1, k + n)
           d == Fill([b EXCEPT !.write_pos = r.at], bytes).data
<1> HIDE DEF b, c
<1>5. n \in Nat /\ n \in 0 .. data_len /\ k + n \in Nat
  BY <1>2, <1>3
<1>6. bytes \in Seq(Bytes) /\ Len(bytes) = n
      /\ SubSeq(Stream[c], 1, k) \o bytes = SubSeq(Stream[c], 1, k + n)
  <2>1. Stream[c] \in Seq(Bytes) /\ k \in Nat /\ n \in Nat /\ k + n <= Len(Stream[c])
    BY <1>2, <1>4, <1>5
  <2> HIDE DEF k
  <2> QED BY <2>1, FirstBytes
<1> HIDE DEF bytes, k
<1>7. d \in [Cells -> Bytes]
  BY <1>2, <1>3, <1>6, FilledType
<1> HIDE DEF d
<1>8. /\ recv_buffer' = [recv_buffer EXCEPT ![s] = [b EXCEPT !.data = d]]
      /\ recv_buffer'[s] = [b EXCEPT !.data = d]
      /\ recv_buffer' \in [Sessions -> BufferType]
      /\ \A other : other # s => recv_buffer'[other] = recv_buffer[other]
  <2>1. recv_buffer' = [recv_buffer EXCEPT ![s] = [b EXCEPT !.data = d]]
    BY <1>2, <1>4 DEF d, b, bytes, k
  <2>2. [b EXCEPT !.data = d] \in BufferType
    BY <1>2, <1>7 DEF BufferType
  <2> QED BY <1>2, <2>1, <2>2
<1>9. recv_buffer'[s].read_pos = b.read_pos /\ recv_buffer'[s].write_pos = b.write_pos
  BY <1>2, <1>8 DEF BufferType
<1>10. /\ sentbytes' \in [Conns -> Nat] /\ sentbytes'[c] = k + n
       /\ \A e \in Conns : e # c => sentbytes'[e] = sentbytes[e]
       /\ \A e \in Conns : sentbytes'[e] <= Len(Stream[e])
  BY <1>2, <1>4, <1>5 DEF OwnerInv, k
<1>11. s \notin mixed /\ active[s] =>
         /\ recvs[s] = <<[at |-> b.write_pos, len |-> WriteValid(b)]>>
            => n <= WriteValid(b) /\ Holds(s, n)'
  <2> SUFFICES ASSUME s \notin mixed, active[s],
                      recvs[s] = <<[at |-> b.write_pos, len |-> WriteValid(b)]>>
               PROVE  n <= WriteValid(b) /\ Holds(s, n)'
    OBVIOUS
  <2>1. ActiveOf(s)
    BY LifeIs DEF IocpInv, LifeOf
  <2>2. Queued(s) = {} /\ Holders(s) = {} /\ BufferInv(s) /\ entered[s] = c
    BY <1>1, <2>1 DEF ActiveOf, OneAtWork, c
  <2>3. Adding(s) = {}
    BY <2>2, AddingIs
  <2>4. r.at = b.write_pos /\ r.len = WriteValid(b)
    BY DEF r
  <2>5. Orderly(b)
    BY <1>2, <2>2 DEF Orderly, BufferInv, b
  <2>6. consumed[c] \o Content(b) = SubSeq(Stream[c], 1, k)
    BY <2>2, <2>3, <1>2, AddZero DEF BufferInv, Holds, b, k
  <2>7. n <= WriteValid(b)
    BY <1>5, <2>4
  <2>8. [b EXCEPT !.write_pos = r.at] = b
    BY <1>2, <2>4 DEF BufferType
  <2>9. [b EXCEPT !.data = d] = Fill(b, bytes)
    <3>1. d = Fill(b, bytes).data
      BY <2>8 DEF d
    <3> QED BY <3>1, <1>2 DEF Fill, BufferType
  <2>10. /\ Content(AddWritePos(Fill(b, bytes), n)) = Content(b) \o bytes
         /\ Content(b) \in Seq(Bytes)
    <3>1. WriteValid(b) \in Int
      BY <1>2 DEF BufferType, WriteValid
    <3>2. WriteValid(b) >= Len(bytes)
      BY <3>1, <1>5, <1>6, <2>7
    <3>3. Content(AddWritePos(Fill(b, bytes), Len(bytes))) = Content(b) \o bytes
      BY <1>6, <2>5, <3>2, FillKeeps
    <3> QED BY <3>3, <1>6, <2>5, ContentIs
  <2>11. consumed[c] \in Seq(Bytes)
    BY <1>2 DEF TypeOK
  <2>12. consumed[c] \o (Content(b) \o bytes) = SubSeq(Stream[c], 1, k + n)
    <3>1. Associative(Seq(Bytes))
      BY Associates
    <3>2. (consumed[c] \o Content(b)) \o bytes = consumed[c] \o (Content(b) \o bytes)
      BY <1>6, <2>10, <2>11, <3>1, Zenon DEF Associative
    <3> QED BY <3>2, <2>6, <1>6, Zenon
  <2>13. Holds(s, n)'
    <3>1. /\ entered'[s] = c /\ consumed' = consumed /\ sentbytes'[c] = k + n
          /\ recv_buffer'[s] = Fill(b, bytes)
      BY <1>1, <1>8, <1>10, <2>2, <2>9 DEF histVars
    <3> QED BY <3>1, <2>10, <2>12 DEF Holds
  <2> QED BY <2>7, <2>13
<1>12. /\ QueueInv' /\ HandInv' /\ SocketInv' /\ (\A other : other # s => PacketsStill(other))
       /\ ConnsOf(s)' = ConnsOf(s) /\ LifeOf(s)'
  BY <1>1, <1>4, <1>5, <1>9, <1>11, RecvPacket DEF histVars, b
<1>13. TypeOK'
  BY <1>1, <1>2, <1>3, <1>8 DEF TypeOK, RoomsOK, HandsStill, stopVars, workVars, histVars
<1>14. \A other \in Sessions : other # s => Still(other)
  <2> SUFFICES ASSUME NEW other \in Sessions, other # s PROVE Still(other)
    OBVIOUS
  <2>1. \A e \in ConnsOf(other) : e \in Conns /\ e # c
    <3>1. c \in ConnsOf(s)
      BY <1>1 DEF ConnsOf, c, Connected
    <3> QED BY <3>1, <1>2, Apart
  <2>2. BytesStill(other)
    BY <1>1, <1>10, <2>1 DEF BytesStill, histVars
  <2> QED BY <1>1, <1>3, <1>8, <1>12, <2>2 DEF Still, FieldsStill, MarksStill, histVars
<1>15. \A e \in backlog : Untouched(e)'
  <2>1. c \notin backlog
    BY <1>1, <1>2 DEF OwnerInv, ConnsOf, c, Connected
  <2>2. backlog \subseteq Conns
    BY DEF IocpInv, OwnerInv
  <2> QED BY <1>1, <1>2, <1>10, <2>1, <2>2 DEF OwnerInv, Untouched, histVars
<1>16. OwnerInv' /\ LifeInv'
  BY <1>1, <1>10, <1>12, <1>14, <1>15, Assemble DEF histVars
<1> QED
  BY <1>12, <1>13, <1>16 DEF IocpInv

LEMMA NothingMoved ==
  ASSUME queue \in Seq(PacketType), queue' = queue, HandsStill, NEW s
  PROVE  PacketsStill(s)
BY SameKept DEF PacketsStill, HandsStill, workVars

LEMMA EndKeeps ==
  ASSUME IocpInv, NEW c \in Conns, End(c)
  PROVE  IocpInv'
<1>1. /\ HandsStill /\ queue' = queue
      /\ UNCHANGED <<sockVars, stopVars, sessVars, histVars, resetting, backlog, sentbytes, wcrash>>
  BY DEF End, HandsStill
<1>2. TypeOK'
  BY <1>1 DEF IocpInv, TypeOK, HandsStill, workVars, sockVars, stopVars, sessVars, histVars
<1>3. QueueInv' /\ HandInv'
  BY <1>1, QueueStill, HandStill DEF IocpInv, stopVars
<1>4. SocketInv'
  BY <1>1 DEF IocpInv, SocketInv, sockVars, histVars
<1>5. \A s : Still(s)
  BY <1>1, NothingMoved, BytesSeen
    DEF Still, FieldsStill, MarksStill, sockVars, sessVars, histVars, IocpInv, QueueInv
<1>6. OwnerInv' /\ LifeInv'
  <2>1. None \notin Sessions
    BY IocpAssumption DEF Sessions
  <2> QED BY <1>1, <1>5, <2>1, BytesSeen, Assemble DEF histVars
<1> QED
  BY <1>2, <1>3, <1>4, <1>6 DEF IocpInv

LEMMA AbortAcceptKeeps ==
  ASSUME IocpInv, NEW s \in Sessions, AbortAccept(s)
  PROVE  IocpInv'
<1> DEFINE p == Packet("listen", "accept", s, FALSE, 0)
<1>1. /\ accepting[s] /\ accepting' = [accepting EXCEPT ![s] = FALSE]
      /\ queue' = Append(queue, p) /\ HandsStill
      /\ UNCHANGED <<netVars, conn, leaving, recvs, closed, stopVars, sessVars, histVars, resetting>>
  BY DEF AbortAccept, HandsStill
<1>2. /\ p \in PacketType /\ p.key = "listen" /\ p.s = s /\ PacketOK(p) /\ ~Waiting(p)
  <2>1. 0 \in 0 .. data_len /\ FALSE \in BOOLEAN
    BY BufferAssumption
  <2>2. /\ p \in PacketType /\ p.key = "listen" /\ p.op = "accept" /\ p.s = s
        /\ p.ok = FALSE /\ p.n = 0
    BY <2>1 DEF Packet, PacketType
  <2> QED BY <2>2 DEF PacketOK, Waiting
<1> HIDE DEF p
<1>3. TypeOK'
  BY <1>1 DEF IocpInv, TypeOK, HandsStill, workVars, netVars, stopVars, sessVars, histVars
<1>4. queue \in Seq(PacketType) /\ QueueInv' /\ HandInv'
  BY <1>1, <1>2, QueueAppended, HandStill DEF IocpInv, QueueInv, stopVars
<1>5. SocketInv'
  BY <1>1 DEF IocpInv, SocketInv, histVars
<1>6. \A other \in Sessions : other # s => Still(other)
  BY <1>1, <1>2, <1>4, AppendStill, BytesSeen
    DEF Still, FieldsStill, MarksStill, netVars, sessVars, histVars, IocpInv, SocketInv
<1>7. Accepts(s)' = Accepts(s)
  BY <1>1, <1>2, <1>4, AppendOwn
<1>8. LifeOf(s)'
  <2>1. LifeOf(s)
    BY LifeIs DEF IocpInv
  <2>2. SUFFICES ASSUME s \notin mixed PROVE Between(s)' /\ ~active'[s]
    BY <1>1 DEF LifeOf, histVars
  <2>3. Between(s) /\ ~active[s]
    BY <1>1, <2>1, <2>2 DEF LifeOf, Between
  <2>4. \A c \in Accepts(s) : Untouched(c)' <=> Untouched(c)
    BY <1>1 DEF Untouched, netVars, histVars
  <2> QED BY <1>1, <1>7, <2>3, <2>4 DEF Between, sessVars, histVars
<1>9. OwnerInv' /\ LifeInv'
  <2>1. ConnsOf(s)' = ConnsOf(s)
    BY <1>1, <1>7 DEF ConnsOf, histVars
  <2> QED BY <1>1, <1>6, <1>8, <2>1, BytesSeen, Assemble DEF netVars, histVars
<1> QED
  BY <1>3, <1>4, <1>5, <1>9 DEF IocpInv

LEMMA DisconnectedKeeps ==
  ASSUME IocpInv, NEW s \in Sessions, Disconnected(s)
  PROVE  IocpInv'
<1>1. PICK ok \in BOOLEAN :
        /\ queue' = Append(queue, Packet("session", "disconnect", s, ok, 0))
        /\ lost' = IF ok THEN lost ELSE lost \cup {s}
  BY DEF Disconnected
<1> DEFINE p == Packet("session", "disconnect", s, ok, 0)
<1>2. /\ leaving[s] /\ recvs[s] = <<>> /\ HandsStill
      /\ leaving' = [leaving EXCEPT ![s] = FALSE] /\ conn' = [conn EXCEPT ![s] = None]
      /\ UNCHANGED <<netVars, accepting, recvs, closed, stopVars, sessVars,
                     entered, consumed, mixed, declined, resetting>>
  BY DEF Disconnected, HandsStill
<1>3. /\ p \in PacketType /\ p.key = "session" /\ p.s = s /\ PacketOK(p) /\ ~Waiting(p)
      /\ queue' = Append(queue, p)
  BY <1>1, NewPacket, BufferAssumption DEF PacketOK, Waiting
<1> HIDE DEF p
<1>4. TypeOK'
  <2>1. lost' \subseteq Sessions
    BY <1>1 DEF IocpInv, TypeOK
  <2> QED BY <1>2, <2>1 DEF IocpInv, TypeOK, HandsStill, workVars, netVars, stopVars, sessVars
<1>5. queue \in Seq(PacketType) /\ QueueInv' /\ HandInv'
  BY <1>2, <1>3, QueueAppended, HandStill DEF IocpInv, QueueInv, stopVars
<1>6. SocketInv'
  BY <1>2 DEF IocpInv, SocketInv, TypeOK
<1>7. \A other \in Sessions : other # s => Still(other)
  BY <1>2, <1>3, <1>5, AppendStill, BytesSeen
    DEF Still, FieldsStill, MarksStill, netVars, sessVars, IocpInv, TypeOK, SocketInv
<1>8. Accepts(s)' = Accepts(s)
  BY <1>2, <1>3, <1>5, AppendOwn
<1>9. LifeOf(s)'
  <2>1. LifeOf(s)
    BY LifeIs DEF IocpInv
  <2>2. SUFFICES ASSUME s \notin mixed PROVE Between(s)' /\ ~active'[s]
    BY <1>2 DEF LifeOf
  <2>3. Between(s) /\ ~active[s] /\ Accepts(s) = {}
    BY <1>2, <2>1, <2>2 DEF LifeOf, Between, ActiveOf
  <2> QED BY <1>2, <1>8, <2>3 DEF Between, sessVars
<1>10. OwnerInv' /\ LifeInv'
  <2>1. ConnsOf(s)' \subseteq ConnsOf(s)
    BY <1>2, <1>8 DEF ConnsOf, IocpInv, TypeOK
  <2> QED BY <1>2, <1>7, <1>9, <2>1, BytesSeen, Assemble DEF netVars
<1> QED
  BY <1>4, <1>5, <1>6, <1>10 DEF IocpInv

\* The client that is accepted has sent nothing, and is nobody's yet.
LEMMA ConnectKeeps ==
  ASSUME IocpInv, NEW s \in Sessions, NEW c \in Conns, Connect(s, c)
  PROVE  IocpInv'
<1> USE IocpAssumption
<1> DEFINE good == [Packet("listen", "accept", s, TRUE, 0) EXCEPT !.conn = c]
           bad == Packet("listen", "accept", s, FALSE, 0)
<1>1. /\ accepting[s] /\ c \in backlog /\ backlog' = backlog \ {c} /\ HandsStill
      /\ accepting' = [accepting EXCEPT ![s] = FALSE]
      /\ UNCHANGED <<sentbytes, leaving, recvs, stopVars, sessVars, entered, consumed,
                     mixed, declined, resetting>>
      /\ \/ conn' = [conn EXCEPT ![s] = c] /\ queue' = Append(queue, good) /\ lost' = lost
         \/ conn' = conn /\ queue' = Append(queue, bad) /\ lost' = lost \cup {s}
  BY DEF Connect, HandsStill
<1>2. /\ good \in PacketType /\ bad \in PacketType
      /\ good.key = "listen" /\ good.op = "accept" /\ good.s = s /\ good.ok = TRUE
      /\ good.n = 0 /\ good.conn = c
      /\ bad.key = "listen" /\ bad.op = "accept" /\ bad.s = s /\ bad.ok = FALSE /\ bad.n = 0
  <2>1. 0 \in 0 .. data_len
    BY BufferAssumption
  <2>2. good = [key |-> "listen", op |-> "accept", s |-> s, ok |-> TRUE, n |-> 0, conn |-> c]
    <3> DEFINE q == Packet("listen", "accept", s, TRUE, 0)
    <3>1. q = [key |-> "listen", op |-> "accept", s |-> s, ok |-> TRUE, n |-> 0, conn |-> None]
      BY DEF Packet
    <3>2. good = [q EXCEPT !.conn = c]
      OBVIOUS
    <3> HIDE DEF good, q
    <3> QED BY <3>1, <3>2
  <2>3. bad = [key |-> "listen", op |-> "accept", s |-> s, ok |-> FALSE, n |-> 0, conn |-> None]
    BY DEF Packet
  <2> HIDE DEF good, bad
  <2> QED BY <2>1, <2>2, <2>3 DEF PacketType
<1> HIDE DEF good, bad
<1>3. /\ PacketOK(good) /\ Waiting(good) /\ PacketOK(bad) /\ ~Waiting(bad) /\ c # None
  BY <1>2 DEF PacketOK, Waiting
<1>4. /\ TypeOK /\ OwnerInv /\ SocketInv /\ LifeOf(s) /\ queue \in Seq(PacketType)
      /\ backlog \subseteq Conns /\ QueueInv /\ HandInv
  BY LifeIs DEF IocpInv, OwnerInv, QueueInv
<1>5. conn[s] = None /\ recvs[s] = <<>> /\ ~leaving[s]
  BY <1>1, <1>4 DEF SocketInv
<1>6. PICK p \in {good, bad} :
        queue' = Append(queue, p) /\ conn' = IF p = good THEN [conn EXCEPT ![s] = c] ELSE conn
  <2>1. good # bad
    BY <1>2
  <2> QED BY <1>1, <2>1
<1>7. p \in PacketType /\ p.key = "listen" /\ p.s = s /\ PacketOK(p) /\ (Waiting(p) <=> p = good)
  BY <1>2, <1>3
<1>8. TypeOK'
  <2>1. lost' \subseteq Sessions
    BY <1>1, <1>4 DEF TypeOK
  <2>2. conn' \in [Sessions -> Conns \cup {None}]
    BY <1>4, <1>6 DEF TypeOK
  <2> QED BY <1>1, <1>4, <2>1, <2>2 DEF TypeOK, HandsStill, workVars, stopVars, sessVars
<1>9. QueueInv' /\ HandInv'
  BY <1>1, <1>4, <1>6, <1>7, QueueAppended, HandStill DEF stopVars
<1>10. SocketInv'
  BY <1>1, <1>4, <1>5, <1>6 DEF SocketInv, TypeOK
<1>11. Accepts(s)' = Accepts(s) \cup (IF p = good THEN {c} ELSE {})
  BY <1>1, <1>2, <1>4, <1>6, <1>7, AppendOwn
<1>12. ConnsOf(s)' \subseteq ConnsOf(s) \cup {c}
  BY <1>4, <1>6, <1>1, <1>11 DEF ConnsOf, TypeOK
<1>13. \A other \in Sessions : c \notin ConnsOf(other)
  BY <1>1, <1>4 DEF OwnerInv
<1>14. \A other \in Sessions : other # s => Still(other)
  <2>1. \A other : BytesStill(other)
    BY <1>1 DEF BytesStill
  <2> QED BY <1>1, <1>4, <1>6, <1>7, <2>1, AppendStill
        DEF Still, FieldsStill, MarksStill, sessVars, TypeOK, SocketInv
<1>15. LifeOf(s)'
  <2>1. SUFFICES ASSUME s \notin mixed PROVE Between(s)' /\ ~active'[s]
    BY <1>1 DEF LifeOf
  <2>2. Between(s) /\ ~active[s] /\ None \notin Accepts(s)
    BY <1>1, <1>4, <2>1, AcceptsConns DEF LifeOf, Between
  <2>3. Accepts(s) = {}
    BY <1>5, <2>2 DEF Between
  <2>4. ASSUME p = good PROVE conn'[s] = c /\ c # entered[s] /\ Untouched(c)'
    <3>1. conn'[s] = c
      BY <2>4, <1>4, <1>6 DEF TypeOK
    <3>2. c # entered[s]
      BY <1>3, <1>13 DEF ConnsOf
    <3>3. Untouched(c)'
      BY <1>1, <1>4 DEF OwnerInv, Untouched
    <3> QED BY <3>1, <3>2, <3>3
  <2>5. \A e \in Accepts(s)' : e = c /\ p = good
    BY <1>11, <2>3
  <2>6. /\ accepting'[s] = FALSE /\ entered' = entered /\ ~active'[s] /\ ~leaving'[s]
        /\ recvs'[s] = <<>>
    BY <1>1, <1>4, <1>5, <2>2 DEF SocketInv, sessVars
  <2> QED BY <2>4, <2>5, <2>6 DEF Between
<1>16. LifeInv'
  <2>1. \A other \in Sessions : LifeOf(other) /\ None \notin Accepts(other)
    BY <1>4, LifeIs, AcceptsConns DEF IocpInv
  <2> QED BY <1>14, <1>15, <2>1, LifeStill, LifeIsNext DEF Still
<1>17. OwnerInv'
  <2>1. \A other \in Sessions : other # s => ConnsOf(other)' = ConnsOf(other)
    BY <1>14, ConnsSeen DEF Still
  <2>2. \A other \in Sessions : ConnsOf(other)' \subseteq Conns \ backlog'
    <3>1. \A other \in Sessions : ConnsOf(other) \subseteq Conns \ backlog
      BY <1>4 DEF OwnerInv
    <3> QED BY <1>1, <1>12, <2>1, <3>1
  <2>3. \A t, other \in Sessions : t # other => ConnsOf(t)' \cap ConnsOf(other)' = {}
    <3>1. \A t, other \in Sessions : t # other => ConnsOf(t) \cap ConnsOf(other) = {}
      BY <1>4 DEF OwnerInv
    <3> QED BY <1>12, <1>13, <2>1, <3>1
  <2>4. /\ backlog' \subseteq Conns /\ \A e \in backlog' : Untouched(e)'
        /\ sentbytes' \in [Conns -> Nat] /\ \A e \in Conns : sentbytes'[e] <= Len(Stream[e])
    BY <1>1, <1>4 DEF OwnerInv, Untouched
  <2> QED BY <2>2, <2>3, <2>4 DEF OwnerInv
<1> QED
  BY <1>8, <1>9, <1>10, <1>16, <1>17 DEF IocpInv

(***************************************************************************)
(* Threads that close sessions, and stop.                                  *)
(***************************************************************************)

LEMMA NoneNoSession == None \notin Sessions /\ None \notin Conns
  BY IocpAssumption DEF Sessions

\* A step that only a thread, its intent to reset a session and stop take part in.
LEMMA SessionsUntouched ==
  ASSUME IocpInv, \A s \in Sessions : PacketsStill(s),
         UNCHANGED <<conn, accepting, leaving, recvs, sessVars, histVars, backlog, sentbytes>>,
         \A s \in Sessions : (\E t \in Threads : resetting[t] = s)
                               => \E t \in Threads : resetting'[t] = s
  PROVE  SocketInv' /\ OwnerInv' /\ LifeInv'
<1>1. SocketInv'
  BY DEF IocpInv, SocketInv, histVars
<1>2. \A s \in Sessions : Still(s)
  BY BytesSeen DEF Still, FieldsStill, MarksStill, sessVars, histVars
<1>3. OwnerInv' /\ LifeInv'
  <2>1. /\ sentbytes' \in [Conns -> Nat] /\ \A c \in Conns : sentbytes'[c] <= Len(Stream[c])
        /\ \A c \in backlog : Untouched(c)'
    BY BytesSeen DEF histVars
  <2> QED BY <1>2, <2>1, NoneNoSession, Assemble
<1> QED
  BY <1>1, <1>3

LEMMA TestKeeps ==
  ASSUME IocpInv, NEW t \in Threads, NEW s \in Sessions, resetting[t] = None, TestActive(t, s)
  PROVE  /\ resetting' \in [Threads -> Sessions \cup {None}]
         /\ active[s] => resetting'[t] = s
         /\ \A r \in Sessions : (\E u \in Threads : resetting[u] = r)
                                  => \E u \in Threads : resetting'[u] = r
<1>1. resetting \in [Threads -> Sessions \cup {None}]
  BY DEF IocpInv, TypeOK
<1>2. resetting' \in [Threads -> Sessions \cup {None}] /\ (active[s] => resetting'[t] = s)
  BY <1>1 DEF TestActive
<1>3. \A u \in Threads : u # t => resetting'[u] = resetting[u]
  BY <1>1 DEF TestActive
<1> QED
  BY <1>2, <1>3, NoneNoSession

LEMMA ServerCloseKeeps ==
  ASSUME IocpInv, NEW t \in Threads, NEW s \in Sessions, resetting[t] = None, TestActive(t, s),
         UNCHANGED <<sockVars, backlog, sentbytes, stopVars, workVars, sessVars, histVars, queue>>
  PROVE  IocpInv'
<1>1. TypeOK'
  BY TestKeeps DEF IocpInv, TypeOK, sockVars, stopVars, workVars, sessVars, histVars
<1>2. QueueInv' /\ HandInv'
  BY QueueStill, HandStill DEF IocpInv, stopVars, HandsStill
<1>3. \A r \in Sessions : PacketsStill(r)
  BY NothingMoved DEF IocpInv, QueueInv, HandsStill
<1>4. SocketInv' /\ OwnerInv' /\ LifeInv'
  BY <1>3, TestKeeps, SessionsUntouched DEF sockVars
<1> QED
  BY <1>1, <1>2, <1>4 DEF IocpInv

LEMMA BeginCloseKeeps ==
  ASSUME IocpInv, NEW s \in Sessions, BeginClose(s)
  PROVE  IocpInv'
<1>1. Closer \in Threads
  BY DEF Threads
<1> QED
  BY <1>1, ServerCloseKeeps DEF BeginClose

LEMMA CloseInCallbackKeeps ==
  ASSUME IocpInv, NEW w \in Workers, CloseInCallback(w)
  PROVE  IocpInv'
<1>1. w \in Threads /\ hand[w].s \in Sessions
  BY DEF Threads, CloseInCallback, IocpInv, HandInv
<1> QED
  BY <1>1, ServerCloseKeeps DEF CloseInCallback

\* The rest of iocp_session_reset: the session is not active any more.  When its
\* socket is connected for a client that nobody knows of yet, two lives meet.
LEMMA ResetKeeps ==
  ASSUME IocpInv, NEW t \in Threads, Reset(t)
  PROVE  IocpInv'
<1>0. PICK s \in Sessions : s = resetting[t]
  BY DEF IocpInv, TypeOK, Reset
<1>1. /\ TypeOK /\ SocketInv /\ LifeOf(s)
  BY LifeIs DEF IocpInv
<1>2. /\ offset' = [offset EXCEPT ![s] = "reset"] /\ active' = [active EXCEPT ![s] = FALSE]
      /\ leaving' = IF Connected(s) THEN [leaving EXCEPT ![s] = TRUE] ELSE leaving
      /\ mixed' = IF Connected(s) /\ ~active[s] THEN mixed \cup {s} ELSE mixed
      /\ resetting' = [resetting EXCEPT ![t] = None] /\ declined' = declined \ {s}
      /\ HandsStill /\ queue' = queue
      /\ UNCHANGED <<netVars, conn, accepting, recvs, stopVars, recv_buffer, entered,
                     consumed, lost>>
  BY <1>0 DEF Reset, ResetOffset, Deactivated, HandsStill
<1>3. \A other : other # s => /\ active'[other] = active[other] /\ leaving'[other] = leaving[other]
                              /\ other \in mixed => other \in mixed'
                              /\ other \in declined => other \in declined'
  BY <1>1, <1>2 DEF TypeOK, SocketInv
<1>4. TypeOK'
  <2>1. /\ offset' \in [Sessions -> {"accept", "reset"}] /\ active' \in [Sessions -> BOOLEAN]
        /\ resetting' \in [Threads -> Sessions \cup {None}] /\ mixed' \subseteq Sessions
        /\ declined' \subseteq Sessions
    BY <1>1, <1>2 DEF TypeOK
  <2> QED BY <1>1, <1>2, <2>1 DEF TypeOK, HandsStill, workVars, netVars, stopVars
<1>5. QueueInv' /\ HandInv' /\ \A other : PacketsStill(other)
  BY <1>2, QueueStill, HandStill, NothingMoved DEF IocpInv, QueueInv, stopVars
<1>6. SocketInv'
  <2>1. leaving' \in [Sessions -> BOOLEAN]
    BY <1>1, <1>2 DEF SocketInv
  <2>2. \A r \in Sessions : leaving'[r] => leaving[r] \/ conn[r] # None
    BY <1>1, <1>2, <1>3 DEF Connected, SocketInv
  <2> QED BY <1>1, <1>2, <2>1, <2>2 DEF SocketInv
<1>7. \A other \in Sessions : other # s => Still(other)
  <2>1. \A other \in Sessions : other # s =>
          ((\E u \in Threads : resetting[u] = other) => \E u \in Threads : resetting'[u] = other)
    <3>1. \A u \in Threads : u # t => resetting'[u] = resetting[u]
      BY <1>1, <1>2 DEF TypeOK
    <3> QED BY <1>0, <3>1
  <2> QED BY <1>2, <1>3, <1>5, <2>1, BytesSeen DEF Still, FieldsStill, MarksStill, netVars
<1>8. Accepts(s)' = Accepts(s)
  BY <1>5, PacketsSeen
<1>9. LifeOf(s)'
  <2>1. SUFFICES ASSUME s \notin mixed' PROVE Between(s)' /\ ~active'[s]
    BY DEF LifeOf
  <2>2. s \notin mixed /\ ~(Connected(s) /\ ~active[s])
    BY <1>1, <1>2, <2>1
  <2>3. active'[s] = FALSE
    BY <1>1, <1>2 DEF TypeOK
  <2>4. Between(s)
    BY <1>1, <2>2 DEF LifeOf
  <2>5. ASSUME Accepts(s) # {} PROVE leaving'[s] = leaving[s]
    BY <1>2, <2>2, <2>4, <2>5 DEF Between
  <2>6. \A c \in Accepts(s) : Untouched(c)' <=> Untouched(c)
    BY <1>2 DEF Untouched, netVars
  <2> QED BY <1>2, <1>8, <2>3, <2>4, <2>5, <2>6 DEF Between
<1>10. OwnerInv' /\ LifeInv'
  <2>1. ConnsOf(s)' = ConnsOf(s)
    BY <1>2, <1>8 DEF ConnsOf
  <2> QED BY <1>2, <1>7, <1>9, <2>1, BytesSeen, Assemble DEF netVars
<1> QED
  BY <1>4, <1>5, <1>6, <1>10 DEF IocpInv

LEMMA StopKeeps ==
  ASSUME IocpInv, Stop
  PROVE  IocpInv'
<1>1. /\ spc = "running" /\ spc' = "closing" /\ HandsStill /\ queue' = queue
      /\ UNCHANGED <<sockVars, netVars, listen_key, close_num, closing, sessVars, histVars, resetting>>
  BY DEF Stop, HandsStill
<1>2. TypeOK'
  BY <1>1 DEF IocpInv, TypeOK, HandsStill, workVars, sockVars, netVars, sessVars, histVars
<1>3. QueueInv'
  <2>1. closing = 0 /\ 0 < max_num
    BY <1>1, IocpAssumption DEF IocpInv, QueueInv
  <2> QED BY <1>1, <2>1 DEF IocpInv, QueueInv, PacketOK, Uncounted
<1>4. HandInv' /\ \A s : PacketsStill(s)
  BY <1>1, HandStill, NothingMoved DEF IocpInv, QueueInv
<1>5. SocketInv' /\ OwnerInv' /\ LifeInv'
  BY <1>1, <1>4, SessionsUntouched DEF sockVars, netVars
<1> QED
  BY <1>2, <1>3, <1>4, <1>5 DEF IocpInv

LEMMA JoinKeeps ==
  ASSUME IocpInv, Join
  PROVE  IocpInv'
<1>1. /\ spc = "joining" /\ spc' = "stopped" /\ HandsStill /\ queue' = queue
      /\ UNCHANGED <<sockVars, netVars, listen_key, close_num, closing, sessVars, histVars, resetting>>
  BY DEF Join, HandsStill
<1>2. TypeOK'
  BY <1>1 DEF IocpInv, TypeOK, HandsStill, workVars, sockVars, netVars, sessVars, histVars
<1>3. QueueInv'
  BY <1>1 DEF IocpInv, QueueInv, PacketOK, Uncounted
<1>4. HandInv' /\ \A s : PacketsStill(s)
  BY <1>1, HandStill, NothingMoved DEF IocpInv, QueueInv
<1>5. SocketInv' /\ OwnerInv' /\ LifeInv'
  BY <1>1, <1>4, SessionsUntouched DEF sockVars, netVars
<1> QED
  BY <1>2, <1>3, <1>4, <1>5 DEF IocpInv

LEMMA CloseSocketKeeps ==
  ASSUME IocpInv, CloseSocket
  PROVE  IocpInv'
<1>1. /\ spc = "closing" /\ queue' = Append(queue, NoPacket) /\ closing' = closing + 1
      /\ spc' = IF closing' = max_num THEN "waiting" ELSE spc
      /\ HandsStill
      /\ UNCHANGED <<netVars, conn, accepting, leaving, recvs, listen_key, close_num,
                     sessVars, histVars, resetting>>
  BY DEF CloseSocket, HandsStill
<1>2. NoPacket \in PacketType /\ NoPacket.key = "null" /\ NoPacket.s = None /\ PacketOK(NoPacket)
  BY BufferAssumption DEF NoPacket, Packet, PacketType, PacketOK
<1>3. /\ QueueInv /\ TypeOK /\ queue \in Seq(PacketType) /\ Len(queue) \in Nat
      /\ closing \in Nat /\ closing < max_num /\ max_num \in Nat
      /\ closing + 1 \in 0 .. max_num /\ close_num \in Nat
  BY <1>1, IocpAssumption DEF IocpInv, QueueInv, TypeOK
<1>4. TypeOK'
  BY <1>1, <1>3 DEF TypeOK, HandsStill, workVars, netVars, sessVars, histVars
<1>5. QueueInv'
  <2>1. /\ queue' \in Seq(PacketType) /\ Len(queue') = Len(queue) + 1
        /\ queue'[Len(queue) + 1] = NoPacket /\ \A i \in 1 .. Len(queue) : queue'[i] = queue[i]
    BY <1>1, <1>2, <1>3, OneMore
  <2>2. \A i \in 1 .. Len(queue') : PacketOK(queue[i])'
    <3> TAKE i \in 1 .. Len(queue')
    <3>1. CASE i = Len(queue) + 1
      BY <1>1, <1>2, <2>1, <3>1, PacketStillOK
    <3>2. CASE i # Len(queue) + 1
      <4>1. i \in 1 .. Len(queue)
        BY <1>3, <2>1, <3>2
      <4>2. queue'[i] = queue[i] /\ PacketOK(queue[i])
        BY <4>1, <1>3, <2>1 DEF QueueInv
      <4> QED BY <4>2, <1>1, PacketStillOK
    <3> QED BY <3>1, <3>2
  <2>3. close_num + Cardinality(Uncounted)' = closing + 1
    <3>1. Cardinality(Keyless(queue')) = Cardinality(Keyless(queue)) + 1
      BY <1>1, <1>2, <1>3, AppendKeyless
    <3>2. Cardinality(Keyless(queue)) \in Nat
      BY <1>3, KeylessFinite
    <3>3. close_num + Cardinality(Keyless(queue)) = closing
      BY <1>3 DEF QueueInv, Uncounted, Keyless
    <3>4. close_num + Cardinality(Keyless(queue')) = closing + 1
      BY <1>3, <3>1, <3>2, <3>3
    <3> QED BY <3>4 DEF Uncounted, Keyless
  <2>4. spc' = "closing" => closing' < max_num
    BY <1>1, <1>3
  <2>5. spc' # "running" /\ listen_key' # "exit"
    BY <1>1, <1>3 DEF QueueInv
  <2> QED BY <1>1, <2>1, <2>2, <2>3, <2>4, <2>5 DEF QueueInv
<1>6. HandInv'
  BY <1>1, HandStill DEF IocpInv
<1>7. \A s \in Sessions : PacketsStill(s)
  BY <1>1, <1>2, <1>3, AppendStill, NoneNoSession
<1>8. SocketInv' /\ OwnerInv' /\ LifeInv'
  BY <1>1, <1>7, SessionsUntouched DEF netVars
<1> QED
  BY <1>4, <1>5, <1>6, <1>8 DEF IocpInv

\* Only the key changes; no exit packet is posted before.
LEMMA ClearKeyKeeps ==
  ASSUME IocpInv, ClearKey
  PROVE  IocpInv'
<1>1. /\ spc = "waiting" /\ spc' = "clearing" /\ listen_key' = "cleared" /\ HandsStill
      /\ queue' = queue
      /\ UNCHANGED <<sockVars, netVars, close_num, closing, sessVars, histVars, resetting>>
  BY DEF ClearKey, HandsStill
<1>2. TypeOK'
  BY <1>1 DEF IocpInv, TypeOK, HandsStill, workVars, sockVars, netVars, sessVars, histVars
<1>3. QueueInv /\ HandInv /\ listen_key # "exit"
  BY <1>1 DEF IocpInv, QueueInv
<1>4. ASSUME NEW p, PacketOK(p), NEW i, queue'[i] = p PROVE PacketOK(queue[i])'
  BY <1>1, <1>3, <1>4 DEF PacketOK
<1>5. QueueInv'
  BY <1>1, <1>3, <1>4 DEF QueueInv, Uncounted
<1>6. HandInv' /\ \A s : PacketsStill(s)
  BY <1>1, <1>3, NothingMoved DEF HandInv, PacketOK, HandsStill, workVars, QueueInv
<1>7. SocketInv' /\ OwnerInv' /\ LifeInv'
  BY <1>1, <1>6, SessionsUntouched DEF sockVars, netVars
<1> QED
  BY <1>2, <1>5, <1>6, <1>7 DEF IocpInv

\* From then on a packet of the listening socket means the exit.
LEMMA PostExitKeeps ==
  ASSUME IocpInv, PostExit
  PROVE  IocpInv'
<1> DEFINE p == Packet("listen", "none", None, TRUE, 0)
           e == [i \in 1 .. ExitPackets |-> p]
<1>1. /\ spc = "clearing" /\ spc' = "joining" /\ listen_key' = "exit" /\ queue' = queue \o e
      /\ HandsStill
      /\ UNCHANGED <<sockVars, netVars, close_num, closing, sessVars, histVars, resetting>>
  BY DEF PostExit, HandsStill
<1>2. /\ p \in PacketType /\ p.key = "listen" /\ p.op = "none" /\ p.s = None /\ p.ok = TRUE
      /\ p.n = 0
  BY BufferAssumption DEF Packet, PacketType
<1> HIDE DEF p
<1>3. ExitPackets \in Nat
  BY IocpAssumption, FS_CardinalityType DEF ExitPackets
<1>4. e \in Seq(PacketType) /\ Len(e) = ExitPackets /\ \A i \in 1 .. Len(e) : e[i] = p
  BY <1>2, <1>3
<1> HIDE DEF e
<1>5. /\ QueueInv /\ TypeOK /\ HandInv /\ queue \in Seq(PacketType) /\ Len(queue) \in Nat
  BY DEF IocpInv, QueueInv
<1>6. ASSUME NEW q, PacketOK(q) \/ q = p, NEW i, queue'[i] = q PROVE PacketOK(queue[i])'
  BY <1>1, <1>2, <1>6 DEF PacketOK
<1>7. TypeOK'
  BY <1>1, <1>5 DEF TypeOK, HandsStill, workVars, sockVars, netVars, sessVars, histVars
<1>8. QueueInv'
  <2>1. /\ queue' \in Seq(PacketType) /\ Len(queue') = Len(queue) + Len(e)
        /\ \A i \in 1 .. Len(queue) + Len(e) :
             queue'[i] = IF i <= Len(queue) THEN queue[i] ELSE e[i - Len(queue)]
    BY <1>1, <1>4, <1>5, ConcatProperties
  <2>2. \A i \in 1 .. Len(queue') : PacketOK(queue[i])'
    <3> TAKE i \in 1 .. Len(queue')
    <3>1. CASE i <= Len(queue)
      <4>1. i \in 1 .. Len(queue) /\ queue'[i] = queue[i]
        BY <1>5, <2>1, <3>1
      <4> QED BY <4>1, <1>5, <1>6 DEF QueueInv
    <3>2. CASE ~(i <= Len(queue))
      <4>1. i - Len(queue) \in 1 .. Len(e) /\ queue'[i] = e[i - Len(queue)]
        BY <1>3, <1>4, <1>5, <2>1, <3>2
      <4> QED BY <4>1, <1>4, <1>6
    <3> QED BY <3>1, <3>2
  <2>3. Cardinality(Uncounted)' = Cardinality(Uncounted)
    <3>1. Keyless(queue') = Keyless(queue)
      BY <1>1, <1>2, <1>4, <1>5, ConcatKeyless
    <3> QED BY <3>1 DEF Uncounted, Keyless
  <2> QED BY <1>1, <1>5, <2>1, <2>2, <2>3 DEF QueueInv
<1>9. HandInv'
  BY <1>1, <1>5 DEF HandInv, PacketOK, HandsStill, workVars
<1>10. \A s \in Sessions : PacketsStill(s)
  <2>1. \A s \in Sessions : Kept(queue, queue', s)
    BY <1>1, <1>2, <1>4, <1>5, ConcatKept, NoneNoSession
  <2> QED BY <1>1, <2>1 DEF PacketsStill, HandsStill, workVars
<1>11. SocketInv' /\ OwnerInv' /\ LifeInv'
  BY <1>1, <1>10, SessionsUntouched DEF sockVars, netVars
<1> QED
  BY <1>7, <1>8, <1>9, <1>11 DEF IocpInv

(***************************************************************************)
(* A worker goes on with its packet, or is done with it.                   *)
(***************************************************************************)
Positions == {"get", "select", "dispatch", "in_recved", "wait_recv", "onclose", "in_close", "exit"}
Done(pc) == pc \in {"get", "exit"}

LEMMA HandTypes ==
  ASSUME IocpInv
  PROVE  /\ hand \in [Workers -> PacketType] /\ wpc \in [Workers -> Positions]
         /\ valid \in [Workers -> Int] /\ queue \in Seq(PacketType)
         /\ resetting \in [Threads -> Sessions \cup {None}]
         /\ \A w \in Workers : w \in Threads /\ PacketOK(hand[w])
  BY DEF IocpInv, HandInv, TypeOK, QueueInv, Positions, Threads

LEMMA Moved ==
  ASSUME IocpInv, NEW w \in Workers, NEW pc \in Positions, Goto(w, pc)
  PROVE  /\ wpc' \in [Workers -> Positions] /\ wpc'[w] = pc
         /\ hand'[w] = IF Done(pc) THEN NoPacket ELSE hand[w]
         /\ \A v \in Workers : v # w => wpc'[v] = wpc[v] /\ hand'[v] = hand[v]
         /\ hand' \in [Workers -> PacketType]
<1>1. NoPacket \in PacketType
  BY BufferAssumption DEF NoPacket, Packet, PacketType
<1> QED
  BY <1>1, HandTypes DEF Goto, Done

LEMMA NoPacketIs ==
  NoPacket.s = None /\ NoPacket.op = "none" /\ NoPacket.key = "null" /\ PacketOK(NoPacket)
  BY DEF NoPacket, Packet, PacketOK

LEMMA MovedHands ==
  ASSUME IocpInv, NEW w \in Workers, NEW pc \in Positions, Goto(w, pc), ~Done(wpc[w]),
         listen_key' = listen_key, valid' \in [Workers -> Int], pc # "select",
         ~Done(pc) => hand[w].s \in Sessions,
         pc = "in_recved" => hand[w].op = "recv",
         pc = "wait_recv" => hand[w].op \in {"accept", "recv"}
  PROVE  HandInv'
<1>1. /\ wpc'[w] = pc /\ hand'[w] = IF Done(pc) THEN NoPacket ELSE hand[w]
      /\ \A v \in Workers : v # w => wpc'[v] = wpc[v] /\ hand'[v] = hand[v]
      /\ hand' \in [Workers -> PacketType]
  BY Moved
<1>2. HandInv
  BY DEF IocpInv
<1>3. ASSUME NEW v \in Workers
      PROVE  /\ PacketOK(hand[v])'
             /\ IF wpc'[v] \in {"get", "exit"} THEN hand'[v] = NoPacket ELSE hand'[v].key # "null"
             /\ wpc'[v] \notin {"get", "exit", "select"} => hand'[v].s \in Sessions
             /\ wpc'[v] = "in_recved" => hand'[v].op = "recv"
             /\ wpc'[v] = "wait_recv" => hand'[v].op \in {"accept", "recv"}
  <2>1. CASE v # w
    <3>1. wpc'[v] = wpc[v] /\ hand'[v] = hand[v]
      BY <1>1, <2>1
    <3>2. PacketOK(hand[v])'
      BY <1>2, <3>1 DEF HandInv, PacketOK
    <3> QED BY <1>2, <3>1, <3>2 DEF HandInv
  <2>2. CASE v = w /\ Done(pc)
    <3>1. wpc'[v] = pc /\ hand'[v] = NoPacket
      BY <1>1, <2>2
    <3>2. PacketOK(hand[v])'
      BY <3>1, NoPacketIs DEF PacketOK
    <3> QED BY <2>2, <3>1, <3>2 DEF Done
  <2>3. CASE v = w /\ ~Done(pc)
    <3>1. wpc'[v] = pc /\ hand'[v] = hand[v] /\ hand[v].key # "null"
      BY <1>1, <1>2, <2>3 DEF HandInv, Done
    <3>2. PacketOK(hand[v])'
      BY <1>2, <3>1 DEF HandInv, PacketOK
    <3> QED BY <2>3, <3>1, <3>2 DEF Done
  <2> QED BY <2>1, <2>2, <2>3
<1>4. hand' \in [Workers -> PacketType] /\ valid' \in [Workers -> Int]
  BY <1>1
<1> QED
  BY <1>3, <1>4 DEF HandInv

LEMMA MovedStill ==
  ASSUME IocpInv, NEW w \in Workers, NEW pc \in Positions, Goto(w, pc), queue' = queue,
         \A v \in Workers : v # w => valid'[v] = valid[v], NEW s \in Sessions, s # hand[w].s
  PROVE  PacketsStill(s)
<1>1. /\ hand'[w] = IF Done(pc) THEN NoPacket ELSE hand[w]
      /\ \A v \in Workers : v # w => wpc'[v] = wpc[v] /\ hand'[v] = hand[v]
  BY Moved
<1>2. hand'[w].s # s
  BY <1>1, NoPacketIs, NoneNoSession
<1>3. Kept(queue, queue', s)
  BY SameKept, HandTypes
<1> QED
  BY <1>1, <1>2, <1>3 DEF PacketsStill

\* What the session of the packet has of packets then.
LEMMA MovedOwn ==
  ASSUME IocpInv, NEW w \in Workers, NEW pc \in Positions, Goto(w, pc), queue' = queue,
         NEW a \in Sessions, hand[w].s = a,
         pc \in {"select", "dispatch"} => Untaken(w)
  PROVE  /\ Queued(a)' = Queued(a)
         /\ Holders(a)' = IF Done(pc) THEN Holders(a) \ {w} ELSE Holders(a)
         /\ Accepts(a)' \subseteq Accepts(a)
<1>1. /\ wpc'[w] = pc /\ hand'[w] = IF Done(pc) THEN NoPacket ELSE hand[w]
      /\ \A v \in Workers : v # w => wpc'[v] = wpc[v] /\ hand'[v] = hand[v]
  BY Moved
<1>2. Queued(a)' = Queued(a)
  BY DEF Queued
<1>3. Holders(a)' = IF Done(pc) THEN Holders(a) \ {w} ELSE Holders(a)
  BY <1>1, NoPacketIs, NoneNoSession DEF Holders
<1>4. ASSUME NEW c \in Accepts(a)' PROVE c \in Accepts(a)
  <2>1. \/ \E i \in Queued(a)' : Waiting(queue'[i]) /\ queue'[i].conn = c
        \/ \E v \in Holders(a)' : Holder(v, c)'
    BY DEF Accepts, Holder, Waiting
  <2>2. ASSUME NEW v \in Holders(a)', Holder(v, c)' PROVE v \in Holders(a) /\ Holder(v, c)
    <3>1. v \in Holders(a) /\ v \in Workers
      BY <1>3, <2>2 DEF Holders
    <3>2. CASE v # w
      BY <1>1, <2>2, <3>1, <3>2 DEF Holder, Waiting, Untaken
    <3>3. CASE v = w
      <4>1. ~Done(pc) /\ hand'[w] = hand[w]
        BY <1>1, <1>3, <2>2, <3>3
      <4> QED BY <1>1, <2>2, <3>1, <3>3, <4>1 DEF Holder, Waiting, Untaken
    <3> QED BY <3>2, <3>3
  <2> QED BY <1>2, <2>1, <2>2, AcceptsIs
<1> QED
  BY <1>2, <1>3, <1>4

\* An active session that one worker has to do with.
LEMMA AloneAtWork ==
  ASSUME NEW a, ActiveOf(a), NEW w \in Holders(a)
  PROVE  /\ Holders(a) = {w} /\ Queued(a) = {} /\ recvs[a] = <<>>
         /\ hand[w].op = "recv" \/ wpc[w] = "wait_recv"
         /\ Adding(a) = IF hand[w].op = "recv" /\ Untaken(w) THEN {hand[w].n} ELSE {}
<1>1. /\ Holders(a) = {w} /\ Queued(a) = {} /\ recvs[a] = <<>>
      /\ hand[w].op = "recv" \/ wpc[w] = "wait_recv"
  BY DEF ActiveOf, OneAtWork
<1>2. \A n : n \in Adding(a) <=> hand[w].op = "recv" /\ Untaken(w) /\ hand[w].n = n
  BY <1>1, AddingIs
<1>3. Adding(a) = IF hand[w].op = "recv" /\ Untaken(w) THEN {hand[w].n} ELSE {}
  BY <1>2
<1> QED
  BY <1>1, <1>3

\* The worker goes on to close the session or is done with its packet, and nothing
\* else of the session changes.
LEMMA HolderMoves ==
  ASSUME IocpInv, NEW w \in Workers, NEW pc \in {"get", "dispatch", "onclose", "in_close"},
         Goto(w, pc), queue' = queue, NEW a \in Sessions, hand[w].s = a, ActiveOf(a),
         FieldsStill(a), UNCHANGED <<sentbytes, consumed>>,
         pc = "dispatch" => Untaken(w),
         Untaken(w) /\ hand[w].op = "recv" /\ pc # "dispatch" => hand[w].n = 0,
         ~Done(pc) => hand[w].op = "recv",
         Done(pc) => Attended(a)'
  PROVE  ActiveOf(a)'
<1>0. pc \in Positions
  BY DEF Positions
<1>1. /\ wpc'[w] = pc /\ hand'[w] = IF Done(pc) THEN NoPacket ELSE hand[w]
      /\ Queued(a)' = Queued(a)
      /\ Holders(a)' = IF Done(pc) THEN Holders(a) \ {w} ELSE Holders(a)
  BY <1>0, Moved, MovedOwn
<1>2. w \in Holders(a)
  BY DEF Holders
<1>3. /\ Holders(a) = {w} /\ Queued(a) = {} /\ recvs[a] = <<>>
      /\ Adding(a) = IF hand[w].op = "recv" /\ Untaken(w) THEN {hand[w].n} ELSE {}
  BY <1>2, AloneAtWork
<1>4. Holders(a)' = IF Done(pc) THEN {} ELSE {w}
  BY <1>1, <1>3
<1>5. OneAtWork(a)'
  BY <1>1, <1>3, <1>4 DEF OneAtWork, FieldsStill
<1>6. BufferInv(a) /\ conn[a] = entered[a] /\ conn[a] # None /\ ~leaving[a]
  BY DEF ActiveOf
<1>7. \A n : Holds(a, n)' <=> Holds(a, n)
  BY DEF Holds, FieldsStill
<1>8. Adding(a)' = IF pc = "dispatch" /\ hand[w].op = "recv" THEN {hand[w].n} ELSE {}
  <2>1. \A n : n \in Adding(a)' <=>
          \/ \E i \in Queued(a)' : queue'[i].op = "recv" /\ queue'[i].n = n
          \/ \E v \in Holders(a)' : hand'[v].op = "recv" /\ Untaken(v)' /\ hand'[v].n = n
    BY DEF Adding, Queued, Holders, Untaken
  <2>2. Untaken(w)' <=> pc = "dispatch"
    BY <1>1 DEF Untaken
  <2>3. pc = "dispatch" => ~Done(pc)
    BY DEF Done
  <2>4. \A n : n \in Adding(a)' <=> pc = "dispatch" /\ hand[w].op = "recv" /\ hand[w].n = n
    BY <1>1, <1>3, <1>4, <2>1, <2>2, <2>3
  <2> QED BY <2>4
<1>9. BufferInv(a)'
  <2>1. recv_buffer'[a] = recv_buffer[a] /\ recvs'[a] = <<>>
    BY <1>3 DEF FieldsStill
  <2>2. recv_buffer[a].read_pos <= recv_buffer[a].write_pos
    BY <1>6 DEF BufferInv
  <2>3. \A v \in Holders(a)' : wpc'[v] \notin {"in_recved", "wait_recv"}
    BY <1>1, <1>4
  <2>4. ASSUME pc = "dispatch" /\ hand[w].op = "recv" PROVE Adding(a)' = Adding(a)
    BY <1>3, <1>8, <2>4
  <2>5. ASSUME ~(pc = "dispatch" /\ hand[w].op = "recv") PROVE Adding(a)' = {} /\ Holds(a, 0)
    <3>1. Adding(a) = {} \/ Adding(a) = {0}
      BY <1>3, <2>5
    <3> QED BY <1>6, <1>8, <2>5, <3>1 DEF BufferInv
  <2>6. Adding(a)' = {} => Holds(a, 0)'
    BY <1>6, <1>7, <2>4, <2>5 DEF BufferInv
  <2>7. \A n \in Adding(a)' : n <= WriteValid(recv_buffer[a]) /\ Holds(a, n)'
    BY <1>6, <1>7, <2>4, <2>5 DEF BufferInv
  <2> QED BY <2>1, <2>2, <2>3, <2>6, <2>7 DEF BufferInv
<1>10. Attended(a)'
  BY <1>4 DEF Attended
<1> QED
  BY <1>5, <1>6, <1>9, <1>10 DEF ActiveOf, FieldsStill

\* A session that is not active may get closed, be reset or become accepting.
LEMMA BetweenStill ==
  ASSUME NEW a, Between(a), Accepts(a)' \subseteq Accepts(a), FieldsStill(a),
         UNCHANGED <<sentbytes, consumed>>
  PROVE  Between(a)'
<1>1. \A c \in Accepts(a) : Untouched(c)' <=> Untouched(c)
  BY DEF Untouched
<1> QED
  BY <1>1 DEF Between, FieldsStill

\* The step of a worker that leaves the sessions as they are.
LEMMA WorkerKeeps ==
  ASSUME IocpInv, NEW w \in Workers, NEW pc \in {"get", "exit", "dispatch", "onclose", "in_close"},
         Goto(w, pc), ~Done(wpc[w]),
         UNCHANGED <<sockVars, netVars, stopVars, valid, sessVars, entered, consumed, mixed,
                     lost, queue>>,
         declined \subseteq declined', declined' \subseteq Sessions,
         resetting' \in [Threads -> Sessions \cup {None}],
         \A s \in Sessions : (\E t \in Threads : resetting[t] = s)
                               => \E t \in Threads : resetting'[t] = s,
         ~Done(pc) => hand[w].s \in Sessions,
         pc = "dispatch" => Untaken(w),
         \A a \in Sessions : hand[w].s = a /\ a \notin mixed /\ ActiveOf(a) /\ active[a] =>
           /\ Untaken(w) /\ hand[w].op = "recv" /\ pc # "dispatch" => hand[w].n = 0
           /\ ~Done(pc) => hand[w].op = "recv"
           /\ pc # "exit" /\ (pc = "get" => Attended(a)')
  PROVE  IocpInv'
<1>0. pc \in Positions
  BY DEF Positions
<1>1. TypeOK'
  <2>1. wpc' \in [Workers -> Positions] /\ hand' \in [Workers -> PacketType]
    BY <1>0, Moved
  <2>2. \A v \in Workers : hand'[v].s \in Sessions \cup {None}
    BY <2>1 DEF PacketType
  <2> QED BY <2>1, <2>2 DEF IocpInv, TypeOK, sockVars, netVars, stopVars, sessVars, Positions
<1>2. QueueInv' /\ HandInv'
  <2>1. HandInv'
    BY <1>0, MovedHands, HandTypes DEF stopVars
  <2> QED BY <2>1, QueueStill DEF IocpInv
<1>3. SocketInv'
  BY DEF IocpInv, SocketInv, sockVars
<1>4. \A s : FieldsStill(s) /\ BytesStill(s)
  BY DEF FieldsStill, BytesStill, sockVars, sessVars, netVars
<1>5. \A s \in Sessions : MarksStill(s)
  BY DEF MarksStill
<1>6. \A s \in Sessions : s # hand[w].s => Still(s)
  BY <1>0, <1>4, <1>5, MovedStill DEF Still
<1>7. ASSUME NEW a \in Sessions, hand[w].s = a
      PROVE  LifeOf(a)' /\ ConnsOf(a)' \subseteq ConnsOf(a)
  <2>1. Accepts(a)' \subseteq Accepts(a)
    BY <1>0, <1>7, MovedOwn
  <2>2. ConnsOf(a)' \subseteq ConnsOf(a)
    BY <1>4, <2>1 DEF ConnsOf, FieldsStill
  <2>3. LifeOf(a)
    BY LifeIs DEF IocpInv
  <2>4. ASSUME a \notin mixed PROVE Between(a)' /\ (active[a] => ActiveOf(a)')
    <3>1. Between(a)'
      BY <1>4, <2>1, <2>3, <2>4, BetweenStill DEF LifeOf, netVars
    <3>2. ASSUME active[a] PROVE ActiveOf(a)'
      <4>1. ActiveOf(a)
        BY <2>3, <2>4, <3>2 DEF LifeOf
      <4>2. /\ Untaken(w) /\ hand[w].op = "recv" /\ pc # "dispatch" => hand[w].n = 0
            /\ ~Done(pc) => hand[w].op = "recv"
            /\ pc # "exit" /\ (pc = "get" => Attended(a)')
        BY <1>7, <2>4, <3>2, <4>1
      <4>3. pc \in {"get", "dispatch", "onclose", "in_close"} /\ (Done(pc) => Attended(a)')
        BY <4>2 DEF Done
      <4> QED BY <1>4, <1>7, <4>1, <4>2, <4>3, HolderMoves DEF netVars
    <3> QED BY <3>1, <3>2
  <2> QED BY <2>2, <2>4 DEF LifeOf, sessVars
<1>8. OwnerInv' /\ LifeInv'
  <2>1. PICK a : a = hand[w].s
    OBVIOUS
  <2>2. a \in Sessions => LifeOf(a)' /\ ConnsOf(a)' \subseteq ConnsOf(a)
    BY <1>7, <2>1
  <2>3. \A s \in Sessions : s # a => Still(s)
    BY <1>6, <2>1
  <2>4. UNCHANGED <<sentbytes, consumed, backlog>>
    BY DEF netVars
  <2> QED BY <2>2, <2>3, <2>4, BytesSeen, Assemble
<1> QED
  BY <1>1, <1>2, <1>3, <1>8 DEF IocpInv

\* What the worker holds for an active session is a receive, unless it has just
\* accepted it.
LEMMA HoldsReceive ==
  ASSUME IocpInv, NEW w \in Workers, NEW a \in Sessions, hand[w].s = a, ActiveOf(a)
  PROVE  /\ hand[w].op = "recv" \/ wpc[w] = "wait_recv"
         /\ hand[w].op = "recv" => hand[w].key = "session" /\ (hand[w].ok \/ hand[w].n = 0)
<1>1. w \in Holders(a)
  BY DEF Holders
<1>2. PacketOK(hand[w])
  BY HandTypes
<1> QED
  BY <1>1, <1>2, AloneAtWork DEF PacketOK

LEMMA SelectKeeps ==
  ASSUME IocpInv, NEW w \in Workers, Select(w)
  PROVE  IocpInv'
<1>1. /\ wpc[w] = "select" /\ ~Done(wpc[w]) /\ Untaken(w)
      /\ UNCHANGED <<sockVars, netVars, stopVars, valid, sessVars, histVars, queue, resetting>>
  BY DEF Select, At, Done, Untaken
<1>2. resetting \in [Threads -> Sessions \cup {None}] /\ declined \subseteq Sessions
  BY DEF IocpInv, TypeOK
<1>3. CASE FromKey(w) /\ Exits(w) /\ Goto(w, "exit")
  <2>1. \A a \in Sessions : ~(hand[w].s = a /\ ActiveOf(a))
    BY <1>1, <1>3, HoldsReceive DEF FromKey
  <2> QED BY <1>1, <1>2, <1>3, <2>1, WorkerKeeps DEF histVars, Done
<1>4. CASE UNCHANGED <<wpc, hand>>
  <2>1. HandsStill
    BY <1>1, <1>4 DEF HandsStill, workVars
  <2>2. TypeOK'
    BY <1>1, <2>1 DEF IocpInv, TypeOK, HandsStill, workVars, sockVars, netVars, stopVars, sessVars,
                     histVars
  <2>3. QueueInv' /\ HandInv' /\ \A s : PacketsStill(s)
    BY <1>1, <2>1, QueueStill, HandStill, NothingMoved DEF IocpInv, QueueInv, stopVars
  <2>4. SocketInv' /\ OwnerInv' /\ LifeInv'
    BY <1>1, <2>3, SessionsUntouched DEF sockVars, netVars
  <2> QED BY <2>2, <2>3, <2>4 DEF IocpInv
<1>5. CASE ~FromKey(w) /\ Goto(w, "dispatch")
  <2>1. hand[w].s \in Sessions
    <3>1. PacketOK(hand[w]) /\ hand[w].key # "null"
      BY <1>1 DEF IocpInv, HandInv
    <3> QED BY <1>5, <3>1 DEF PacketOK, FromKey
  <2>2. \A a \in Sessions : hand[w].s = a /\ ActiveOf(a) => hand[w].op = "recv"
    BY <1>1, HoldsReceive
  <2>3. ~Done("dispatch") /\ "dispatch" # "get" /\ "dispatch" # "exit"
    BY DEF Done
  <2> QED BY <1>1, <1>2, <1>5, <2>1, <2>2, <2>3, WorkerKeeps DEF histVars
<1> QED
  BY <1>3, <1>4, <1>5 DEF Select

\* on_close for a packet that tells of the end, or for a failed receive.
LEMMA ClosingPacket ==
  ASSUME NEW p, p.key = "session", p.ok \/ p.n = 0, p.n \in Nat, Branch(p) = "onclose"
  PROVE  p.n = 0
<1>1. SUFFICES ASSUME p.n # 0 PROVE FALSE
  OBVIOUS
<1>2. /\ p.ok /\ p.n > 0 /\ ~(~p.ok) /\ ~(p.ok /\ p.key = "listen" /\ listen_key = "listen")
      /\ p.ok /\ p.key = "session" /\ p.n > 0
      /\ ~(p.ok /\ p.n = 0 /\ (p.key = "session" \/ listen_key # "listen"))
  BY <1>1
<1>3. Branch(p) = "recv"
  BY <1>2, Zenon DEF Branch
<1> QED
  BY <1>3

LEMMA OnCloseKeeps ==
  ASSUME IocpInv, NEW w \in Workers, OnClose(w)
  PROVE  IocpInv'
<1>1. PICK a \in Sessions : a = hand[w].s
  BY DEF IocpInv, HandInv, OnClose, At, Dispatched
<1>2. /\ wpc[w] = "onclose" \/ (wpc[w] = "dispatch" /\ Branch(hand[w]) = "onclose")
      /\ IF active[a] THEN Goto(w, "in_close") ELSE Goto(w, "get")
      /\ UNCHANGED <<sockVars, netVars, stopVars, valid, sessVars, histVars, queue, resetting>>
  BY <1>1 DEF OnClose, At, Dispatched
<1>3. ~Done(wpc[w])
  BY <1>2 DEF Done
<1>4. PICK pc \in {"get", "in_close"} : Goto(w, pc) /\ (active[a] => pc = "in_close")
  BY <1>2
<1>5. resetting \in [Threads -> Sessions \cup {None}] /\ declined \subseteq Sessions
  BY DEF IocpInv, TypeOK
<1>6. ASSUME ActiveOf(a)
      PROVE  hand[w].op = "recv" /\ (Untaken(w) => hand[w].n = 0)
  <2>1. hand[w].op = "recv" /\ hand[w].key = "session" /\ (hand[w].ok \/ hand[w].n = 0)
    BY <1>1, <1>2, <1>6, HoldsReceive
  <2>2. hand[w].n \in Nat
    BY BufferAssumption, HandTypes DEF PacketType
  <2>3. Untaken(w) => Branch(hand[w]) = "onclose"
    BY <1>2 DEF Untaken
  <2> QED BY <2>1, <2>2, <2>3, ClosingPacket
<1>7. pc \in {"get", "exit", "dispatch", "onclose", "in_close"} /\ pc # "dispatch" /\ pc # "exit"
  OBVIOUS
<1> QED
  BY <1>1, <1>2, <1>3, <1>4, <1>5, <1>6, <1>7, WorkerKeeps DEF histVars

\* The logic calls server_close in on_close ...
LEMMA LogicClosesKeeps ==
  ASSUME IocpInv, NEW w \in Workers, LogicCloses(w)
  PROVE  IocpInv'
<1>1. PICK a \in Sessions : a = hand[w].s
  BY DEF IocpInv, HandInv, LogicCloses, At
<1>2. /\ wpc[w] = "in_close" /\ resetting[w] = None /\ TestActive(w, a) /\ Goto(w, "get")
      /\ UNCHANGED <<sockVars, netVars, stopVars, valid, sessVars, histVars, queue>>
  BY <1>1 DEF LogicCloses, At
<1>3. ~Done(wpc[w]) /\ ~Untaken(w) /\ Done("get")
  BY <1>2 DEF Done, Untaken
<1>4. declined \subseteq Sessions /\ w \in Threads
  BY DEF IocpInv, TypeOK, Threads
<1>5. /\ resetting' \in [Threads -> Sessions \cup {None}]
      /\ active[a] => resetting'[w] = a
      /\ \A r \in Sessions : (\E u \in Threads : resetting[u] = r)
                               => \E u \in Threads : resetting'[u] = r
  BY <1>2, <1>4, TestKeeps
<1>6. active[a] => Attended(a)'
  BY <1>4, <1>5 DEF Attended
<1> QED
  BY <1>1, <1>2, <1>3, <1>4, <1>5, <1>6, WorkerKeeps DEF histVars

\* ... or does not.
LEMMA LogicLeavesOpenKeeps ==
  ASSUME IocpInv, NEW w \in Workers, LogicLeavesOpen(w)
  PROVE  IocpInv'
<1>1. PICK a \in Sessions : a = hand[w].s
  BY DEF IocpInv, HandInv, LogicLeavesOpen, At
<1>2. /\ wpc[w] = "in_close" /\ Goto(w, "get")
      /\ declined' = IF active[a] THEN declined \cup {a} ELSE declined
      /\ UNCHANGED <<sockVars, netVars, stopVars, valid, sessVars, entered, consumed, mixed,
                     lost, queue, resetting>>
  BY <1>1 DEF LogicLeavesOpen, At
<1>3. ~Done(wpc[w]) /\ ~Untaken(w) /\ Done("get")
  BY <1>2 DEF Done, Untaken
<1>4. /\ resetting \in [Threads -> Sessions \cup {None}]
      /\ declined \subseteq declined' /\ declined' \subseteq Sessions
  BY <1>2 DEF IocpInv, TypeOK
<1>5. active[a] => Attended(a)'
  BY <1>2 DEF Attended
<1> QED
  BY <1>1, <1>2, <1>3, <1>4, <1>5, WorkerKeeps

(***************************************************************************)
(* The next receive is posted, or is not.                                  *)
(***************************************************************************)
RecvRequest == [at : 0 .. data_len, len : 0 .. data_len]

LEMMA RecvPosted ==
  ASSUME SocketInv, RoomsOK, NEW s \in Sessions, conn[s] # None,
         NEW e \in RecvRequest, e.at + e.len = data_len,
         recvs' = [recvs EXCEPT ![s] = Append(@, e)],
         UNCHANGED <<accepting, leaving, entered, conn>>
  PROVE  /\ RoomsOK' /\ SocketInv' /\ recvs'[s] = Append(recvs[s], e)
         /\ \A other : other # s => recvs'[other] = recvs[other]
<1> DEFINE R == Seq(RecvRequest)
<1>1. recvs \in [Sessions -> R]
  BY DEF SocketInv, RecvRequest
<1>2. /\ Append(recvs[s], e) \in R
      /\ Len(recvs[s]) \in Nat /\ Len(Append(recvs[s], e)) = Len(recvs[s]) + 1
      /\ Append(recvs[s], e)[Len(recvs[s]) + 1] = e
      /\ \A i \in 1 .. Len(recvs[s]) : Append(recvs[s], e)[i] = recvs[s][i]
  <2> DEFINE q == recvs[s]
  <2>1. q \in R
    BY <1>1
  <2> HIDE DEF q
  <2>2. Append(q, e) \in R /\ Len(q) \in Nat
    BY <2>1
  <2>3. /\ Len(Append(q, e)) = Len(q) + 1 /\ Append(q, e)[Len(q) + 1] = e
        /\ \A i \in 1 .. Len(q) : Append(q, e)[i] = q[i]
    BY <2>1, OneMore
  <2> QED BY <2>2, <2>3 DEF q
<1> HIDE DEF R
<1>3. /\ recvs' \in [Sessions -> R] /\ recvs'[s] = Append(recvs[s], e)
      /\ \A other : other # s => recvs'[other] = recvs[other]
  BY <1>1, <1>2
<1>4. ASSUME NEW i \in 1 .. Len(recvs'[s])
      PROVE  recvs'[s][i].at + recvs'[s][i].len = data_len
  <2>1. CASE i = Len(recvs[s]) + 1
    BY <1>2, <1>3, <2>1
  <2>2. CASE i # Len(recvs[s]) + 1
    <3>1. i \in 1 .. Len(recvs[s])
      BY <1>2, <1>3, <2>2
    <3> QED BY <3>1, <1>2, <1>3 DEF RoomsOK
  <2> QED BY <2>1, <2>2
<1>5. RoomsOK'
  BY <1>3, <1>4 DEF RoomsOK
<1>6. SocketInv'
  BY <1>3 DEF SocketInv, R, RecvRequest
<1> QED
  BY <1>3, <1>5, <1>6

LEMMA PostRecvKeeps ==
  ASSUME IocpInv, NEW w \in Workers, NEW s \in Sessions, hand[w].s = s,
         wpc[w] = "wait_recv", active[s], Connected(s), Goto(w, "get"),
         recvs' = [recvs EXCEPT ![s] = Append(@, [at |-> recv_buffer[s].write_pos,
                                                  len |-> Room(s)])],
         UNCHANGED <<netVars, conn, accepting, leaving, closed, stopVars, valid, sessVars,
                     histVars, queue, resetting>>
  PROVE  IocpInv'
<1> DEFINE e == [at |-> recv_buffer[s].write_pos, len |-> Room(s)]
           b == recv_buffer[s]
<1>1. TypeOK /\ SocketInv /\ RoomsOK /\ b \in BufferType /\ LifeOf(s)
  BY TypeIs, LifeIs DEF IocpInv, TypeOK
<1>2. e \in RecvRequest /\ e.at + e.len = data_len /\ e.at = b.write_pos /\ e.len = WriteValid(b)
  BY <1>1, BufferAssumption DEF RecvRequest, Room, WriteValid, BufferType
<1> HIDE DEF e, b
<1>3. conn[s] # None /\ recvs' = [recvs EXCEPT ![s] = Append(@, e)]
  BY DEF Connected, e
<1>4. /\ RoomsOK' /\ SocketInv' /\ recvs'[s] = Append(recvs[s], e)
      /\ \A other : other # s => recvs'[other] = recvs[other]
  BY <1>1, <1>2, <1>3, RecvPosted DEF histVars
<1>5. "get" \in Positions /\ Done("get")
  BY DEF Positions, Done
<1>6. TypeOK'
  <2>1. wpc' \in [Workers -> Positions] /\ hand' \in [Workers -> PacketType]
    BY <1>5, Moved
  <2>2. \A v \in Workers : hand'[v].s \in Sessions \cup {None}
    BY <2>1 DEF PacketType
  <2> QED BY <1>1, <1>4, <2>1, <2>2
        DEF TypeOK, RoomsOK, netVars, stopVars, sessVars, histVars, Positions
<1>7. QueueInv' /\ HandInv'
  <2>1. ~Done(wpc[w])
    BY DEF Done
  <2>2. HandInv'
    BY <1>5, <2>1, MovedHands, HandTypes DEF stopVars
  <2> QED BY <2>2, QueueStill DEF IocpInv
<1>8. \A other \in Sessions : other # s => Still(other)
  <2>1. \A other \in Sessions : other # s => PacketsStill(other)
    BY <1>5, MovedStill
  <2> QED BY <1>4, <2>1 DEF Still, FieldsStill, BytesStill, MarksStill, netVars, sessVars, histVars
<1>9. Queued(s)' = Queued(s) /\ Holders(s)' = Holders(s) \ {w} /\ Accepts(s)' \subseteq Accepts(s)
  BY <1>5, MovedOwn
<1>10. LifeOf(s)'
  <2> SUFFICES ASSUME s \notin mixed PROVE Between(s)' /\ ActiveOf(s)'
    BY DEF LifeOf, histVars
  <2>1. Between(s) /\ ActiveOf(s)
    BY <1>1 DEF LifeOf
  <2>2. Accepts(s)' = {}
    BY <1>9, <2>1 DEF Between
  <2>3. Between(s)'
    BY <2>1, <2>2 DEF Between, sessVars
  <2>4. Holders(s) = {w} /\ Queued(s) = {} /\ recvs[s] = <<>> /\ Adding(s) = {}
    <3>1. w \in Holders(s) /\ ~Untaken(w)
      BY DEF Holders, Untaken
    <3> QED BY <2>1, <3>1, AloneAtWork
  <2>5. Holders(s)' = {} /\ Queued(s)' = {}
    BY <1>9, <2>4
  <2>6. recvs'[s] = <<e>> /\ Len(recvs'[s]) <= 1 /\ recvs'[s] # <<>>
    BY <1>4, <2>4
  <2>7. OneAtWork(s)'
    BY <2>5, <2>6, Zenon DEF OneAtWork
  <2>13. Attended(s)'
    BY <2>6, Zenon DEF Attended
  <2>8. Adding(s)' = {}
    BY <2>5 DEF Adding, Queued, Holders
  <2>9. BufferInv(s) /\ recv_buffer'[s] = b
    BY <2>1 DEF ActiveOf, sessVars, b
  <2>10. Holds(s, 0)'
    BY <2>4, <2>9 DEF BufferInv, Holds, sessVars, netVars, histVars, b
  <2>11. e = [at |-> b.write_pos, len |-> WriteValid(b)]
    BY DEF e, b, Room
  <2>12. BufferInv(s)'
    BY <2>5, <2>6, <2>8, <2>9, <2>10, <2>11 DEF BufferInv, b
  <2> QED BY <2>1, <2>3, <2>7, <2>12, <2>13 DEF ActiveOf, histVars
<1>11. OwnerInv' /\ LifeInv'
  <2>1. ConnsOf(s)' \subseteq ConnsOf(s)
    BY <1>9 DEF ConnsOf, histVars
  <2> QED BY <1>8, <1>10, <2>1, BytesSeen, Assemble DEF netVars, histVars
<1> QED
  BY <1>4, <1>6, <1>7, <1>11 DEF IocpInv

LEMMA WaitRecvKeeps ==
  ASSUME IocpInv, NEW w \in Workers, WaitRecv(w)
  PROVE  IocpInv'
<1>1. PICK a \in Sessions : a = hand[w].s
  BY DEF IocpInv, HandInv, WaitRecv, At
<1>2. /\ wpc[w] = "wait_recv" /\ resetting[w] = None
      /\ UNCHANGED <<netVars, conn, accepting, leaving, closed, stopVars, valid, sessVars,
                     histVars, queue>>
  BY DEF WaitRecv, At
<1>3. ~Done(wpc[w]) /\ ~Untaken(w) /\ Done("get") /\ ~Done("onclose")
  BY <1>2 DEF Done, Untaken
<1>4. /\ declined \subseteq Sessions /\ w \in Threads /\ hand[w].op \in {"accept", "recv"}
      /\ resetting \in [Threads -> Sessions \cup {None}] /\ recv_buffer[a] \in BufferType
  BY <1>2 DEF IocpInv, TypeOK, Threads, HandInv
<1>5. CASE /\ ~active[a] \/ Room(a) = 0
           /\ Goto(w, "get")
           /\ UNCHANGED <<recvs, resetting>>
  <2>1. ASSUME active[a], ActiveOf(a) PROVE Attended(a)'
    <3>1. recv_buffer[a].write_pos = data_len
      BY <1>4, <1>5, <2>1, BufferAssumption DEF Room, WriteValid, BufferType
    <3>2. w \in Holders(a)
      BY <1>1 DEF Holders
    <3>3. recv_buffer[a].read_pos = 0
      BY <1>2, <2>1, <3>1, <3>2 DEF ActiveOf, BufferInv
    <3>4. recv_buffer'[a] = recv_buffer[a]
      BY <1>2 DEF sessVars
    <3>5. ReadValid(recv_buffer'[a]) = data_len
      BY <3>1, <3>3, <3>4, BufferAssumption DEF ReadValid
    <3> QED BY <3>5 DEF Attended
  <2> QED BY <1>1, <1>2, <1>3, <1>4, <1>5, <2>1, WorkerKeeps DEF histVars, sockVars
<1>6. CASE /\ active[a] /\ Room(a) > 0 /\ Connected(a)
           /\ recvs' = [recvs EXCEPT ![a] = Append(@, [at |-> recv_buffer[a].write_pos,
                                                       len |-> Room(a)])]
           /\ Goto(w, "get") /\ UNCHANGED resetting
  BY <1>1, <1>2, <1>6, PostRecvKeeps
<1>7. CASE hand[w].op = "accept" /\ TestActive(w, a) /\ Goto(w, "get") /\ UNCHANGED recvs
  <2>1. /\ resetting' \in [Threads -> Sessions \cup {None}]
        /\ active[a] => resetting'[w] = a
        /\ \A r \in Sessions : (\E u \in Threads : resetting[u] = r)
                                 => \E u \in Threads : resetting'[u] = r
    BY <1>2, <1>4, <1>7, TestKeeps
  <2>2. active[a] => Attended(a)'
    BY <1>4, <2>1 DEF Attended
  <2> QED BY <1>1, <1>2, <1>3, <1>4, <1>7, <2>1, <2>2, WorkerKeeps DEF histVars, sockVars
<1>8. CASE hand[w].op # "accept" /\ Goto(w, "onclose") /\ UNCHANGED <<recvs, resetting>>
  <2>1. hand[w].op = "recv"
    BY <1>4, <1>8
  <2> QED BY <1>1, <1>2, <1>3, <1>4, <1>8, <2>1, WorkerKeeps DEF histVars, sockVars
<1> QED
  BY <1>1, <1>5, <1>6, <1>7, <1>8 DEF WaitRecv

(***************************************************************************)
(* The packet says what to do.                                             *)
(***************************************************************************)
LEMMA BranchIs ==
  ASSUME NEW p \in PacketType, PacketOK(p), p.s \in Sessions, listen_key \in {"listen", "cleared", "exit"}
  PROVE  /\ Branch(p) = "accepted" => p.op = "accept" /\ p.ok /\ p.conn # None
         /\ Branch(p) = "recv" => p.op = "recv" /\ p.ok
         /\ Branch(p) = "wait_accept" => p.op # "recv"
<1>1. p.s # None /\ p.n \in Nat /\ p.ok \in BOOLEAN
  BY NoneNoSession, BufferAssumption DEF PacketType
<1>2. \/ p.op = "accept" /\ p.key = "listen" /\ p.n = 0 /\ (p.ok => p.conn # None)
      \/ p.op = "recv" /\ p.key = "session"
      \/ p.op = "disconnect" /\ p.key = "session" /\ p.n = 0
  BY <1>1 DEF PacketOK
<1> DEFINE G1 == ~p.ok
           G2 == p.ok /\ p.key = "listen" /\ listen_key = "listen"
           G3 == p.ok /\ p.key = "session" /\ p.n > 0
           G4 == p.ok /\ p.n = 0 /\ (p.key = "session" \/ listen_key # "listen")
<1>3. CASE G1
  <2>1. ~G2 /\ ~G3 /\ ~G4
    BY <1>3
  <2>2. Branch(p) = "onclose"
    BY <1>3, <2>1, Zenon DEF Branch
  <2> QED BY <2>2
<1>4. CASE G2
  <2>1. ~G1 /\ ~G3 /\ ~G4
    BY <1>4
  <2>2. Branch(p) = "accepted"
    BY <1>4, <2>1, Zenon DEF Branch
  <2> QED BY <1>2, <1>4, <2>2
<1>5. CASE G3
  <2>1. ~G1 /\ ~G2 /\ ~G4
    BY <1>5
  <2>2. Branch(p) = "recv"
    BY <1>5, <2>1, Zenon DEF Branch
  <2> QED BY <1>1, <1>2, <1>5, <2>2
<1>6. CASE G4
  <2>1. ~G1 /\ ~G2 /\ ~G3
    BY <1>1, <1>2, <1>6
  <2>2. Branch(p) = IF p.op # "recv" /\ offset[p.s] = "reset" THEN "wait_accept" ELSE "onclose"
    BY <1>6, <2>1, Zenon DEF Branch
  <2> QED BY <2>2
<1>7. G1 \/ G2 \/ G3 \/ G4
  BY <1>1, <1>2
<1> QED
  BY <1>3, <1>4, <1>5, <1>6, <1>7

LEMMA DispatchedIs ==
  ASSUME IocpInv, NEW w \in Workers, NEW branch, Dispatched(w, branch)
  PROVE  /\ hand[w].s \in Sessions /\ wpc[w] = "dispatch" /\ Untaken(w) /\ ~Done(wpc[w])
         /\ branch = "accepted" => hand[w].op = "accept" /\ hand[w].ok /\ hand[w].conn \in Conns
         /\ branch = "recv" => hand[w].op = "recv" /\ hand[w].ok
         /\ branch = "wait_accept" => hand[w].op # "recv"
<1>1. /\ wpc[w] = "dispatch" /\ Branch(hand[w]) = branch /\ hand[w].s \in Sessions
      /\ hand[w] \in PacketType /\ PacketOK(hand[w]) /\ listen_key \in {"listen", "cleared", "exit"}
  BY DEF Dispatched, At, IocpInv, HandInv, TypeOK
<1>2. /\ branch = "accepted" => hand[w].op = "accept" /\ hand[w].ok /\ hand[w].conn # None
      /\ branch = "recv" => hand[w].op = "recv" /\ hand[w].ok
      /\ branch = "wait_accept" => hand[w].op # "recv"
  BY <1>1, BranchIs
<1>3. hand[w].conn \in Conns \cup {None}
  BY <1>1 DEF PacketType
<1> QED
  BY <1>1, <1>2, <1>3 DEF Untaken, Done

LEMMA WaitAcceptKeeps ==
  ASSUME IocpInv, NEW w \in Workers, WaitAccept(w)
  PROVE  IocpInv'
<1>1. PICK s \in Sessions : s = hand[w].s
  BY DispatchedIs DEF WaitAccept
<1>2. /\ Goto(w, "get") /\ offset' = [offset EXCEPT ![s] = "accept"]
      /\ accepting' = IF s \in closed \/ conn[s] # None THEN accepting
                      ELSE [accepting EXCEPT ![s] = TRUE]
      /\ UNCHANGED <<conn, leaving, recvs, closed, netVars, stopVars, valid, active,
                     recv_buffer, histVars, queue, resetting>>
  BY <1>1 DEF WaitAccept
<1>3. hand[w].op # "recv" /\ wpc[w] = "dispatch" /\ ~Done(wpc[w])
  BY DispatchedIs DEF WaitAccept
<1>4. "get" \in Positions /\ Done("get")
  BY DEF Positions, Done
<1>5. TypeOK /\ SocketInv /\ LifeOf(s)
  BY LifeIs DEF IocpInv
<1>6. TypeOK'
  <2>1. wpc' \in [Workers -> Positions] /\ hand' \in [Workers -> PacketType]
    BY <1>2, <1>4, Moved
  <2>2. \A v \in Workers : hand'[v].s \in Sessions \cup {None}
    BY <2>1 DEF PacketType
  <2>3. offset' \in [Sessions -> {"accept", "reset"}]
    BY <1>2, <1>5 DEF TypeOK
  <2> QED BY <1>2, <1>5, <2>1, <2>2, <2>3 DEF TypeOK, netVars, stopVars, histVars, Positions
<1>7. QueueInv' /\ HandInv'
  <2>1. HandInv'
    BY <1>2, <1>3, <1>4, MovedHands, HandTypes DEF stopVars
  <2> QED BY <1>2, <2>1, QueueStill DEF IocpInv
<1>8. /\ accepting' \in [Sessions -> BOOLEAN] /\ (accepting'[s] => conn[s] = None)
      /\ \A other : other # s => accepting'[other] = accepting[other]
  BY <1>2, <1>5 DEF SocketInv
<1>9. SocketInv'
  BY <1>2, <1>5, <1>8 DEF SocketInv, histVars
<1>10. \A other \in Sessions : other # s => Still(other)
  <2>1. \A other \in Sessions : other # s => PacketsStill(other)
    BY <1>1, <1>2, <1>4, MovedStill
  <2> QED BY <1>2, <1>8, <2>1 DEF Still, FieldsStill, BytesStill, MarksStill, netVars, histVars
<1>11. Accepts(s)' \subseteq Accepts(s)
  BY <1>1, <1>2, <1>4, MovedOwn
<1>12. LifeOf(s)'
  <2> SUFFICES ASSUME s \notin mixed PROVE Between(s)' /\ ~active[s]
    BY <1>2 DEF LifeOf, histVars
  <2>1. Between(s) /\ ~active[s]
    BY <1>1, <1>3, <1>5, HoldsReceive DEF LifeOf
  <2>2. \A c \in Accepts(s) : Untouched(c)' <=> Untouched(c)
    BY <1>2 DEF Untouched, netVars, histVars
  <2> QED BY <1>2, <1>11, <2>1, <2>2 DEF Between, histVars
<1>13. OwnerInv' /\ LifeInv'
  <2>1. ConnsOf(s)' \subseteq ConnsOf(s)
    BY <1>2, <1>11 DEF ConnsOf, histVars
  <2> QED BY <1>2, <1>10, <1>12, <2>1, BytesSeen, Assemble DEF netVars, histVars
<1> QED
  BY <1>6, <1>7, <1>9, <1>13 DEF IocpInv

(***************************************************************************)
(* The bytes of a receive are shown to the logic, which uses some of them. *)
(***************************************************************************)

\* A worker holds a receive of an active session and goes on with it.
LEMMA GoesOn ==
  ASSUME IocpInv, NEW w \in Workers, NEW pc \in {"in_recved", "wait_recv"}, Goto(w, pc),
         queue' = queue, recvs' = recvs, NEW a \in Sessions, hand[w].s = a, ActiveOf(a),
         hand[w].op = "recv"
  PROVE  /\ Queued(a)' = {} /\ Holders(a)' = {w} /\ recvs'[a] = <<>> /\ Adding(a)' = {}
         /\ OneAtWork(a)' /\ Attended(a)' /\ wpc'[w] = pc
<1>1. pc \in Positions /\ ~Done(pc)
  BY DEF Positions, Done
<1>2. wpc'[w] = pc /\ hand'[w] = hand[w] /\ Queued(a)' = Queued(a) /\ Holders(a)' = Holders(a)
  BY <1>1, Moved, MovedOwn
<1>3. w \in Holders(a)
  BY DEF Holders
<1>4. Holders(a) = {w} /\ Queued(a) = {} /\ recvs[a] = <<>>
  BY <1>3, AloneAtWork
<1>5. Queued(a)' = {} /\ Holders(a)' = {w} /\ recvs'[a] = <<>>
  BY <1>2, <1>4
<1>6. Adding(a)' = {}
  <2>1. \A n : n \in Adding(a)' <=>
          \/ \E i \in Queued(a)' : queue'[i].op = "recv" /\ queue'[i].n = n
          \/ \E v \in Holders(a)' : hand'[v].op = "recv" /\ Untaken(v)' /\ hand'[v].n = n
    BY DEF Adding, Queued, Holders, Untaken
  <2>2. ~Untaken(w)'
    BY <1>2 DEF Untaken
  <2> QED BY <1>5, <2>1, <2>2
<1>7. OneAtWork(a)'
  BY <1>2, <1>5 DEF OneAtWork
<1>8. Attended(a)'
  BY <1>5 DEF Attended
<1> QED
  BY <1>2, <1>5, <1>6, <1>7, <1>8

LEMMA RecvCompleteKeeps ==
  ASSUME IocpInv, NEW w \in Workers, RecvComplete(w)
  PROVE  IocpInv'
<1>1. PICK s \in Sessions : s = hand[w].s
  BY DispatchedIs DEF RecvComplete
<1> DEFINE b == recv_buffer[s]
           n == hand[w].n
           c == AddWritePos(b, n)
<1>2. /\ Goto(w, "in_recved") /\ recv_buffer' = [recv_buffer EXCEPT ![s] = c]
      /\ valid' = [valid EXCEPT ![w] = ReadValid(c)]
      /\ UNCHANGED <<sockVars, netVars, stopVars, active, offset, histVars, queue, resetting>>
  BY <1>1 DEF RecvComplete
<1>3. /\ hand[w].op = "recv" /\ wpc[w] = "dispatch" /\ ~Done(wpc[w]) /\ Untaken(w)
  BY DispatchedIs DEF RecvComplete
<1>4. "in_recved" \in Positions /\ ~Done("in_recved")
  BY DEF Positions, Done
<1>5. /\ TypeOK /\ SocketInv /\ LifeOf(s) /\ b \in BufferType /\ n \in 0 .. data_len
      /\ valid \in [Workers -> Int] /\ recv_buffer \in [Sessions -> BufferType]
  BY LifeIs, HandTypes DEF IocpInv, TypeOK, PacketType
<1> HIDE DEF b, n
<1>6. /\ c \in BufferType /\ c.read_pos = b.read_pos
      /\ n <= WriteValid(b) => c.write_pos = b.write_pos + n
  BY <1>5, AddWriteType
<1>7. ReadValid(c) \in -data_len .. data_len /\ ReadValid(c) \in Int
  BY <1>6, BufferAssumption DEF ReadValid, BufferType
<1> HIDE DEF c
<1>8. /\ recv_buffer' \in [Sessions -> BufferType] /\ recv_buffer'[s] = c
      /\ \A other : other # s => recv_buffer'[other] = recv_buffer[other]
      /\ valid' \in [Workers -> Int] /\ valid'[w] = ReadValid(c)
      /\ \A v \in Workers : v # w => valid'[v] = valid[v]
      /\ \A v \in Workers : valid'[v] \in -data_len .. data_len
  BY <1>2, <1>5, <1>6, <1>7 DEF TypeOK
<1>9. TypeOK'
  <2>1. wpc' \in [Workers -> Positions] /\ hand' \in [Workers -> PacketType]
    BY <1>2, <1>4, Moved
  <2>2. \A v \in Workers : hand'[v].s \in Sessions \cup {None}
    BY <2>1 DEF PacketType
  <2> QED BY <1>2, <1>5, <1>8, <2>1, <2>2 DEF TypeOK, sockVars, netVars, stopVars, histVars, Positions
<1>10. QueueInv' /\ HandInv'
  <2>1. HandInv'
    BY <1>1, <1>2, <1>3, <1>4, <1>8, MovedHands DEF stopVars
  <2> QED BY <1>2, <2>1, QueueStill DEF IocpInv
<1>11. SocketInv'
  BY <1>2, <1>5 DEF SocketInv, sockVars, histVars
<1>12. \A other \in Sessions : other # s => Still(other)
  <2>1. \A other \in Sessions : other # s => PacketsStill(other)
    BY <1>1, <1>2, <1>4, <1>8, MovedStill
  <2> QED BY <1>2, <1>8, <2>1 DEF Still, FieldsStill, BytesStill, MarksStill, sockVars, netVars, histVars
<1>13. Accepts(s)' \subseteq Accepts(s)
  BY <1>1, <1>2, <1>4, MovedOwn
<1>14. LifeOf(s)'
  <2> SUFFICES ASSUME s \notin mixed PROVE Between(s)' /\ (active[s] => ActiveOf(s)')
    BY <1>2 DEF LifeOf, histVars
  <2>1. Between(s) /\ (active[s] => ActiveOf(s))
    BY <1>5 DEF LifeOf
  <2>2. Between(s)'
    <3>1. \A e \in Accepts(s) : Untouched(e)' <=> Untouched(e)
      BY <1>2 DEF Untouched, netVars, histVars
    <3> QED BY <1>2, <1>13, <2>1, <3>1 DEF Between, sockVars, histVars
  <2>3. ASSUME active[s] PROVE ActiveOf(s)'
    <3>1. ActiveOf(s) /\ w \in Holders(s)
      BY <1>1, <2>1, <2>3 DEF Holders
    <3>2. /\ Holders(s)' = {w} /\ recvs'[s] = <<>> /\ Adding(s)' = {} /\ OneAtWork(s)'
          /\ Attended(s)' /\ wpc'[w] = "in_recved"
      BY <1>1, <1>2, <1>3, <3>1, GoesOn DEF sockVars
    <3>3. Adding(s) = {n}
      BY <1>3, <3>1, AloneAtWork DEF n
    <3>4. n <= WriteValid(b) /\ Holds(s, n) /\ b.read_pos <= b.write_pos
      BY <3>1, <3>3 DEF ActiveOf, BufferInv, b
    <3>5. Holds(s, 0)'
      <4>1. AddWritePos(c, 0) = c
        BY <1>6, AddZero
      <4>2. consumed[entered[s]] \o Content(c) = SubSeq(Stream[entered[s]], 1, sentbytes[entered[s]])
        BY <3>4 DEF Holds, b, c
      <4>3. /\ entered' = entered /\ consumed' = consumed /\ sentbytes' = sentbytes
            /\ recv_buffer'[s] = c
        BY <1>2, <1>8 DEF netVars, histVars
      <4> QED BY <4>1, <4>2, <4>3 DEF Holds
    <3>6. c.read_pos <= c.write_pos
      BY <1>5, <1>6, <3>4, BufferAssumption DEF BufferType
    <3>7. BufferInv(s)'
      <4>1. recv_buffer'[s] = c /\ valid'[w] = ReadValid(c)
        BY <1>8
      <4> QED BY <3>2, <3>5, <3>6, <4>1 DEF BufferInv
    <3> QED BY <1>2, <3>1, <3>2, <3>7 DEF ActiveOf, sockVars, histVars
  <2> QED BY <2>2, <2>3
<1>15. OwnerInv' /\ LifeInv'
  <2>1. ConnsOf(s)' \subseteq ConnsOf(s)
    BY <1>2, <1>13 DEF ConnsOf, histVars, sockVars
  <2> QED BY <1>2, <1>12, <1>14, <2>1, BytesSeen, Assemble DEF netVars, histVars
<1> QED
  BY <1>9, <1>10, <1>11, <1>15 DEF IocpInv

LEMMA RecvedKeeps ==
  ASSUME IocpInv, NEW w \in Workers, NEW n \in 0 .. data_len, Recved(w, n)
  PROVE  IocpInv'
<1>1. PICK s \in Sessions : s = hand[w].s
  BY DEF IocpInv, HandInv, Recved, At
<1> DEFINE b == recv_buffer[s]
           c == Compacted(AddReadPos(b, n))
           e == entered[s]
           used == Used(b, n)
<1>2. /\ wpc[w] = "in_recved" /\ Goto(w, "wait_recv") /\ (n > 0 => n <= valid[w])
      /\ recv_buffer' = [recv_buffer EXCEPT ![s] = c]
      /\ consumed' = IF s \in mixed THEN consumed ELSE [consumed EXCEPT ![e] = @ \o used]
      /\ valid' = [valid EXCEPT ![w] = 0]
      /\ UNCHANGED <<sockVars, netVars, stopVars, active, offset, entered, mixed,
                     lost, declined, queue, resetting>>
  BY <1>1 DEF Recved, At
<1>3. hand[w].op = "recv" /\ ~Done(wpc[w])
  BY <1>2 DEF IocpInv, HandInv, Done
<1>4. "wait_recv" \in Positions /\ ~Done("wait_recv")
  BY DEF Positions, Done
<1>5. /\ TypeOK /\ SocketInv /\ OwnerInv /\ LifeOf(s) /\ b \in BufferType
      /\ valid \in [Workers -> Int] /\ recv_buffer \in [Sessions -> BufferType]
      /\ consumed \in [Conns -> Seq(Bytes)] /\ e \in Conns \cup {None}
  BY LifeIs, HandTypes DEF IocpInv, TypeOK, SocketInv
<1> HIDE DEF b, e
<1>6. c \in BufferType /\ used \in Seq(Bytes)
  BY <1>5, AddReadType, CompactedIs, UsedType
<1> HIDE DEF c, used
<1>7. /\ recv_buffer' \in [Sessions -> BufferType] /\ recv_buffer'[s] = c
      /\ \A other : other # s => recv_buffer'[other] = recv_buffer[other]
  BY <1>2, <1>5, <1>6
<1>8. /\ valid' \in [Workers -> Int]
      /\ \A v \in Workers : v # w => valid'[v] = valid[v]
      /\ \A v \in Workers : valid'[v] \in -data_len .. data_len
  <2>1. 0 \in -data_len .. data_len
    BY BufferAssumption
  <2> QED BY <1>2, <1>5, <2>1 DEF TypeOK
<1>9. /\ consumed' \in [Conns -> Seq(Bytes)]
      /\ \A o : o # e => consumed'[o] = consumed[o]
      /\ s \in mixed => consumed' = consumed
      /\ s \notin mixed /\ e # None => consumed'[e] = consumed[e] \o used
  <2> DEFINE S == Seq(Bytes)
  <2>1. CASE e = None \/ s \in mixed
    <3>1. e = None => e \notin Conns
      BY NoneNoSession
    <3> HIDE DEF S
    <3>2. consumed' = consumed
      BY <1>2, <1>5, <2>1, <3>1 DEF S
    <3> QED BY <1>5, <2>1, <3>2 DEF S
  <2>2. CASE e # None /\ s \notin mixed
    <3>1. e \in Conns /\ consumed[e] \in S
      BY <1>5, <2>2
    <3>2. consumed[e] \o used \in S
      BY <1>6, <3>1, ConcatProperties
    <3>3. consumed' = [consumed EXCEPT ![e] = consumed[e] \o used] /\ consumed \in [Conns -> S]
      BY <1>2, <1>5, <2>2
    <3> HIDE DEF S
    <3>4. /\ consumed' \in [Conns -> S] /\ consumed'[e] = consumed[e] \o used
          /\ \A o : o # e => consumed'[o] = consumed[o]
      BY <3>1, <3>2, <3>3
    <3> QED BY <2>2, <3>4 DEF S
  <2> QED BY <2>1, <2>2
<1>10. TypeOK'
  <2>1. wpc' \in [Workers -> Positions] /\ hand' \in [Workers -> PacketType]
    BY <1>2, <1>4, Moved
  <2>2. \A v \in Workers : hand'[v].s \in Sessions \cup {None}
    BY <2>1 DEF PacketType
  <2> QED BY <1>2, <1>5, <1>7, <1>8, <1>9, <2>1, <2>2 DEF TypeOK, sockVars, netVars, stopVars, Positions
<1>11. QueueInv' /\ HandInv'
  <2>1. HandInv'
    BY <1>1, <1>2, <1>3, <1>4, <1>8, MovedHands DEF stopVars
  <2> QED BY <1>2, <2>1, QueueStill DEF IocpInv
<1>12. SocketInv'
  BY <1>2, <1>5 DEF SocketInv, sockVars
<1>13. \A other \in Sessions : other # s => Still(other)
  <2> SUFFICES ASSUME NEW other \in Sessions, other # s PROVE Still(other)
    OBVIOUS
  <2>1. PacketsStill(other)
    BY <1>1, <1>2, <1>4, <1>8, MovedStill
  <2>2. \A o \in ConnsOf(other) : o # e
    <3> TAKE o \in ConnsOf(other)
    <3>1. o # None /\ o \notin ConnsOf(s)
      BY <1>5, Apart
    <3> QED BY <3>1 DEF ConnsOf, e
  <2>3. BytesStill(other)
    BY <1>2, <1>9, <2>2 DEF BytesStill, netVars
  <2> QED BY <1>2, <1>7, <2>1, <2>3 DEF Still, FieldsStill, MarksStill, sockVars
<1>14. Accepts(s)' \subseteq Accepts(s)
  BY <1>1, <1>2, <1>4, MovedOwn
<1>15. LifeOf(s)'
  <2> SUFFICES ASSUME s \notin mixed PROVE Between(s)' /\ (active[s] => ActiveOf(s)')
    BY <1>2 DEF LifeOf
  <2>1. Between(s) /\ (active[s] => ActiveOf(s))
    BY <1>5 DEF LifeOf
  <2>2. Between(s)'
    <3>1. \A o \in Accepts(s) : Untouched(o)' <=> Untouched(o)
      BY <1>2, <1>9, <2>1 DEF Untouched, netVars, Between, e
    <3> QED BY <1>2, <1>14, <2>1, <3>1 DEF Between, sockVars
  <2>3. ASSUME active[s] PROVE ActiveOf(s)'
    <3>1. ActiveOf(s) /\ w \in Holders(s) /\ e # None /\ e \in Conns
      BY <1>1, <1>5, <2>1, <2>3 DEF Holders, ActiveOf, e
    <3>2. /\ Holders(s)' = {w} /\ recvs'[s] = <<>> /\ Adding(s)' = {} /\ OneAtWork(s)'
          /\ Attended(s)' /\ wpc'[w] = "wait_recv"
      BY <1>1, <1>2, <1>3, <3>1, GoesOn DEF sockVars
    <3>3. Adding(s) = {}
      BY <1>2, <3>1, AloneAtWork DEF Untaken
    <3>4. BufferInv(s) /\ Holds(s, 0) /\ Orderly(b) /\ valid[w] = ReadValid(b)
      BY <1>2, <1>5, <3>1, <3>3 DEF ActiveOf, BufferInv, Orderly, b
    <3>5. n \in 0 .. ReadValid(b)
      <4>1. ReadValid(b) \in Nat
        BY <3>4, BufferFields DEF ReadValid
      <4> QED BY <1>2, <3>4, <4>1
    <3>6. /\ Orderly(AddReadPos(b, n)) /\ Content(b) = used \o Content(AddReadPos(b, n))
          /\ Content(AddReadPos(b, n)) \in Seq(Bytes)
      BY <3>4, <3>5, ReadSplits DEF used
    <3>7. /\ Orderly(c) /\ Content(c) = Content(AddReadPos(b, n))
          /\ c.write_pos = data_len => c.read_pos = 0
      <4> DEFINE r == AddReadPos(b, n)
      <4>1. Orderly(r) /\ r \in BufferType
        BY <3>6 DEF Orderly
      <4>2. c = Compacted(r)
        BY DEF c
      <4> HIDE DEF r
      <4>3. /\ Orderly(Compacted(r)) /\ Content(Compacted(r)) = Content(r)
            /\ Compacted(r).write_pos = data_len => Compacted(r).read_pos = 0
        BY <4>1, CompactedIs
      <4> QED BY <4>2, <4>3 DEF r
    <3>8. consumed[e] \o (used \o Content(c)) = SubSeq(Stream[e], 1, sentbytes[e])
      <4>1. AddWritePos(b, 0) = b
        BY <1>5, AddZero
      <4>2. consumed[e] \o Content(b) = SubSeq(Stream[e], 1, sentbytes[e])
        BY <3>4, <4>1 DEF Holds, b, e
      <4> QED BY <3>6, <3>7, <4>2
    <3>9. (consumed[e] \o used) \o Content(c) = consumed[e] \o (used \o Content(c))
      <4>1. consumed[e] \in Seq(Bytes) /\ Content(c) \in Seq(Bytes)
        BY <1>5, <3>1, <3>6, <3>7
      <4>2. Associative(Seq(Bytes))
        BY Associates
      <4> QED BY <1>6, <4>1, <4>2, Zenon DEF Associative
    <3>10. Holds(s, 0)'
      <4>1. AddWritePos(c, 0) = c
        BY <1>6, AddZero
      <4>2. /\ entered'[s] = e /\ consumed'[e] = consumed[e] \o used /\ sentbytes' = sentbytes
            /\ recv_buffer'[s] = c
        BY <1>2, <1>7, <1>9, <3>1 DEF netVars, e
      <4> QED BY <3>8, <3>9, <4>1, <4>2 DEF Holds
    <3>11. BufferInv(s)'
      <4>1. recv_buffer'[s] = c /\ c.read_pos <= c.write_pos
        BY <1>7, <3>7 DEF Orderly
      <4> QED BY <3>2, <3>7, <3>10, <4>1 DEF BufferInv
    <3> QED BY <1>2, <3>1, <3>2, <3>11 DEF ActiveOf, sockVars
  <2> QED BY <2>2, <2>3
<1>16. OwnerInv' /\ LifeInv'
  <2>1. ConnsOf(s)' \subseteq ConnsOf(s)
    BY <1>2, <1>14 DEF ConnsOf, sockVars
  <2>2. \A o \in backlog : Untouched(o)'
    <3>1. e # None => e \notin backlog
      BY <1>5 DEF OwnerInv, ConnsOf, e
    <3>2. \A o \in backlog : o # e
      BY <1>5, <3>1, NoneNoSession DEF OwnerInv
    <3> QED BY <1>2, <1>5, <1>9, <3>2 DEF OwnerInv, Untouched, netVars
  <2>3. /\ backlog' = backlog /\ sentbytes' \in [Conns -> Nat]
        /\ \A o \in Conns : sentbytes'[o] <= Len(Stream[o])
    BY <1>2, <1>5 DEF OwnerInv, netVars
  <2> QED BY <1>13, <1>15, <2>1, <2>2, <2>3, Assemble
<1> QED
  BY <1>10, <1>11, <1>12, <1>16 DEF IocpInv

(***************************************************************************)
(* A session begins its life with a connection.                            *)
(***************************************************************************)
LEMMA AcceptCompleteKeeps ==
  ASSUME IocpInv, NEW w \in Workers, AcceptComplete(w)
  PROVE  IocpInv'
<1>1. PICK s \in Sessions : s = hand[w].s
  BY DispatchedIs DEF AcceptComplete
<1>2. PICK c \in Conns : c = hand[w].conn
  BY DispatchedIs DEF AcceptComplete
<1>3. /\ Goto(w, "wait_recv") /\ recv_buffer' = [recv_buffer EXCEPT ![s] = EmptyBuffer]
      /\ active' = [active EXCEPT ![s] = TRUE] /\ entered' = [entered EXCEPT ![s] = c]
      /\ mixed' = IF Remnants(w, s) THEN mixed \cup {s} ELSE mixed
      /\ UNCHANGED <<sockVars, netVars, stopVars, valid, offset, consumed, lost, declined,
                     queue, resetting>>
  BY <1>1, <1>2 DEF AcceptComplete, FreshBuffer
<1>4. /\ hand[w].op = "accept" /\ hand[w].ok /\ wpc[w] = "dispatch" /\ ~Done(wpc[w])
      /\ Untaken(w)
  BY DispatchedIs DEF AcceptComplete
<1>5. "wait_recv" \in Positions /\ ~Done("wait_recv")
  BY DEF Positions, Done
<1>6. /\ TypeOK /\ SocketInv /\ LifeOf(s) /\ c # None
      /\ EmptyBuffer \in BufferType /\ Orderly(EmptyBuffer)
  BY LifeIs, EmptyIs, NoneNoSession DEF IocpInv, Orderly
<1>7. /\ recv_buffer' \in [Sessions -> BufferType] /\ recv_buffer'[s] = EmptyBuffer
      /\ active' \in [Sessions -> BOOLEAN] /\ entered' \in [Sessions -> Conns \cup {None}]
      /\ entered'[s] = c
      /\ \A other : other # s => /\ recv_buffer'[other] = recv_buffer[other]
                                 /\ active'[other] = active[other]
                                 /\ entered'[other] = entered[other]
      /\ mixed \subseteq mixed' /\ mixed' \subseteq Sessions
  BY <1>3, <1>6 DEF TypeOK, SocketInv
<1>8. TypeOK'
  <2>1. wpc' \in [Workers -> Positions] /\ hand' \in [Workers -> PacketType]
    BY <1>3, <1>5, Moved
  <2>2. \A v \in Workers : hand'[v].s \in Sessions \cup {None}
    BY <2>1 DEF PacketType
  <2> QED BY <1>3, <1>6, <1>7, <2>1, <2>2 DEF TypeOK, sockVars, netVars, stopVars, Positions
<1>9. QueueInv' /\ HandInv'
  <2>1. HandInv'
    BY <1>1, <1>3, <1>4, <1>5, MovedHands, HandTypes DEF stopVars
  <2> QED BY <1>3, <2>1, QueueStill DEF IocpInv
<1>10. SocketInv'
  BY <1>3, <1>6, <1>7 DEF SocketInv, sockVars
<1>11. \A other \in Sessions : other # s => Still(other)
  <2>1. \A other \in Sessions : other # s => PacketsStill(other)
    BY <1>1, <1>3, <1>5, MovedStill
  <2> QED BY <1>3, <1>7, <2>1 DEF Still, FieldsStill, BytesStill, MarksStill, sockVars, netVars
<1>12. Queued(s)' = Queued(s) /\ Holders(s)' = Holders(s) /\ Accepts(s)' \subseteq Accepts(s)
  BY <1>1, <1>3, <1>5, MovedOwn
<1>13. c \in Accepts(s) /\ w \in Holders(s)
  BY <1>1, <1>2, <1>4 DEF Accepts, Holders, Waiting
<1>14. LifeOf(s)'
  <2> SUFFICES ASSUME s \notin mixed' PROVE Between(s)' /\ ActiveOf(s)'
    BY DEF LifeOf
  <2>1. ~Remnants(w, s) /\ s \notin mixed
    BY <1>3
  <2>2. Queued(s)' = {} /\ Holders(s)' = {w}
    <3>1. Queued(s) = {} /\ \A v \in Holders(s) : v = w
      BY <2>1 DEF Remnants, Queued, Holders
    <3> QED BY <1>12, <1>13, <3>1
  <2>3. wpc'[w] = "wait_recv" /\ ~Untaken(w)'
    BY <1>3, <1>5, Moved DEF Untaken
  <2>4. Accepts(s)' = {} /\ Adding(s)' = {}
    <3>1. \A o : o \in Accepts(s)' =>
             \/ \E i \in Queued(s)' : Waiting(queue'[i]) /\ queue'[i].conn = o
             \/ \E v \in Holders(s)' : Untaken(v)'
      BY DEF Accepts, Waiting
    <3>2. \A o : o \in Adding(s)' =>
             (\E i \in Queued(s)' : queue'[i].n = o) \/ (\E v \in Holders(s)' : Untaken(v)')
      BY DEF Adding, Queued, Holders, Untaken
    <3> QED BY <2>2, <2>3, <3>1, <3>2
  <2>5. /\ c = conn[s] /\ c # entered[s] /\ Untouched(c) /\ ~leaving[s] /\ recvs[s] = <<>>
    BY <1>6, <1>13, <2>1 DEF LifeOf, Between
  <2>6. ~accepting[s]
    BY <1>6, <2>5 DEF SocketInv
  <2>7. Between(s)'
    BY <1>3, <2>4, <2>6 DEF Between, sockVars
  <2>8. conn'[s] = entered'[s] /\ conn'[s] # None /\ ~leaving'[s] /\ recvs'[s] = <<>>
    BY <1>3, <1>6, <1>7, <2>5 DEF sockVars
  <2>9. OneAtWork(s)' /\ Attended(s)'
    BY <2>2, <2>3, <2>8 DEF OneAtWork, Attended
  <2>10. Holds(s, 0)'
    <3>1. consumed[c] = <<>> /\ sentbytes[c] = 0
      BY <2>5 DEF Untouched
    <3>2. AddWritePos(EmptyBuffer, 0) = EmptyBuffer /\ Content(EmptyBuffer) = <<>>
      BY <1>6, AddZero, EmptyIs
    <3>3. Stream[c] \in Seq(Bytes)
      BY IocpAssumption
    <3>4. SubSeq(Stream[c], 1, 0) = <<>> /\ <<>> \o <<>> = <<>>
      BY <3>3
    <3>5. /\ entered'[s] = c /\ consumed' = consumed /\ sentbytes' = sentbytes
          /\ recv_buffer'[s] = EmptyBuffer
      BY <1>3, <1>7 DEF netVars
    <3> QED BY <3>1, <3>2, <3>4, <3>5 DEF Holds
  <2>11. BufferInv(s)'
    <3>1. recv_buffer'[s] = EmptyBuffer /\ EmptyBuffer.read_pos = 0
          /\ EmptyBuffer.read_pos <= EmptyBuffer.write_pos
      BY <1>6, <1>7 DEF Orderly, EmptyBuffer
    <3> QED BY <2>2, <2>3, <2>4, <2>8, <2>10, <3>1 DEF BufferInv
  <2> QED BY <2>7, <2>8, <2>9, <2>11 DEF ActiveOf
<1>15. OwnerInv' /\ LifeInv'
  <2>1. ConnsOf(s)' \subseteq ConnsOf(s)
    BY <1>3, <1>6, <1>7, <1>12, <1>13 DEF ConnsOf, sockVars
  <2> QED BY <1>3, <1>11, <1>14, <2>1, BytesSeen, Assemble DEF netVars
<1> QED
  BY <1>8, <1>9, <1>10, <1>15 DEF IocpInv

(***************************************************************************)
(* A worker takes a packet from the completion port.                       *)
(***************************************************************************)

LEMMA HeadOK ==
  ASSUME IocpInv, queue # <<>>
  PROVE  /\ Head(queue) \in PacketType /\ PacketOK(Head(queue)) /\ Head(queue) = queue[1]
         /\ Head(queue).key = "null" => Head(queue).s = None
         /\ 1 \in Queued(Head(queue).s) /\ Tail(queue) \in Seq(PacketType)
         /\ Len(Tail(queue)) \in Nat
<1>1. queue \in Seq(PacketType) /\ \A i \in 1 .. Len(queue) : PacketOK(queue[i])
  BY DEF IocpInv, QueueInv
<1>2. /\ Len(queue) \in Nat \ {0} /\ Head(queue) = queue[1] /\ Tail(queue) \in Seq(PacketType)
      /\ Len(Tail(queue)) = Len(queue) - 1
  BY <1>1, TailFacts
<1>3. 1 \in 1 .. Len(queue)
  BY <1>2
<1>4. Head(queue) \in PacketType /\ PacketOK(Head(queue))
  BY <1>1, <1>2, <1>3
<1> QED
  BY <1>2, <1>3, <1>4 DEF Queued, PacketOK

LEMMA QueueTaken ==
  ASSUME IocpInv, queue # <<>>, queue' = Tail(queue),
         UNCHANGED <<listen_key, spc, closing>>,
         close_num' = IF Head(queue).key = "null" THEN close_num + 1 ELSE close_num
  PROVE  QueueInv' /\ close_num' \in 0 .. max_num
<1>1. /\ QueueInv /\ queue \in Seq(PacketType) /\ close_num \in Nat /\ closing \in 0 .. max_num
      /\ max_num \in Nat /\ close_num \in 0 .. max_num
  BY IocpAssumption DEF IocpInv, QueueInv, TypeOK
<1>2. Cardinality(Keyless(queue))
        = Cardinality(Keyless(Tail(queue))) + (IF Head(queue).key = "null" THEN 1 ELSE 0)
  BY <1>1, TailKeyless
<1>3. Cardinality(Keyless(Tail(queue))) \in Nat
  BY HeadOK, KeylessFinite
<1>4. close_num + Cardinality(Keyless(queue)) = closing
  BY <1>1 DEF QueueInv, Uncounted, Keyless
<1>5. close_num' + Cardinality(Keyless(queue')) = closing /\ close_num' \in 0 .. max_num
  BY <1>1, <1>2, <1>3, <1>4, SMTT(30)
<1>6. ASSUME NEW i \in 1 .. Len(queue') PROVE PacketOK(queue[i])'
  <2>1. i + 1 \in 1 .. Len(queue) /\ queue'[i] = queue[i + 1]
    BY <1>1, TailFacts
  <2>2. PacketOK(queue[i + 1])
    BY <1>1, <2>1 DEF QueueInv
  <2> QED BY <2>1, <2>2, PacketStillOK
<1>7. queue' \in Seq(PacketType)
  BY HeadOK
<1>8. close_num' + Cardinality(Uncounted)' = closing'
  BY <1>5 DEF Uncounted, Keyless
<1> QED
  BY <1>1, <1>5, <1>6, <1>7, <1>8 DEF QueueInv

\* Packets of stop are counted and belong to no session.
LEMMA CountKeeps ==
  ASSUME IocpInv, queue # <<>>, queue' = Tail(queue), Head(queue).key = "null",
         close_num' = close_num + 1, UNCHANGED <<wpc, hand, valid>>,
         UNCHANGED <<sockVars, netVars, listen_key, spc, closing, sessVars, histVars, resetting>>
  PROVE  IocpInv'
<1>1. QueueInv' /\ close_num' \in 0 .. max_num
  BY QueueTaken
<1>2. HandsStill /\ HandInv'
  BY HandStill DEF HandsStill, workVars, IocpInv
<1>3. TypeOK'
  BY <1>1 DEF IocpInv, TypeOK, sockVars, netVars, sessVars, histVars
<1>4. \A s \in Sessions : PacketsStill(s)
  <2>1. queue \in Seq(PacketType) /\ Head(queue).s = None
    BY HeadOK, HandTypes
  <2>2. \A s \in Sessions : Kept(queue, queue', s)
    BY <2>1, TailKept, NoneNoSession
  <2> QED BY <2>2 DEF PacketsStill
<1>5. SocketInv' /\ OwnerInv' /\ LifeInv'
  BY <1>4, SessionsUntouched DEF sockVars, netVars
<1> QED
  BY <1>1, <1>2, <1>3, <1>5 DEF IocpInv

\* What a session has of packets when the worker has taken one of them.
LEMMA TakenOwn ==
  ASSUME IocpInv, NEW w \in Workers, queue # <<>>, queue' = Tail(queue), wpc[w] = "get",
         hand' = [hand EXCEPT ![w] = Head(queue)], wpc' = [wpc EXCEPT ![w] = "select"],
         NEW a \in Sessions, Head(queue).s = a
  PROVE  /\ hand'[w] = Head(queue) /\ wpc'[w] = "select"
         /\ Holders(a)' = Holders(a) \cup {w}
         /\ Accepts(a)' \subseteq Accepts(a)
         /\ OneAtWork(a) => Queued(a)' = {} /\ Holders(a)' = {w} /\ recvs[a] = <<>>
                            /\ Head(queue).op = "recv" /\ Adding(a) = {Head(queue).n}
<1>1. /\ queue \in Seq(PacketType) /\ Head(queue) = queue[1] /\ 1 \in Queued(a)
      /\ hand \in [Workers -> PacketType] /\ wpc \in [Workers -> Positions]
  BY HeadOK, HandTypes
<1>2. /\ hand'[w] = Head(queue) /\ wpc'[w] = "select"
      /\ \A v \in Workers : v # w => hand'[v] = hand[v] /\ wpc'[v] = wpc[v]
  BY <1>1
<1>3. Holders(a)' = Holders(a) \cup {w}
  BY <1>2 DEF Holders
<1>4. \A i \in Queued(a)' : i + 1 \in Queued(a) /\ queue'[i] = queue[i + 1]
  BY <1>1, TailFrom DEF Queued, QAt
<1>5. ASSUME NEW c \in Accepts(a)' PROVE c \in Accepts(a)
  <2>1. \/ \E i \in Queued(a)' : Waiting(queue'[i]) /\ queue'[i].conn = c
        \/ \E v \in Holders(a)' : Holder(v, c)'
    BY DEF Accepts, Holder, Waiting
  <2>2. ASSUME NEW v \in Holders(a)', Holder(v, c)'
        PROVE  \/ \E i \in Queued(a) : Waiting(queue[i]) /\ queue[i].conn = c
               \/ \E u \in Holders(a) : Holder(u, c)
    <3>1. CASE v = w
      BY <1>1, <1>2, <2>2, <3>1 DEF Holder, Waiting
    <3>2. CASE v # w
      BY <1>2, <1>3, <2>2, <3>2 DEF Holder, Waiting, Untaken, Holders
    <3> QED BY <3>1, <3>2
  <2> QED BY <1>4, <2>1, <2>2, AcceptsIs
<1>6. ASSUME OneAtWork(a)
      PROVE  /\ Queued(a)' = {} /\ Holders(a)' = {w} /\ recvs[a] = <<>>
             /\ Head(queue).op = "recv" /\ Adding(a) = {Head(queue).n}
  <2>1. /\ \A i, j \in Queued(a) : i = j
        /\ Holders(a) = {} /\ recvs[a] = <<>> /\ queue[1].op = "recv"
    BY <1>1, <1>6 DEF OneAtWork
  <2>2. Queued(a)' = {}
    BY <1>1, <2>1, TailTakes DEF Queued, QAt
  <2>3. \A n : n \in Adding(a) <=> n = queue[1].n
    BY <1>1, <2>1, AddingIs
  <2>4. Adding(a) = {queue[1].n}
    BY <2>3
  <2> QED BY <1>1, <1>3, <2>1, <2>2, <2>4
<1> QED
  BY <1>2, <1>3, <1>5, <1>6

LEMMA TakeKeeps ==
  ASSUME IocpInv, NEW w \in Workers, queue # <<>>, queue' = Tail(queue), wpc[w] = "get",
         Head(queue).key # "null",
         hand' = [hand EXCEPT ![w] = Head(queue)], wpc' = [wpc EXCEPT ![w] = "select"],
         UNCHANGED <<sockVars, netVars, stopVars, valid, sessVars, histVars, resetting>>
  PROVE  IocpInv'
<1> DEFINE p == Head(queue)
<1>1. /\ queue \in Seq(PacketType) /\ p \in PacketType /\ PacketOK(p)
      /\ hand \in [Workers -> PacketType] /\ wpc \in [Workers -> Positions]
      /\ valid \in [Workers -> Int] /\ p.s \in Sessions \cup {None}
  BY HeadOK, HandTypes DEF PacketType
<1>2. /\ hand'[w] = p /\ wpc'[w] = "select"
      /\ \A v \in Workers : v # w => hand'[v] = hand[v] /\ wpc'[v] = wpc[v]
      /\ hand' \in [Workers -> PacketType] /\ wpc' \in [Workers -> Positions]
  BY <1>1 DEF Positions
<1>3. TypeOK'
  <2>1. \A v \in Workers : hand'[v].s \in Sessions \cup {None}
    BY <1>2 DEF PacketType
  <2> QED BY <1>2, <2>1
        DEF IocpInv, TypeOK, sockVars, netVars, stopVars, sessVars, histVars, Positions
<1>4. QueueInv'
  BY QueueTaken DEF stopVars
<1>5. HandInv'
  <2>1. HandInv
    BY DEF IocpInv
  <2>2. \A v \in Workers : PacketOK(hand[v])'
    BY <1>1, <1>2, <2>1 DEF HandInv, PacketOK, stopVars
  <2>3. ASSUME NEW v \in Workers
        PROVE  /\ IF wpc'[v] \in {"get", "exit"} THEN hand'[v] = NoPacket ELSE hand'[v].key # "null"
               /\ wpc'[v] \notin {"get", "exit", "select"} => hand'[v].s \in Sessions
               /\ wpc'[v] = "in_recved" => hand'[v].op = "recv"
               /\ wpc'[v] = "wait_recv" => hand'[v].op \in {"accept", "recv"}
    BY <1>2, <2>1 DEF HandInv
  <2> QED BY <1>1, <1>2, <2>2, <2>3 DEF HandInv
<1>6. SocketInv'
  BY DEF IocpInv, SocketInv, sockVars, histVars
<1>7. \A s \in Sessions : s # p.s => Still(s)
  <2> SUFFICES ASSUME NEW s \in Sessions, s # p.s PROVE Still(s)
    OBVIOUS
  <2>1. Kept(queue, queue', s)
    BY <1>1, TailKept
  <2>2. hand[w].s # s /\ hand'[w].s # s
    BY <1>2, NoPacketIs, NoneNoSession DEF IocpInv, HandInv
  <2>3. PacketsStill(s)
    BY <1>2, <2>1, <2>2 DEF PacketsStill
  <2> QED BY <2>3
        DEF Still, FieldsStill, BytesStill, MarksStill, sockVars, netVars, sessVars, histVars
<1>8. ASSUME NEW a \in Sessions, p.s = a
      PROVE  LifeOf(a)' /\ ConnsOf(a)' \subseteq ConnsOf(a)
  <2>1. /\ Holders(a)' = Holders(a) \cup {w} /\ Accepts(a)' \subseteq Accepts(a)
        /\ OneAtWork(a) => Queued(a)' = {} /\ Holders(a)' = {w} /\ recvs[a] = <<>>
                           /\ p.op = "recv" /\ Adding(a) = {p.n}
    BY <1>8, TakenOwn
  <2>2. ConnsOf(a)' \subseteq ConnsOf(a)
    BY <2>1 DEF ConnsOf, sockVars, histVars
  <2>3. LifeOf(a) /\ FieldsStill(a)
    BY LifeIs DEF IocpInv, FieldsStill, sockVars, sessVars, histVars
  <2>4. ASSUME a \notin mixed PROVE Between(a)'
    BY <2>1, <2>3, <2>4, BetweenStill DEF LifeOf, netVars, histVars
  <2>5. ASSUME a \notin mixed, active[a] PROVE ActiveOf(a)'
    <3>1. ActiveOf(a) /\ OneAtWork(a) /\ BufferInv(a)
      BY <2>3, <2>5 DEF LifeOf, ActiveOf
    <3>2. /\ Queued(a)' = {} /\ Holders(a)' = {w} /\ recvs'[a] = <<>>
          /\ hand'[w].op = "recv" /\ Adding(a) = {p.n}
      BY <1>2, <2>1, <3>1 DEF sockVars
    <3>3. OneAtWork(a)' /\ Attended(a)'
      BY <3>2 DEF OneAtWork, Attended
    <3>4. Adding(a)' = {p.n}
      <4>1. \A n : n \in Adding(a)' <=>
              \/ \E i \in Queued(a)' : queue'[i].op = "recv" /\ queue'[i].n = n
              \/ \E v \in Holders(a)' : hand'[v].op = "recv" /\ Untaken(v)' /\ hand'[v].n = n
        BY DEF Adding, Queued, Holders, Untaken
      <4>2. Untaken(w)'
        BY <1>2 DEF Untaken
      <4>3. \A n : n \in Adding(a)' <=> n = p.n
        BY <1>2, <3>2, <4>1, <4>2
      <4> QED BY <4>3
    <3>5. \A n : Holds(a, n)' <=> Holds(a, n)
      BY DEF Holds, sessVars, netVars, histVars
    <3>6. BufferInv(a)'
      <4>1. recv_buffer' = recv_buffer
        BY DEF sessVars
      <4> QED BY <1>2, <3>1, <3>2, <3>4, <3>5, <4>1 DEF BufferInv
    <3> QED BY <3>1, <3>3, <3>6 DEF ActiveOf, sockVars, histVars
  <2> QED BY <2>2, <2>4, <2>5 DEF LifeOf, sessVars, histVars
<1>9. OwnerInv' /\ LifeInv'
  <2>1. PICK a : a = p.s
    OBVIOUS
  <2>2. a \in Sessions => LifeOf(a)' /\ ConnsOf(a)' \subseteq ConnsOf(a)
    BY <1>8, <2>1
  <2>3. \A s \in Sessions : s # a => Still(s)
    BY <1>7, <2>1
  <2>4. UNCHANGED <<sentbytes, consumed, backlog>>
    BY DEF netVars, histVars
  <2> QED BY <2>2, <2>3, <2>4, BytesSeen, Assemble
<1> QED
  BY <1>3, <1>4, <1>5, <1>6, <1>9 DEF IocpInv

LEMMA DequeueKeeps ==
  ASSUME IocpInv, NEW w \in Workers, Dequeue(w)
  PROVE  IocpInv'
<1>1. /\ wpc[w] = "get" /\ queue # <<>> /\ queue' = Tail(queue)
      /\ UNCHANGED <<sockVars, netVars, listen_key, spc, closing, valid, sessVars, histVars,
                     resetting>>
  BY DEF Dequeue, At
<1>2. CASE Head(queue).key = "null"
  BY <1>1, <1>2, CountKeeps DEF Dequeue
<1>3. CASE Head(queue).key # "null"
  BY <1>1, <1>3, TakeKeeps DEF Dequeue, stopVars
<1> QED
  BY <1>2, <1>3

(***************************************************************************)
(* The theorems.                                                           *)
(***************************************************************************)
LEMMA IocpInit == Init => IocpInv
<1> SUFFICES ASSUME Init PROVE IocpInv
  OBVIOUS
<1> USE IocpAssumption, BufferAssumption
<1>1. max_num \in Nat \ {0} /\ 0 \in 0 .. max_num /\ 0 \in 0 .. data_len /\ 0 \in -data_len .. data_len
  OBVIOUS
<1>2. NoPacket \in PacketType /\ NoPacket.s = None /\ PacketOK(NoPacket)
  BY <1>1, NoPacketIs DEF NoPacket, Packet, PacketType
<1>3. EmptyBuffer \in BufferType /\ <<>> \in Seq(Bytes) /\ <<>> \in Seq(PacketType)
      /\ <<>> \in Seq([at : 0 .. data_len, len : 0 .. data_len]) /\ Len(<<>>) = 0
  BY EmptyIs DEF Orderly
<1>4. TypeOK
  <2>1. \A s \in Sessions : \A i \in 1 .. Len(recvs[s]) : recvs[s][i].at + recvs[s][i].len = data_len
    BY <1>3 DEF Init
  <2>2. \A w \in Workers : hand[w].s \in Sessions \cup {None} /\ valid[w] \in -data_len .. data_len
    BY <1>1, <1>2 DEF Init
  <2>3. consumed \in [Conns -> Seq(Bytes)] /\ recv_buffer \in [Sessions -> BufferType]
    <3> DEFINE S == Seq(Bytes)
    <3>1. <<>> \in S
      BY <1>3
    <3> HIDE DEF S
    <3>2. consumed \in [Conns -> S]
      BY <3>1 DEF Init
    <3> QED BY <1>3, <3>2 DEF Init, S
  <2> QED BY <1>1, <2>1, <2>2, <2>3 DEF Init, TypeOK
<1>5. \A s : Queued(s) = {}
  BY <1>3 DEF Init, Queued
<1>6. QueueInv
  <2>1. Uncounted = {} /\ Cardinality({}) = 0
    BY <1>3, FS_EmptySet DEF Init, Uncounted
  <2>2. \A i \in 1 .. Len(queue) : PacketOK(queue[i])
    BY <1>3 DEF Init
  <2> QED BY <1>1, <1>3, <2>1, <2>2 DEF Init, QueueInv
<1>7. HandInv
  BY <1>2 DEF Init, HandInv
<1>8. \A s \in Sessions : Holders(s) = {} /\ Accepts(s) = {} /\ ~active[s] /\ ConnsOf(s) = {}
  <2> TAKE s \in Sessions
  <2>1. Holders(s) = {}
    BY <1>2, NoneNoSession DEF Init, Holders
  <2>2. Accepts(s) = {}
    BY <1>5, <2>1 DEF Accepts
  <2> QED BY <2>1, <2>2 DEF Init, ConnsOf
<1>9. SocketInv
  <2> DEFINE R == Seq([at : 0 .. data_len, len : 0 .. data_len])
  <2>1. <<>> \in R
    BY <1>3
  <2> HIDE DEF R
  <2>2. recvs \in [Sessions -> R]
    BY <2>1 DEF Init
  <2> QED BY <2>2 DEF Init, SocketInv, R
<1>10. OwnerInv
  <2>1. \A c \in Conns : Len(Stream[c]) \in Nat
    BY LenProperties
  <2> QED BY <1>8, <2>1 DEF Init, OwnerInv, Untouched
<1>11. LifeInv
  BY <1>8 DEF LifeInv, Between
<1> QED
  BY <1>4, <1>6, <1>7, <1>9, <1>10, <1>11 DEF IocpInv

LEMMA IocpStutters ==
  ASSUME IocpInv, UNCHANGED vars
  PROVE  IocpInv'
<1>1. UNCHANGED <<sockVars, netVars, stopVars, workVars, sessVars, histVars, queue, resetting>>
  BY DEF vars
<1>2. TypeOK'
  BY <1>1 DEF IocpInv, TypeOK, workVars, sockVars, netVars, stopVars, sessVars, histVars
<1>3. QueueInv' /\ HandInv' /\ \A s : PacketsStill(s)
  BY <1>1, QueueStill, HandStill, NothingMoved DEF IocpInv, QueueInv, stopVars, HandsStill
<1>4. SocketInv' /\ OwnerInv' /\ LifeInv'
  BY <1>1, <1>3, SessionsUntouched DEF sockVars, netVars
<1> QED
  BY <1>2, <1>3, <1>4 DEF IocpInv

LEMMA IocpStep == IocpInv /\ [Next]_vars => IocpInv'
<1> SUFFICES ASSUME IocpInv, [Next]_vars PROVE IocpInv'
  OBVIOUS
<1>1. ASSUME NEW s \in Sessions,
             System(s) \/ Receive(s) \/ BeginClose(s) \/ \E c \in Conns : Connect(s, c)
      PROVE  IocpInv'
  BY <1>1, ReceiveEndKeeps, AbortRecvKeeps, AbortAcceptKeeps, DisconnectedKeeps, ReceiveKeeps,
     BeginCloseKeeps, ConnectKeeps DEF System
<1>2. ASSUME NEW c \in Conns, End(c) PROVE IocpInv'
  BY <1>2, EndKeeps
<1>3. ASSUME NEW t \in Threads, Reset(t) PROVE IocpInv'
  BY <1>3, ResetKeeps
<1>4. ASSUME NEW w \in Workers, CloseInCallback(w) \/ Work(w) PROVE IocpInv'
  BY <1>4, CloseInCallbackKeeps, DequeueKeeps, SelectKeeps, AcceptCompleteKeeps, RecvCompleteKeeps,
     RecvedKeeps, WaitRecvKeeps, OnCloseKeeps, LogicClosesKeeps, LogicLeavesOpenKeeps,
     WaitAcceptKeeps DEF Work
<1>5. CASE Stop \/ CloseSocket \/ ClearKey \/ PostExit \/ Join
  BY <1>5, StopKeeps, CloseSocketKeeps, ClearKeyKeeps, PostExitKeeps, JoinKeeps
<1>6. CASE UNCHANGED vars
  BY <1>6, IocpStutters
<1> QED
  BY <1>1, <1>2, <1>3, <1>4, <1>5, <1>6 DEF Next

\* The inductive invariant holds in every state: every counted packet of stop is in
\* the queue or counted, what a worker holds fits where it is, a connection belongs
\* to one session for ever, and for an active session of one life one packet, worker
\* or receive is at work, on just the bytes that the logic has not used.
THEOREM IocpInvariance == Spec => []IocpInv
<1>1. Spec => Init /\ [][Next]_vars
  BY DEF Spec
<1> QED
  BY <1>1, IocpInit, IocpStep, PTL

\* Sessions, buffers, packets and workers stay within their types, every receive
\* reaches to the end of its buffer, and stop never counts more packets than sessions.
THEOREM IocpTypes == Spec => []TypeOK
<1>1. IocpInv => TypeOK
  BY DEF IocpInv
<1> QED
  BY <1>1, IocpInvariance, PTL

LEMMA AddingOne ==
  ASSUME IocpInv, NEW s \in Sessions, ActiveOf(s)
  PROVE  /\ Adding(s) = {} \/ \E k \in Nat : Adding(s) = {k}
         /\ recvs[s] # <<>> => Adding(s) = {}
<1>0. \A p \in PacketType : p.n \in Nat
  BY BufferAssumption DEF PacketType
<1>1. \A i \in Queued(s) : queue[i].n \in Nat
  <2>1. \A i \in Queued(s) : queue[i] \in PacketType
    BY HandTypes DEF Queued
  <2> QED BY <1>0, <2>1
<1>2. \A w \in Holders(s) : hand[w].n \in Nat
  BY <1>0, HandTypes DEF Holders
<1>3. /\ \A i, j \in Queued(s) : i = j
      /\ \A v, w \in Holders(s) : v = w
      /\ Queued(s) # {} => Holders(s) = {}
      /\ recvs[s] # <<>> => Queued(s) = {} /\ Holders(s) = {}
  BY DEF ActiveOf, OneAtWork
<1>4. \A n : n \in Adding(s) =>
        (\E i \in Queued(s) : queue[i].n = n) \/ (\E w \in Holders(s) : hand[w].n = n)
  BY AddingIs
<1>5. Adding(s) \subseteq Nat /\ \A m, n \in Adding(s) : m = n
  BY <1>1, <1>2, <1>3, <1>4
<1>6. Adding(s) = {} \/ \E k \in Nat : Adding(s) = {k}
  <2>1. CASE Adding(s) # {}
    <3>1. PICK k \in Adding(s) : TRUE
      BY <2>1
    <3>2. Adding(s) = {k}
      BY <1>5, <3>1
    <3> QED BY <1>5, <3>1, <3>2
  <2> QED BY <2>1
<1>7. recvs[s] # <<>> => Adding(s) = {}
  BY <1>3, <1>4
<1> QED
  BY <1>6, <1>7

LEMMA StreamIs == IocpInv => StreamIntactUnlessMixed
<1> SUFFICES ASSUME IocpInv, NEW s \in Sessions, active[s], s \notin mixed
             PROVE  /\ consumed[entered[s]] \o WithPacket(s)
                         = SubSeq(Stream[entered[s]], 1, sentbytes[entered[s]])
                    /\ Len(recvs[s]) <= 1
                    /\ recvs[s] # <<>> => Adding(s) \subseteq {0}
  BY DEF StreamIntactUnlessMixed
<1>1. ActiveOf(s)
  BY LifeIs DEF IocpInv, LifeOf
<1>2. Len(recvs[s]) <= 1 /\ (recvs[s] # <<>> => Adding(s) \subseteq {0})
  BY <1>1, AddingOne DEF ActiveOf, OneAtWork
<1> DEFINE n == CHOOSE n \in Adding(s) \cup {0} : \A m \in Adding(s) : m <= n
<1>3. Holds(s, n)
  <2>1. CASE Adding(s) = {}
    <3>1. \E k \in Adding(s) \cup {0} : \A m \in Adding(s) : m <= k
      BY <2>1
    <3>2. n \in Adding(s) \cup {0}
      BY <3>1
    <3>3. n = 0
      BY <2>1, <3>2
    <3> QED BY <1>1, <2>1, <3>3 DEF ActiveOf, BufferInv
  <2>2. ASSUME NEW k \in Nat, Adding(s) = {k} PROVE Holds(s, n)
    <3>1. \E j \in Adding(s) \cup {0} : \A m \in Adding(s) : m <= j
      BY <2>2
    <3>2. n \in Adding(s) \cup {0} /\ \A m \in Adding(s) : m <= n
      BY <3>1
    <3> HIDE DEF n
    <3>3. n = k
      BY <2>2, <3>2
    <3> QED BY <1>1, <2>2, <3>3 DEF ActiveOf, BufferInv
  <2> QED BY <1>1, <2>1, <2>2, AddingOne
<1>4. WithPacket(s) = Content(AddWritePos(recv_buffer[s], n))
  BY DEF WithPacket
<1> HIDE DEF n
<1> QED BY <1>2, <1>3, <1>4 DEF Holds

\* For every session that has lived with one connection only, what the logic used,
\* what lies unread in the buffer and what the packet under way adds are exactly the
\* bytes the system delivered for that connection, in order.
THEOREM StreamKept == Spec => []StreamIntactUnlessMixed
<1> QED
  BY StreamIs, IocpInvariance, PTL

\* A session that nothing is under way for any more has a full buffer or was left
\* open by the logic: a packet, a worker or a receive attends to every other one.
THEOREM NeverDeaf == Spec => []DeafOnlyWhenFull
<1>1. IocpInv => DeafOnlyWhenFull
  <2> SUFFICES ASSUME IocpInv, NEW s \in Sessions, active[s], s \notin mixed, Packets(s) = {},
                      recvs[s] = <<>>
               PROVE  \/ ReadValid(recv_buffer[s]) = data_len
                      \/ s \in declined
                      \/ \E t \in Threads : resetting[t] = s
    BY DEF DeafOnlyWhenFull
  <2>1. Attended(s)
    BY LifeIs DEF IocpInv, LifeOf, ActiveOf
  <2>2. Queued(s) = {} /\ Holders(s) = {}
    BY DEF Packets, Queued, Holders
  <2> QED BY <2>1, <2>2 DEF Attended
<1> QED
  BY <1>1, IocpInvariance, PTL

(***************************************************************************)
(* The server implements ServerInterface.                                  *)
(***************************************************************************)

\* What is unread then, and what the packet under way adds, is a sequence of bytes.
UnreadIsBytes == \A s \in Sessions : active[s] /\ s \notin mixed => WithPacket(s) \in Seq(Bytes)

LEMMA UnreadType == IocpInv => UnreadIsBytes
<1> SUFFICES ASSUME IocpInv, NEW s \in Sessions, active[s], s \notin mixed
             PROVE  WithPacket(s) \in Seq(Bytes)
  BY DEF UnreadIsBytes
<1>1. /\ ActiveOf(s) /\ recv_buffer[s] \in BufferType
  BY LifeIs DEF IocpInv, LifeOf, TypeOK
<1> DEFINE b == recv_buffer[s]
           n == CHOOSE n \in Adding(s) \cup {0} : \A m \in Adding(s) : m <= n
<1>2. n \in 0 .. data_len
  <2>1. Adding(s) \subseteq 0 .. data_len
    <3>1. \A p \in PacketType : p.n \in 0 .. data_len
      BY DEF PacketType
    <3>2. \A i \in Queued(s) : queue[i] \in PacketType
      BY HandTypes DEF Queued
    <3>3. \A v \in Holders(s) : hand[v] \in PacketType
      BY HandTypes DEF Holders
    <3>4. \A m : m \in Adding(s) =>
            (\E i \in Queued(s) : queue[i].n = m) \/ (\E v \in Holders(s) : hand[v].n = m)
      BY AddingIs
    <3> QED BY <3>1, <3>2, <3>3, <3>4
  <2>2. \E k \in Adding(s) \cup {0} : \A m \in Adding(s) : m <= k
    <3>1. CASE Adding(s) = {}
      BY <3>1
    <3>2. ASSUME NEW k \in Nat, Adding(s) = {k} PROVE \A m \in Adding(s) : m <= k
      BY <3>2
    <3> QED BY <1>1, <3>1, <3>2, AddingOne
  <2>3. n \in Adding(s) \cup {0}
    BY <2>2
  <2>4. 0 \in 0 .. data_len
    BY BufferAssumption
  <2> HIDE DEF n
  <2> QED BY <2>1, <2>3, <2>4
<1> HIDE DEF n
<1>3. b.read_pos <= b.write_pos /\ b.write_pos <= AddWritePos(b, n).write_pos
  <2>1. b.read_pos <= b.write_pos
    BY <1>1 DEF ActiveOf, BufferInv
  <2> QED BY <1>1, <1>2, <2>1, BufferAssumption DEF AddWritePos, BufferType
<1>4. Orderly(AddWritePos(b, n))
  BY <1>1, <1>2, <1>3, AddWriteType, BufferAssumption DEF Orderly, BufferType
<1>5. WithPacket(s) = Content(AddWritePos(b, n))
  BY DEF WithPacket, n
<1> QED
  BY <1>4, <1>5, ContentIs

LEMMA StreamIsNext == IocpInv' => StreamIntactUnlessMixed' /\ UnreadIsBytes'
  BY StreamIs, UnreadType, PTL

\* The front part of the beginning of a stream is the beginning of the stream.
LEMMA FrontOfStream ==
  ASSUME NEW u \in Seq(Bytes), NEW v \in Seq(Bytes), NEW t \in Seq(Bytes), NEW k \in 0 .. Len(t),
         u \o v = SubSeq(t, 1, k)
  PROVE  Len(u) \in 0 .. Len(t) /\ u = SubSeq(t, 1, Len(u))
<1>1. Len(u \o v) = Len(u) + Len(v) /\ Len(SubSeq(t, 1, k)) = k /\ Len(u) \in Nat /\ Len(v) \in Nat
  OBVIOUS
<1>2. Len(u) <= k /\ k <= Len(t) /\ Len(u) \in 0 .. Len(t)
  BY <1>1
<1>3. \A i \in 1 .. Len(u) : (u \o v)[i] = u[i] /\ SubSeq(t, 1, k)[i] = t[i]
  BY <1>2
<1>4. \A i \in 1 .. Len(u) : u[i] = t[i]
  BY <1>3
<1>5. u = SubSeq(t, 1, Len(u))
  <2> DEFINE w == SubSeq(t, 1, Len(u))
  <2>1. w \in Seq(Bytes) /\ Len(w) = Len(u) /\ \A i \in 1 .. Len(u) : w[i] = t[i]
    BY <1>2
  <2> HIDE DEF w
  <2>2. w = u
    BY <1>4, <2>1
  <2> QED BY <2>2 DEF w
<1> QED
  BY <1>2, <1>5

LEMMA PromisedIs ==
  /\ \A s \in Sessions : s \in Promised <=> s \notin mixed /\ active[s]
  /\ \A s \in Sessions : s \in Promised' <=> s \notin mixed' /\ active'[s]
  /\ Promised \subseteq Sessions /\ Promised' \subseteq Sessions
  BY DEF Promised

\* A step that the logic sees nothing of.
LEMMA InterfaceStutter ==
  ASSUME UNCHANGED <<backlog, conn, entered, consumed, mixed, active>>
  PROVE  UNCHANGED Interface!vars
  BY DEF Interface!vars, Promised

LEMMA InterfaceInit == Init => Interface!Init
  BY DEF Init, Interface!Init, Promised

\* AcceptEx gives a session that has none a client, or takes one that is gone.
LEMMA ConnectRefines ==
  ASSUME IocpInv, NEW s \in Sessions, NEW c \in Conns, Connect(s, c)
  PROVE  [Interface!Next]_(Interface!vars)
<1>1. /\ accepting[s] /\ c \in backlog /\ backlog' = backlog \ {c}
      /\ conn' = [conn EXCEPT ![s] = c] \/ conn' = conn
      /\ UNCHANGED <<entered, consumed, mixed, active>>
  BY DEF Connect, sessVars
<1>2. conn[s] = None
  BY <1>1 DEF IocpInv, SocketInv
<1>3. s \notin Promised /\ Promised' = Promised
  BY <1>1, PromisedIs DEF IocpInv, LifeInv, Between, Promised
<1>4. CASE conn' = conn
  <2>1. Interface!Refuse(c)
    BY <1>1, <1>3, <1>4 DEF Interface!Refuse
  <2> QED
    BY <2>1 DEF Interface!Next
<1>5. CASE conn' = [conn EXCEPT ![s] = c]
  <2>1. Interface!Admit(s, c)
    BY <1>1, <1>2, <1>3, <1>5 DEF Interface!Admit
  <2> QED
    BY <2>1 DEF Interface!Next
<1> QED
  BY <1>1, <1>4, <1>5

\* TransmitFile is over: nobody it was done to was under the promise any more.
LEMMA DisconnectedRefines ==
  ASSUME IocpInv, NEW s \in Sessions, Disconnected(s)
  PROVE  [Interface!Next]_(Interface!vars)
<1>1. /\ leaving[s] /\ conn' = [conn EXCEPT ![s] = None]
      /\ UNCHANGED <<backlog, entered, consumed, mixed, active>>
  BY DEF Disconnected, netVars, sessVars
<1>2. conn[s] # None
  BY <1>1 DEF IocpInv, SocketInv
<1>3. s \notin Promised /\ Promised' = Promised
  BY <1>1, PromisedIs DEF IocpInv, LifeInv, Promised
<1>4. Interface!Leave(s)
  BY <1>1, <1>2, <1>3 DEF Interface!Leave, Interface!Gone, Interface!MayBeLate
<1> QED
  BY <1>4 DEF Interface!Next

LEMMA ResetRefines ==
  ASSUME IocpInv, NEW t \in Threads, Reset(t)
  PROVE  [Interface!Next]_(Interface!vars)
<1>1. PICK s \in Sessions : s = resetting[t]
  BY DEF IocpInv, TypeOK, Reset
<1>2. /\ active' = [active EXCEPT ![s] = FALSE]
      /\ mixed' = IF Connected(s) /\ ~active[s] THEN mixed \cup {s} ELSE mixed
      /\ UNCHANGED <<backlog, conn, entered, consumed>>
      /\ active \in [Sessions -> BOOLEAN]
  BY <1>1 DEF Reset, Deactivated, netVars, IocpInv, TypeOK
<1>3. Promised' = Promised \ {s}
  <2>1. \A q \in Sessions : q \in Promised' <=> q \in Promised /\ q # s
    BY <1>2, PromisedIs
  <2> QED
    BY <2>1, PromisedIs
<1>4. CASE s \in Promised
  <2>1. Interface!Close(s)
    BY <1>2, <1>3, <1>4 DEF Interface!Close, Interface!Gone, Interface!MayBeLate
  <2> QED
    BY <2>1 DEF Interface!Next
<1>5. CASE s \notin Promised
  <2>1. Interface!Leave(s)
    BY <1>2, <1>3, <1>5 DEF Interface!Leave, Interface!Gone, Interface!MayBeLate
  <2> QED
    BY <2>1 DEF Interface!Next
<1> QED
  BY <1>4, <1>5

\* on_enter announces the client of the AcceptEx whose packet it is, and no other
\* session has that client or ever had it.
LEMMA AcceptCompleteRefines ==
  ASSUME IocpInv, NEW w \in Workers, AcceptComplete(w)
  PROVE  [Interface!Next]_(Interface!vars)
<1>1. PICK s \in Sessions : s = hand[w].s
  BY DispatchedIs DEF AcceptComplete
<1>2. PICK c \in Conns : c = hand[w].conn
  BY DispatchedIs DEF AcceptComplete
<1>3. /\ active' = [active EXCEPT ![s] = TRUE] /\ entered' = [entered EXCEPT ![s] = c]
      /\ mixed' = IF Remnants(w, s) THEN mixed \cup {s} ELSE mixed
      /\ UNCHANGED <<backlog, conn, consumed>>
      /\ active \in [Sessions -> BOOLEAN]
  BY <1>1, <1>2 DEF AcceptComplete, sockVars, netVars, IocpInv, TypeOK
<1>4. c \in Accepts(s) /\ c # None
  <2>1. hand[w].op = "accept" /\ hand[w].ok /\ Untaken(w)
    BY DispatchedIs DEF AcceptComplete
  <2> QED
    BY <1>1, <1>2, <2>1, NoneNoSession DEF Accepts, Holders, Waiting
<1>5. c \in ConnsOf(s) /\ c \notin backlog
  BY <1>4 DEF ConnsOf, IocpInv, OwnerInv
<1>6. \A q \in Sessions \ {s} : conn[q] # c /\ entered[q] # c
  BY <1>4, <1>5, Apart DEF ConnsOf, IocpInv
<1>7. s \notin mixed => c = conn[s] /\ consumed[c] = <<>> /\ ~active[s]
  BY <1>4 DEF IocpInv, LifeInv, Between, Untouched
<1>8. s \notin Promised /\ \A q \in Sessions : q # s => (q \in Promised' <=> q \in Promised)
  BY <1>3, <1>7, PromisedIs
<1>9. \/ conn[s] = c /\ consumed[c] = <<>> /\ Promised' = Promised \cup {s}
      \/ mixed' # {} /\ Promised' = Promised
  <2>1. CASE s \in Promised'
    <3>1. s \notin mixed
      BY <1>3, <2>1, PromisedIs
    <3>2. Promised' = Promised \cup {s}
      BY <1>8, <2>1, PromisedIs
    <3> QED
      BY <1>7, <3>1, <3>2
  <2>2. CASE s \notin Promised'
    <3>1. s \in mixed'
      BY <1>3, <2>2, PromisedIs
    <3> QED
      BY <1>8, <2>2, <3>1, PromisedIs
  <2> QED
    BY <2>1, <2>2
<1>10. Interface!Enter(s, c)
  BY <1>3, <1>5, <1>6, <1>8, <1>9 DEF Interface!Enter, Interface!MayBeLate
<1> QED
  BY <1>10 DEF Interface!Next

\* The bytes used come after those used before, and for a session under the promise
\* they are the next of its client's stream.
LEMMA RecvedRefines ==
  ASSUME IocpInv, IocpInv', NEW w \in Workers, NEW n \in 0 .. data_len, Recved(w, n)
  PROVE  [Interface!Next]_(Interface!vars)
<1>1. PICK s \in Sessions : s = hand[w].s
  BY DEF IocpInv, HandInv, Recved, At
<1> DEFINE c == entered[s]
           used == Used(recv_buffer[s], n)
<1>2. /\ consumed' = IF s \in mixed THEN consumed ELSE [consumed EXCEPT ![c] = @ \o used]
      /\ UNCHANGED <<backlog, conn, entered, mixed, active>>
  BY <1>1 DEF Recved, sockVars, netVars
<1>3. /\ consumed \in [Conns -> Seq(Bytes)] /\ consumed' \in [Conns -> Seq(Bytes)]
      /\ c \in Conns \cup {None} /\ used \in Seq(Bytes)
  BY UsedType DEF IocpInv, TypeOK, SocketInv
<1>4. Promised' = Promised
  BY <1>2 DEF Promised
<1> HIDE DEF used
<1>5. CASE s \in mixed \/ c = None
  <2>1. consumed' = consumed
    BY <1>2, <1>3, <1>5, NoneNoSession
  <2> QED
    BY <1>2, <1>4, <2>1 DEF Interface!vars
<1>6. CASE s \notin mixed /\ c # None
  <2> DEFINE before == consumed[c]
             after == consumed'[c]
  <2>1. c \in Conns /\ before \in Seq(Bytes) /\ after \in Seq(Bytes)
    BY <1>3, <1>6
  <2>2. after = before \o used /\ \A d \in Conns \ {c} : consumed'[d] = consumed[d]
    BY <1>2, <1>3, <1>6, <2>1, SMTT(60)
  <2> HIDE DEF c, before, after
  <2>3. before = SubSeq(after, 1, Len(before)) /\ Len(before) <= Len(after)
    BY <1>3, <2>1, <2>2
  <2>4. ASSUME s \in Promised
        PROVE  \E k \in Len(before) .. Len(Stream[c]) : after = SubSeq(Stream[c], 1, k)
    <3>1. entered'[s] = c /\ active'[s] /\ s \notin mixed'
      BY <1>2, <2>4, PromisedIs DEF c
    <3>2. after \o WithPacket(s)' = SubSeq(Stream[c], 1, sentbytes'[c])
      BY <3>1, StreamIsNext DEF StreamIntactUnlessMixed, after
    <3>3. WithPacket(s)' \in Seq(Bytes)
      BY <3>1, StreamIsNext DEF UnreadIsBytes
    <3>4. Stream[c] \in Seq(Bytes) /\ sentbytes'[c] \in 0 .. Len(Stream[c])
      BY <2>1, IocpAssumption DEF IocpInv, OwnerInv
    <3>5. Len(after) \in 0 .. Len(Stream[c]) /\ after = SubSeq(Stream[c], 1, Len(after))
      BY <2>1, <3>2, <3>3, <3>4, FrontOfStream
    <3>6. Len(after) \in Len(before) .. Len(Stream[c])
      BY <2>1, <2>3, <3>4, <3>5
    <3> QED
      BY <3>5, <3>6
  <2>5. Interface!Use(s)
    BY <1>2, <1>3, <1>4, <1>6, <2>2, <2>3, <2>4 DEF Interface!Use, c, before, after
  <2> QED
    BY <2>5 DEF Interface!Next
<1> QED
  BY <1>5, <1>6

LEMMA StepRefines ==
  ASSUME IocpInv, IocpInv', [Next]_vars
  PROVE  [Interface!Next]_(Interface!vars)
<1> USE DEF sockVars, netVars, stopVars, workVars, sessVars, histVars
<1>1. ASSUME NEW s \in Sessions,
             ReceiveEnd(s) \/ AbortRecv(s) \/ AbortAccept(s) \/ Receive(s) \/ BeginClose(s)
      PROVE  UNCHANGED Interface!vars
  BY <1>1, InterfaceStutter DEF ReceiveEnd, AbortRecv, AbortAccept, Receive, BeginClose
<1>2. ASSUME NEW c \in Conns, End(c) PROVE UNCHANGED Interface!vars
  BY <1>2, InterfaceStutter DEF End
<1>3. ASSUME NEW w \in Workers,
             \/ CloseInCallback(w) \/ Dequeue(w) \/ Select(w) \/ RecvComplete(w) \/ WaitRecv(w)
             \/ OnClose(w) \/ LogicCloses(w) \/ LogicLeavesOpen(w) \/ WaitAccept(w)
      PROVE  UNCHANGED Interface!vars
  BY <1>3, InterfaceStutter DEF CloseInCallback, Dequeue, Select, RecvComplete, WaitRecv, OnClose,
     LogicCloses, LogicLeavesOpen, WaitAccept
<1>4. CASE Stop \/ CloseSocket \/ ClearKey \/ PostExit \/ Join
  BY <1>4, InterfaceStutter DEF Stop, CloseSocket, ClearKey, PostExit, Join
<1>5. CASE UNCHANGED vars
  BY <1>5, InterfaceStutter DEF vars
<1> QED
  BY <1>1, <1>2, <1>3, <1>4, <1>5, ConnectRefines, DisconnectedRefines, ResetRefines,
     AcceptCompleteRefines, RecvedRefines DEF Next, System, Work

\* The completion-port server keeps the promise of ServerInterface: each of its steps
\* is one the interface allows or one the logic sees nothing of, whatever the order
\* of the packets and the number of workers.
THEOREM RefinesInterface == Spec => ImplementsInterface
<1>1. Spec => Init /\ [][Next]_vars
  BY DEF Spec
<1> QED
  BY <1>1, InterfaceInit, IocpInvariance, StepRefines, PTL
     DEF ImplementsInterface, Interface!Spec
=============================================================================
