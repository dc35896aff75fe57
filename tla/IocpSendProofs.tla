--------------------------- MODULE IocpSendProofs ---------------------------
(***************************************************************************)
(* Proofs about sending through the completion port: what went out on a    *)
(* connection, what the system holds and what is buffered are the data     *)
(* accepted for it, in order and once each.                                *)
(***************************************************************************)
EXTENDS IocpSend, BufferProofs, WellFoundedInduction

(***************************************************************************)
(* Concatenation.  Joined is a recursive function; that it exists for      *)
(* every sequence of sequences is shown by a smallest part at which it     *)
(* would not.                                                              *)
(***************************************************************************)

\* A nonempty set of natural numbers has a smallest member.
LEMMA SmallestExists ==
  ASSUME NEW S, S \subseteq Nat, S # {}
  PROVE  \E m \in S : \A n \in S : m <= n
<1> DEFINE R == {ss \in Nat \X Nat : ss[1] < ss[2]}
<1>1. IsWellFoundedOn(R, Nat)
  BY NatLessThanWellFounded DEF OpToRel
<1> HIDE DEF R
<1>2. PICK x \in S : \A y \in S : ~ (<<y, x>> \in R)
  BY <1>1, WFMin, Zenon
<1>3. \A y \in S : ~ (y < x)
  BY <1>2 DEF R
<1> QED
  BY <1>3


\* What Joined computes on the way: the first n parts put together.
Joins(f, s, n) ==
  \A i \in 0 .. n : f[i] = IF i = 0 THEN <<>> ELSE f[i - 1] \o s[i]

LEMMA JoinsStep ==
  ASSUME NEW f, NEW s, NEW n \in Nat, Joins(f, s, n + 1)
  PROVE  f[n + 1] = f[n] \o s[n + 1]
<1> DEFINE k == n + 1
<1>1. k \in 0 .. k /\ k # 0 /\ k - 1 = n
  OBVIOUS
<1> HIDE DEF k
<1>2. Joins(f, s, k)
  BY DEF k
<1>3. f[k] = IF k = 0 THEN <<>> ELSE f[k - 1] \o s[k]
  BY <1>1, <1>2 DEF Joins
<1>4. f[k] = f[n] \o s[k]
  BY <1>1, <1>3
<1> QED
  BY <1>4 DEF k

LEMMA JoinsExist ==
  ASSUME NEW S, NEW s \in Seq(Seq(S))
  PROVE  \A n \in 0 .. Len(s) : \E f \in [0 .. n -> Seq(S)] : Joins(f, s, n)
<1> DEFINE Good(n) == \E f \in [0 .. n -> Seq(S)] : Joins(f, s, n)
           Bad == {n \in 0 .. Len(s) : ~ Good(n)}
<1>1. Len(s) \in Nat /\ \A i \in 1 .. Len(s) : s[i] \in Seq(S)
  OBVIOUS
<1>2. SUFFICES ASSUME Bad # {} PROVE FALSE
  OBVIOUS
<1>3. Bad \subseteq Nat
  OBVIOUS
<1>4. PICK m \in Bad : \A n \in Bad : m <= n
  <2> HIDE DEF Bad
  <2> QED BY <1>2, <1>3, SmallestExists
<1>5. m \in 0 .. Len(s) /\ ~ Good(m)
  OBVIOUS
<1> HIDE DEF Good
<1>6. m # 0
  <2> SUFFICES ASSUME m = 0 PROVE Good(m)
    BY <1>5
  <2> DEFINE f == [i \in 0 .. 0 |-> <<>>]
  <2>1. <<>> \in Seq(S)
    OBVIOUS
  <2>2. f \in [0 .. 0 -> Seq(S)]
    BY <2>1
  <2>3. Joins(f, s, 0)
    BY DEF Joins
  <2> QED
    BY <2>2, <2>3 DEF Good
<1>7. m - 1 \in 0 .. Len(s)
  BY <1>1, <1>5, <1>6
<1>8. Good(m - 1)
  <2>1. m - 1 \notin Bad
    BY <1>4, <1>5, <1>7
  <2> QED
    BY <1>7, <2>1
<1>9. PICK g \in [0 .. m - 1 -> Seq(S)] : Joins(g, s, m - 1)
  BY <1>8 DEF Good
<1> DEFINE last == g[m - 1] \o s[m]
           f == [i \in 0 .. m |-> IF i = m THEN last ELSE g[i]]
<1>10. f \in [0 .. m -> Seq(S)]
  <2>1. s[m] \in Seq(S) /\ g[m - 1] \in Seq(S)
    BY <1>1, <1>5, <1>6, <1>7
  <2>2. last \in Seq(S)
    BY <2>1
  <2>3. \A i \in 0 .. m : i # m => g[i] \in Seq(S)
    BY <1>5
  <2> HIDE DEF last
  <2> QED
    BY <2>2, <2>3
<1>11. Joins(f, s, m)
  <2> SUFFICES ASSUME NEW i \in 0 .. m
               PROVE  f[i] = IF i = 0 THEN <<>> ELSE f[i - 1] \o s[i]
    BY DEF Joins
  <2>1. CASE i = m
    <3>1. f[i] = last
      BY <2>1
    <3>2. m - 1 \in 0 .. m /\ m - 1 # m
      BY <1>5, <1>6
    <3>3. f[m - 1] = g[m - 1]
      BY <3>2
    <3> HIDE DEF f
    <3> QED BY <2>1, <3>1, <3>3, <1>6
  <2>2. CASE i # m
    <3>1. i \in 0 .. m - 1 /\ f[i] = g[i]
      BY <2>2, <1>5
    <3>2. i # 0 => f[i - 1] = g[i - 1]
      BY <3>1, <1>5
    <3>3. g[i] = IF i = 0 THEN <<>> ELSE g[i - 1] \o s[i]
      BY <1>9, <3>1 DEF Joins
    <3> HIDE DEF f
    <3> QED
      BY <3>1, <3>2, <3>3
  <2> QED
    BY <2>1, <2>2
<1>12. Good(m)
  BY <1>10, <1>11 DEF Good
<1> QED
  BY <1>5, <1>12

\* Whatever joins the same parts comes to the same.
LEMMA JoinsUnique ==
  ASSUME NEW s, NEW n \in Nat, NEW f, NEW g, Joins(f, s, n), Joins(g, s, n)
  PROVE  f[n] = g[n]
<1> DEFINE Differ == {i \in 0 .. n : f[i] # g[i]}
<1>1. Differ \subseteq Nat
  OBVIOUS
<1>2. SUFFICES ASSUME Differ # {} PROVE FALSE
  OBVIOUS
<1>3. PICK m \in Differ : \A i \in Differ : m <= i
  <2> HIDE DEF Differ
  <2> QED BY <1>1, <1>2, SmallestExists
<1>4. m \in 0 .. n /\ f[m] # g[m]
  OBVIOUS
<1>5. m # 0 => f[m - 1] = g[m - 1]
  BY <1>3, <1>4
<1>6. /\ f[m] = IF m = 0 THEN <<>> ELSE f[m - 1] \o s[m]
      /\ g[m] = IF m = 0 THEN <<>> ELSE g[m - 1] \o s[m]
  BY <1>4 DEF Joins
<1> QED
  BY <1>4, <1>5, <1>6

LEMMA JoinedBy ==
  ASSUME NEW S, NEW s \in Seq(Seq(S))
  PROVE  \E f \in [0 .. Len(s) -> Seq(S)] : Joins(f, s, Len(s)) /\ Joined(s) = f[Len(s)]
<1> DEFINE Step(f) == [i \in 0 .. Len(s) |-> IF i = 0 THEN <<>> ELSE f[i - 1] \o s[i]]
<1>1. Len(s) \in Nat
  OBVIOUS
<1>2. PICK g \in [0 .. Len(s) -> Seq(S)] : Joins(g, s, Len(s))
  BY <1>1, JoinsExist
<1>3. g = Step(g)
  BY <1>2 DEF Joins
<1>4. \E h : h = Step(h) /\ Joined(s) = h[Len(s)]
  BY <1>3, Zenon DEF Joined
<1>5. PICK h : h = Step(h) /\ Joined(s) = h[Len(s)]
  BY <1>4
<1>6. Joins(h, s, Len(s))
  <2> SUFFICES ASSUME NEW i \in 0 .. Len(s)
               PROVE  h[i] = IF i = 0 THEN <<>> ELSE h[i - 1] \o s[i]
    BY DEF Joins
  <2>1. h[i] = Step(h)[i]
    BY <1>5
  <2> QED
    BY <2>1
<1>7. h[Len(s)] = g[Len(s)]
  BY <1>1, <1>2, <1>6, JoinsUnique
<1> QED
  BY <1>2, <1>5, <1>7

LEMMA JoinedType ==
  ASSUME NEW S, NEW s \in Seq(Seq(S))
  PROVE  Joined(s) \in Seq(S)
<1>1. PICK f \in [0 .. Len(s) -> Seq(S)] : Joined(s) = f[Len(s)]
  BY JoinedBy
<1>2. Len(s) \in 0 .. Len(s)
  OBVIOUS
<1> QED
  BY <1>1, <1>2

LEMMA JoinedEmpty == Joined(<<>>) = <<>>
<1>1. <<>> \in Seq(Seq({}))
  OBVIOUS
<1>2. PICK f \in [0 .. Len(<<>>) -> Seq({})] :
        Joins(f, <<>>, Len(<<>>)) /\ Joined(<<>>) = f[Len(<<>>)]
  BY <1>1, JoinedBy
<1>3. Len(<<>>) = 0 /\ 0 \in 0 .. 0
  OBVIOUS
<1> QED
  BY <1>2, <1>3 DEF Joins

\* One more part comes behind the others.
LEMMA JoinedAppend ==
  ASSUME NEW S, NEW s \in Seq(Seq(S)), NEW p \in Seq(S)
  PROVE  Joined(Append(s, p)) = Joined(s) \o p
<1> DEFINE t == Append(s, p)
           n == Len(s)
<1>1. /\ t \in Seq(Seq(S)) /\ Len(t) = n + 1 /\ n \in Nat
      /\ t[n + 1] = p /\ \A i \in 1 .. n : t[i] = s[i]
  OBVIOUS
<1> HIDE DEF t
<1>2. PICK f : Joins(f, t, n + 1) /\ Joined(t) = f[n + 1]
  BY <1>1, JoinedBy
<1>3. PICK g : Joins(g, s, n) /\ Joined(s) = g[n]
  BY JoinedBy
<1> HIDE DEF n
<1>4. Joins(f, s, n)
  <2> SUFFICES ASSUME NEW i \in 0 .. n
               PROVE  f[i] = IF i = 0 THEN <<>> ELSE f[i - 1] \o s[i]
    BY DEF Joins
  <2>1. f[i] = IF i = 0 THEN <<>> ELSE f[i - 1] \o t[i]
    BY <1>1, <1>2 DEF Joins
  <2> QED
    BY <2>1, <1>1
<1>5. f[n] = g[n]
  BY <1>1, <1>3, <1>4, JoinsUnique
<1>6. f[n + 1] = f[n] \o p
  <2>1. f[n + 1] = f[n] \o t[n + 1]
    BY <1>1, <1>2, JoinsStep
  <2> QED
    BY <1>1, <2>1
<1>7. Joined(t) = Joined(s) \o p
  BY <1>2, <1>3, <1>5, <1>6
<1> QED
  BY <1>7 DEF t

\* The first part and the others.
LEMMA JoinedTail ==
  ASSUME NEW S, NEW s \in Seq(Seq(S)), s # <<>>
  PROVE  Joined(s) = Head(s) \o Joined(Tail(s))
<1> DEFINE t == Tail(s)
           h == Head(s)
           n == Len(t)
<1>1. /\ t \in Seq(Seq(S)) /\ h \in Seq(S) /\ h = s[1] /\ n \in Nat /\ Len(s) = n + 1
      /\ \A i \in 1 .. n : t[i] = s[i + 1] /\ t[i] \in Seq(S)
  OBVIOUS
<1> HIDE DEF t, h
<1>2. PICK g \in [0 .. n -> Seq(S)] : Joins(g, t, n) /\ Joined(t) = g[n]
  BY <1>1, JoinedBy
<1>3. PICK f : Joins(f, s, n + 1) /\ Joined(s) = f[n + 1]
  BY <1>1, JoinedBy
<1> HIDE DEF n
<1> DEFINE e == [i \in 0 .. n + 1 |-> IF i = 0 THEN <<>> ELSE h \o g[i - 1]]
<1>4. \A i \in 0 .. n : e[i + 1] = h \o g[i]
  <2> TAKE i \in 0 .. n
  <2>1. \A k \in 0 .. n + 1 : k # 0 => e[k] = h \o g[k - 1]
    OBVIOUS
  <2>2. i + 1 \in 0 .. n + 1 /\ i + 1 # 0 /\ (i + 1) - 1 = i
    BY <1>1
  <2> HIDE DEF e
  <2> QED BY <2>1, <2>2
<1>5. Joins(e, s, n + 1)
  <2>1. e[0] = <<>>
    BY <1>1
  <2>2. \A i \in 0 .. n : e[i + 1] = e[i] \o s[i + 1]
    <3> SUFFICES ASSUME NEW i \in 0 .. n PROVE e[i + 1] = e[i] \o s[i + 1]
      OBVIOUS
    <3>1. g[i] = IF i = 0 THEN <<>> ELSE g[i - 1] \o t[i]
      BY <1>2 DEF Joins
    <3>2. e[i + 1] = h \o g[i]
      BY <1>4
    <3>3. CASE i = 0
      <4>1. h \o <<>> = h /\ <<>> \o h = h
        BY <1>1, ConcatEmptySeq
      <4> HIDE DEF e
      <4> QED BY <3>1, <3>2, <3>3, <4>1, <2>1, <1>1
    <3>4. CASE i # 0
      <4>1. i \in 1 .. n /\ i - 1 \in 0 .. n
        BY <3>4, <1>1
      <4>2. e[i] = h \o g[i - 1]
        <5>1. e[(i - 1) + 1] = h \o g[i - 1]
          BY <4>1, <1>4
        <5> HIDE DEF e
        <5>2. i - 1 + 1 = i
          BY <4>1
        <5> QED BY <5>1, <5>2, Zenon
      <4>3. h \in Seq(S) /\ g[i - 1] \in Seq(S) /\ t[i] \in Seq(S)
        BY <4>1, <1>1
      <4> HIDE DEF e
      <4>4. (h \o g[i - 1]) \o t[i] = h \o (g[i - 1] \o t[i])
        <5>1. Associative(Seq(S))
          BY Associates
        <5> QED BY <4>3, <5>1, Zenon DEF Associative
      <4>5. t[i] = s[i + 1]
        BY <4>1, <1>1
      <4> QED BY <3>1, <3>2, <3>4, <4>2, <4>4, <4>5
    <3> QED
      BY <3>3, <3>4
  <2> HIDE DEF e
  <2>3. SUFFICES ASSUME NEW i \in 0 .. n + 1
                 PROVE  e[i] = IF i = 0 THEN <<>> ELSE e[i - 1] \o s[i]
    BY DEF Joins
  <2>4. CASE i = 0
    BY <2>1, <2>4
  <2>5. CASE i # 0
    <3>1. i - 1 \in 0 .. n /\ (i - 1) + 1 = i
      BY <2>5, <1>1
    <3>2. e[(i - 1) + 1] = e[i - 1] \o s[(i - 1) + 1]
      BY <2>2, <3>1
    <3> QED BY <2>5, <3>1, <3>2
  <2> QED
    BY <2>4, <2>5
<1>6. f[n + 1] = e[n + 1]
  <2> HIDE DEF e
  <2> QED BY <1>1, <1>3, <1>5, JoinsUnique
<1>7. e[n + 1] = h \o g[n]
  BY <1>1, <1>4
<1>8. Joined(s) = h \o Joined(t)
  BY <1>2, <1>3, <1>6, <1>7
<1> QED
  BY <1>8 DEF t, h

(***************************************************************************)
(* The buffer.                                                             *)
(***************************************************************************)


\* c is b after buffer_write of s.
Written(b, s, c) ==
  /\ Orderly(c)
  /\ Content(c) = IF WriteOk(b, s) THEN Content(b) \o s ELSE Content(b)
  /\ ~Moves(b, s) =>
       /\ c.read_pos = b.read_pos
       /\ \A j \in Cells : j < b.write_pos => c.data[j] = b.data[j]
LEMMA WriteIs ==
  ASSUME NEW b, Orderly(b), NEW s \in Seq(Bytes), NEW c, c = Write(b, s)
  PROVE  Written(b, s, c)
<1> DEFINE room == IF WriteValid(b) >= Len(s) THEN b ELSE AdjustToHead(b)
<1>1. CASE ~WriteOk(b, s)
  BY <1>1 DEF Write, Written
<1>2. CASE WriteOk(b, s)
  <2>1. Orderly(room) /\ Content(room) = Content(b) /\ WriteValid(room) >= Len(s)
    BY <1>2, AdjustKeeps DEF WriteOk
  <2>2. ~Moves(b, s) => room = b
    <3>1. WriteValid(b) \in Int /\ Len(s) \in Nat
      BY BufferFields DEF WriteValid
    <3> QED BY <1>2, <3>1 DEF Moves
  <2>3. c = AddWritePos(Fill(room, s), Len(s))
    BY <1>2 DEF Write
  <2> HIDE DEF room
  <2>4. /\ Orderly(c) /\ Content(c) = Content(room) \o s
        /\ c.read_pos = room.read_pos
        /\ \A j \in Cells : j < room.write_pos => c.data[j] = room.data[j]
    BY <2>1, <2>3, FillKeeps, ZenonT(60)
  <2> QED
    BY <1>2, <2>1, <2>2, <2>4 DEF Written
<1> QED
  BY <1>1, <1>2

(***************************************************************************)
(* What the system holds.                                                  *)
(***************************************************************************)

Fits(p) == p \in Post /\ (p.from = "buffer" => p.at + p.len <= data_len)

LEMMA LinkFields ==
  ASSUME NEW l, LinkInv(l)
  PROVE  /\ Orderly(l.send_buffer) /\ l.send_ispending \in BOOLEAN
         /\ l.posted \in Seq(Post) /\ Len(l.posted) \in Nat
         /\ \A i \in 1 .. Len(l.posted) : Fits(l.posted[i])
         /\ l.completions \in Nat /\ l.wire \in Seq(Bytes)
         /\ l.failed \in BOOLEAN /\ l.moved \in BOOLEAN
<1>1. l \in Link
  BY DEF LinkInv
<1>2. /\ l.send_buffer \in BufferType /\ l.send_ispending \in BOOLEAN
      /\ l.posted \in Seq(Post) /\ l.completions \in Nat /\ l.wire \in Seq(Bytes)
      /\ l.failed \in BOOLEAN /\ l.moved \in BOOLEAN
  BY <1>1 DEF Link
<1>3. Len(l.posted) \in Nat /\ \A i \in 1 .. Len(l.posted) : l.posted[i] \in Post
  BY <1>2
<1>4. \A i \in 1 .. Len(l.posted) : Fits(l.posted[i])
  BY <1>3 DEF LinkInv, InBuffer, Fits
<1>5. Orderly(l.send_buffer)
  BY <1>2 DEF Orderly, LinkInv
<1> QED
  BY <1>2, <1>3, <1>4, <1>5

\* A link is its fields.
LEMMA LinkMade ==
  ASSUME NEW k, NEW b, NEW pending, NEW posted, NEW done, NEW wire, NEW failed, NEW moved,
         k = [send_buffer |-> b, send_ispending |-> pending, posted |-> posted,
              completions |-> done, wire |-> wire, failed |-> failed, moved |-> moved],
         Orderly(b), pending \in BOOLEAN, posted \in Seq(Post), done \in Nat,
         wire \in Seq(Bytes), failed \in BOOLEAN, moved \in BOOLEAN,
         \A i \in 1 .. Len(posted) : Fits(posted[i])
  PROVE  LinkInv(k)
<1>1. b \in BufferType /\ b.read_pos <= b.write_pos
  BY DEF Orderly
<1>2. k \in Link
  BY <1>1 DEF Link
<1>3. k.send_buffer = b /\ k.posted = posted
  OBVIOUS
<1>4. \A i \in InBuffer(posted) : posted[i].at + posted[i].len <= data_len
  BY DEF InBuffer, Fits
<1> QED
  BY <1>1, <1>2, <1>3, <1>4 DEF LinkInv

LEMMA OutgoingType ==
  ASSUME NEW l, Orderly(l.send_buffer), NEW p, Fits(p)
  PROVE  Outgoing(l, p) \in Seq(Bytes)
<1>1. p.at \in Nat /\ p.len \in Nat /\ p.from \in {"caller", "buffer"} /\ p.bytes \in Seq(Bytes)
  BY DEF Fits, Post
<1>2. CASE p.from = "caller"
  BY <1>1, <1>2 DEF Outgoing
<1>3. CASE p.from = "buffer"
  <2> DEFINE b == l.send_buffer
  <2>1. p.at + p.len <= data_len /\ b.data \in [Cells -> Bytes] /\ data_len \in Nat
    BY <1>3, BufferFields DEF Fits
  <2>2. Outgoing(l, p) = [i \in 1 .. p.len |-> b.data[p.at + i - 1]]
    BY <1>3 DEF Outgoing
  <2> HIDE DEF b
  <2>3. \A i \in 1 .. p.len : b.data[p.at + i - 1] \in Bytes
    <3> TAKE i \in 1 .. p.len
    <3>1. p.at + i - 1 \in Cells
      BY <1>1, <2>1 DEF Cells
    <3> QED
      BY <3>1, <2>1
  <2>4. Outgoing(l, p) \in [1 .. p.len -> Bytes]
    BY <2>2, <2>3
  <2> QED
    BY <1>1, <2>4
<1> QED
  BY <1>1, <1>2, <1>3

\* Only the part of the buffer a region covers matters to it.
LEMMA OutgoingSame ==
  ASSUME NEW l, NEW k, NEW p, Fits(p), data_len \in Nat,
         p.from = "buffer" => \A j \in Cells :
           j < p.at + p.len => k.send_buffer.data[j] = l.send_buffer.data[j]
  PROVE  Outgoing(k, p) = Outgoing(l, p)
<1>1. p.at \in Nat /\ p.len \in Nat /\ p.from \in {"caller", "buffer"}
  BY DEF Fits, Post
<1>2. CASE p.from = "caller"
  BY <1>2 DEF Outgoing
<1>3. CASE p.from = "buffer"
  <2>1. \A i \in 1 .. p.len : p.at + i - 1 \in Cells /\ p.at + i - 1 < p.at + p.len
    BY <1>1, <1>3 DEF Fits, Cells
  <2>2. \A i \in 1 .. p.len :
          k.send_buffer.data[p.at + i - 1] = l.send_buffer.data[p.at + i - 1]
    BY <1>3, <2>1
  <2> QED
    BY <1>3, <2>2 DEF Outgoing
<1> QED
  BY <1>1, <1>2, <1>3


Parts(l) == [i \in 1 .. Len(l.posted) |-> Outgoing(l, l.posted[i])]

LEMMA PartsType ==
  ASSUME NEW l, LinkInv(l)
  PROVE  /\ Parts(l) \in Seq(Seq(Bytes)) /\ Len(Parts(l)) = Len(l.posted)
         /\ InSystem(l) \in Seq(Bytes)
<1>1. /\ Len(l.posted) \in Nat /\ Orderly(l.send_buffer)
      /\ \A i \in 1 .. Len(l.posted) : Fits(l.posted[i])
  BY LinkFields
<1>2. \A i \in 1 .. Len(l.posted) : Outgoing(l, l.posted[i]) \in Seq(Bytes)
  BY <1>1, OutgoingType
<1>3. Parts(l) \in [1 .. Len(l.posted) -> Seq(Bytes)]
  BY <1>2 DEF Parts
<1>4. Parts(l) \in Seq(Seq(Bytes)) /\ Len(Parts(l)) = Len(l.posted)
  BY <1>1, <1>3
<1>5. InSystem(l) = Joined(Parts(l))
  BY DEF InSystem, Parts
<1> QED
  BY <1>4, <1>5, JoinedType

LEMMA InSystemSame ==
  ASSUME NEW l, NEW k, LinkInv(l), k.posted = l.posted,
         \A i \in 1 .. Len(l.posted) : Outgoing(k, l.posted[i]) = Outgoing(l, l.posted[i])
  PROVE  InSystem(k) = InSystem(l)
<1>1. [i \in 1 .. Len(k.posted) |-> Outgoing(k, k.posted[i])]
        = [i \in 1 .. Len(l.posted) |-> Outgoing(l, l.posted[i])]
  OBVIOUS
<1> QED
  BY <1>1 DEF InSystem

LEMMA InSystemEmpty ==
  ASSUME NEW l, l.posted = <<>>
  PROVE  InSystem(l) = <<>>
<1>1. [i \in 1 .. Len(l.posted) |-> Outgoing(l, l.posted[i])] = <<>>
  OBVIOUS
<1> QED
  BY <1>1, JoinedEmpty DEF InSystem

LEMMA InSystemAppend ==
  ASSUME NEW l, NEW k, NEW p, LinkInv(l), Fits(p), k.posted = Append(l.posted, p),
         k.send_buffer.data = l.send_buffer.data
  PROVE  InSystem(k) = InSystem(l) \o Outgoing(l, p)
<1> DEFINE n == Len(l.posted)
           q == k.posted
<1>1. n \in Nat /\ l.posted \in Seq(Post) /\ p \in Post /\ Orderly(l.send_buffer)
  BY LinkFields DEF Fits
<1>2. Len(q) = n + 1 /\ q[n + 1] = p /\ \A i \in 1 .. n : q[i] = l.posted[i]
  BY <1>1
<1>3. \A x : Outgoing(k, x) = Outgoing(l, x)
  BY DEF Outgoing
<1>4. Outgoing(l, p) \in Seq(Bytes) /\ Parts(l) \in Seq(Seq(Bytes)) /\ Len(Parts(l)) = n
  BY <1>1, OutgoingType, PartsType
<1> HIDE DEF q, n
<1>5. Parts(k) = Append(Parts(l), Outgoing(l, p))
  <2> DEFINE x == Parts(k)
             y == Append(Parts(l), Outgoing(l, p))
  <2>1. x = [i \in 1 .. n + 1 |-> Outgoing(l, q[i])]
    BY <1>2, <1>3 DEF Parts, q
  <2>2. y \in [1 .. n + 1 -> Seq(Bytes)]
    BY <1>1, <1>4, Appended
  <2>3. y[n + 1] = Outgoing(l, p) /\ \A i \in 1 .. n : y[i] = Parts(l)[i]
    BY <1>1, <1>4, Appended
  <2>4. \A i \in 1 .. n : Parts(l)[i] = Outgoing(l, q[i])
    BY <1>2 DEF Parts, n
  <2> HIDE DEF x, y
  <2>5. \A i \in 1 .. n + 1 : y[i] = Outgoing(l, q[i])
    <3> TAKE i \in 1 .. n + 1
    <3>1. i = n + 1 \/ i \in 1 .. n
      BY <1>1
    <3> QED
      BY <3>1, <2>3, <2>4, <1>2
  <2>6. x = y
    BY <2>1, <2>2, <2>5
  <2> QED
    BY <2>6 DEF x, y
<1>6. InSystem(k) = Joined(Parts(k)) /\ InSystem(l) = Joined(Parts(l))
  BY DEF InSystem, Parts
<1>7. Joined(Append(Parts(l), Outgoing(l, p))) = Joined(Parts(l)) \o Outgoing(l, p)
  BY <1>4, JoinedAppend
<1> QED
  BY <1>5, <1>6, <1>7

LEMMA InSystemTail ==
  ASSUME NEW l, NEW k, LinkInv(l), l.posted # <<>>, k.posted = Tail(l.posted),
         k.send_buffer.data = l.send_buffer.data
  PROVE  InSystem(l) = Outgoing(l, Head(l.posted)) \o InSystem(k)
<1> DEFINE n == Len(l.posted)
           q == k.posted
<1>1. n \in Nat /\ n # 0 /\ l.posted \in Seq(Post)
  BY LinkFields
<1>2. Len(q) = n - 1 /\ \A i \in 1 .. n - 1 : q[i] = l.posted[i + 1]
  BY <1>1
<1>3. \A x : Outgoing(k, x) = Outgoing(l, x)
  BY DEF Outgoing
<1>4. Parts(l) \in Seq(Seq(Bytes)) /\ Len(Parts(l)) = n /\ Head(l.posted) = l.posted[1]
  BY <1>1, PartsType
<1> HIDE DEF q
<1>5. Head(Parts(l)) = Outgoing(l, Head(l.posted)) /\ Parts(l) # <<>>
  <2>1. Parts(l)[1] = Outgoing(l, l.posted[1])
    BY <1>1 DEF Parts
  <2>2. Head(Parts(l)) = Parts(l)[1] /\ Parts(l) # <<>>
    BY <1>1, <1>4
  <2> QED
    BY <2>1, <2>2, <1>4
<1>6. Parts(k) = Tail(Parts(l))
  <2> DEFINE x == Parts(k)
             y == Tail(Parts(l))
  <2>1. x = [i \in 1 .. n - 1 |-> Outgoing(l, q[i])]
    BY <1>2, <1>3 DEF Parts, q
  <2>2. y \in [1 .. n - 1 -> Seq(Bytes)] /\ \A i \in 1 .. n - 1 : y[i] = Parts(l)[i + 1]
    BY <1>1, <1>4, <1>5, TailIs
  <2>3. \A i \in 1 .. n - 1 : Parts(l)[i + 1] = Outgoing(l, l.posted[i + 1])
    BY <1>1 DEF Parts
  <2> HIDE DEF x, y, n
  <2>5. \A i \in 1 .. n - 1 : y[i] = Outgoing(l, q[i])
    BY <2>2, <2>3, <1>2
  <2>6. x = y
    BY <2>1, <2>2, <2>5
  <2> QED
    BY <2>6 DEF x, y
<1>7. InSystem(k) = Joined(Parts(k)) /\ InSystem(l) = Joined(Parts(l))
  BY DEF InSystem, Parts
<1>8. Joined(Parts(l)) = Head(Parts(l)) \o Joined(Tail(Parts(l)))
  BY <1>4, <1>5, JoinedTail
<1> QED
  BY <1>5, <1>6, <1>7, <1>8

(***************************************************************************)
(* iocp_session_senddata and iocp_wrap_session_senddata.                   *)
(***************************************************************************)

Unchanged(k, l) ==
  /\ k.posted = l.posted /\ k.completions = l.completions
  /\ k.send_ispending = l.send_ispending /\ k.wire = l.wire
Refused(k, l, p) == p.len > 0 /\ Unchanged(k, l) /\ (l.send_ispending \/ k.failed)
Posted(k, l, p) ==
  /\ Connected /\ ~l.send_ispending /\ k.send_ispending /\ k.posted = Append(l.posted, p)
  /\ k.completions = l.completions /\ k.wire = l.wire /\ k.failed = l.failed
Done(k, l, p) ==
  /\ Connected /\ ~l.send_ispending /\ ~k.send_ispending /\ l.posted = <<>> /\ k.posted = <<>>
  /\ k.completions = l.completions + 1 /\ k.wire = l.wire \o Outgoing(l, p)
  /\ k.failed = l.failed

LEMMA SenddataIs ==
  ASSUME NEW l, LinkInv(l), NEW p, Fits(p), NEW r \in Senddata(l, p)
  PROVE  /\ LinkInv(r[2]) /\ r[2].send_buffer = l.send_buffer /\ r[2].moved = l.moved
         /\ l.failed => r[2].failed
         /\ \/ r[1] = TRUE /\ p.len = 0 /\ r[2] = l
            \/ r[1] = FALSE /\ Refused(r[2], l, p)
            \/ r[1] = TRUE /\ Posted(r[2], l, p)
            \/ r[1] = TRUE /\ Done(r[2], l, p)
<1>1. p.len \in Nat /\ p \in Post
  BY DEF Fits, Post
<1>2. /\ Orderly(l.send_buffer) /\ l.send_ispending \in BOOLEAN
      /\ l.posted \in Seq(Post) /\ \A i \in 1 .. Len(l.posted) : Fits(l.posted[i])
      /\ l.completions \in Nat /\ l.wire \in Seq(Bytes)
      /\ l.failed \in BOOLEAN /\ l.moved \in BOOLEAN
  BY LinkFields
<1>3. l = [send_buffer |-> l.send_buffer, send_ispending |-> l.send_ispending,
           posted |-> l.posted, completions |-> l.completions, wire |-> l.wire,
           failed |-> l.failed, moved |-> l.moved]
  BY DEF LinkInv, Link
<1>4. CASE p.len = 0
  <2>1. p.len = 0 /\ ~(p.len > 0)
    BY <1>4
  <2>2. Senddata(l, p) = {<<TRUE, l>>}
    BY <2>1, Zenon DEF Senddata
  <2>3. r = <<TRUE, l>>
    BY <2>2
  <2> QED
    BY <2>3, <1>4
<1>5. CASE p.len > 0 /\ l.send_ispending
  <2>1. p.len # 0 /\ p.len > 0 /\ l.send_ispending
    BY <1>1, <1>5
  <2>2. Senddata(l, p) = {<<FALSE, l>>}
    BY <2>1, Zenon DEF Senddata
  <2>3. r = <<FALSE, l>>
    BY <2>2
  <2> QED
    BY <2>3, <1>5 DEF Refused, Unchanged
<1>6. CASE p.len > 0 /\ ~l.send_ispending
  <2> DEFINE Fail == [l EXCEPT !.failed = TRUE]
             Pend == [l EXCEPT !.send_ispending = TRUE, !.posted = Append(@, p)]
             Once == [l EXCEPT !.wire = @ \o Outgoing(l, p), !.completions = @ + 1]
  <2>1. \/ r = <<FALSE, Fail>>
        \/ Connected /\ r = <<TRUE, Pend>>
        \/ Connected /\ l.posted = <<>> /\ r = <<TRUE, Once>>
    <3>1. p.len # 0 /\ p.len > 0 /\ ~l.send_ispending
      BY <1>1, <1>6
    <3>2. Senddata(l, p) = {<<FALSE, Fail>>}
            \cup (IF ~Connected THEN {} ELSE {<<TRUE, Pend>>})
            \cup (IF ~Connected \/ l.posted # <<>> THEN {} ELSE {<<TRUE, Once>>})
      BY <3>1, Zenon DEF Senddata
    <3> HIDE DEF Fail, Pend, Once
    <3> QED
      BY <3>2, Zenon
  <2>2. CASE r = <<FALSE, Fail>>
    <3> DEFINE k == r[2]
    <3>1. k = [send_buffer |-> l.send_buffer, send_ispending |-> l.send_ispending,
               posted |-> l.posted, completions |-> l.completions, wire |-> l.wire,
               failed |-> TRUE, moved |-> l.moved]
      BY <1>3, <2>2
    <3>2. LinkInv(k)
      <4> HIDE DEF k
      <4> QED BY <3>1, <1>2, LinkMade, ZenonT(60)
    <3>3. r[1] = FALSE
      BY <2>2
    <3> HIDE DEF k
    <3>4. k.send_buffer = l.send_buffer /\ k.moved = l.moved /\ k.failed /\ Unchanged(k, l)
      BY <3>1 DEF Unchanged
    <3> QED
      BY <3>2, <3>3, <3>4, <1>6 DEF Refused, k
  <2>3. CASE Connected /\ r = <<TRUE, Pend>>
    <3> DEFINE k == r[2]
               q == Append(l.posted, p)
    <3>1. k = [send_buffer |-> l.send_buffer, send_ispending |-> TRUE,
               posted |-> q, completions |-> l.completions, wire |-> l.wire,
               failed |-> l.failed, moved |-> l.moved]
      BY <1>3, <2>3
    <3>2. q \in Seq(Post) /\ \A i \in 1 .. Len(q) : Fits(q[i])
      BY <1>1, <1>2
    <3>3. r[1] = TRUE
      BY <2>3
    <3> HIDE DEF k
    <3>4. /\ k.send_buffer = l.send_buffer /\ k.moved = l.moved /\ k.failed = l.failed
          /\ k.send_ispending = TRUE /\ k.posted = q /\ k.completions = l.completions
          /\ k.wire = l.wire
      BY <3>1
    <3>5. LinkInv(k)
      <4> HIDE DEF q
      <4> QED BY <3>1, <3>2, <1>2, LinkMade, ZenonT(60)
    <3>6. Posted(k, l, p)
      BY <3>4, <1>6, <2>3 DEF Posted
    <3> QED
      BY <3>3, <3>4, <3>5, <3>6 DEF k
  <2>4. CASE Connected /\ l.posted = <<>> /\ r = <<TRUE, Once>>
    <3> DEFINE k == r[2]
               w == l.wire \o Outgoing(l, p)
    <3>1. k = [send_buffer |-> l.send_buffer, send_ispending |-> l.send_ispending,
               posted |-> l.posted, completions |-> l.completions + 1, wire |-> w,
               failed |-> l.failed, moved |-> l.moved]
      BY <1>3, <2>4
    <3>2. w \in Seq(Bytes) /\ l.completions + 1 \in Nat
      <4>1. Outgoing(l, p) \in Seq(Bytes)
        BY <1>2, OutgoingType
      <4> QED BY <4>1, <1>2
    <3>3. r[1] = TRUE
      BY <2>4
    <3> HIDE DEF k
    <3>4. /\ k.send_buffer = l.send_buffer /\ k.moved = l.moved /\ k.failed = l.failed
          /\ k.send_ispending = l.send_ispending /\ k.posted = l.posted
          /\ k.completions = l.completions + 1 /\ k.wire = w
      BY <3>1
    <3>5. LinkInv(k)
      <4> HIDE DEF w
      <4> QED BY <3>1, <3>2, <1>2, LinkMade
    <3>6. Done(k, l, p)
      BY <3>4, <1>6, <2>4 DEF Done
    <3> QED
      BY <3>3, <3>4, <3>5, <3>6 DEF k
  <2> QED
    BY <2>1, <2>2, <2>3, <2>4
<1>7. p.len = 0 \/ (p.len > 0 /\ l.send_ispending) \/ (p.len > 0 /\ ~l.send_ispending)
  BY <1>1
<1> QED
  BY <1>4, <1>5, <1>6, <1>7, Zenon

LEMMA OrderedIs ==
  ASSUME NEW l, NEW t
  PROVE  Ordered(l, t) <=>
           /\ (l.wire \o InSystem(l)) \o Content(l.send_buffer) = t
           /\ \A i \in 1 .. Len(l.posted) : l.posted[i].from = "buffer" =>
                l.posted[i].at + l.posted[i].len <= l.send_buffer.read_pos
<1> DEFINE Low(i) == l.posted[i].at + l.posted[i].len <= l.send_buffer.read_pos
<1>1. (\A i \in InBuffer(l.posted) : Low(i))
        <=> \A i \in 1 .. Len(l.posted) : l.posted[i].from = "buffer" => Low(i)
  <2> HIDE DEF Low
  <2> QED BY Zenon DEF InBuffer
<1> QED
  BY <1>1, Zenon DEF Ordered

\* The same bytes in other places.
LEMMA Regroupings ==
  ASSUME NEW w \in Seq(Bytes), NEW s \in Seq(Bytes), NEW c \in Seq(Bytes), NEW d \in Seq(Bytes)
  PROVE  /\ (w \o (s \o d)) \o <<>> = ((w \o s) \o <<>>) \o d
         /\ (w \o (s \o c)) \o <<>> = (w \o s) \o c
         /\ ((w \o d) \o <<>>) \o <<>> = ((w \o <<>>) \o <<>>) \o d
         /\ ((w \o c) \o <<>>) \o <<>> = (w \o <<>>) \o c
         /\ (w \o s) \o (c \o d) = ((w \o s) \o c) \o d
         /\ (w \o (d \o s)) \o c = ((w \o d) \o s) \o c
<1>1. \A x \in Seq(Bytes) : x \o <<>> = x
  BY ConcatEmptySeq
<1>2. \A x, y \in Seq(Bytes) : x \o y \in Seq(Bytes)
  OBVIOUS
<1>3. Associative(Seq(Bytes))
  BY Associates
<1>4. /\ w \o s \in Seq(Bytes) /\ s \o d \in Seq(Bytes) /\ s \o c \in Seq(Bytes)
      /\ w \o d \in Seq(Bytes) /\ w \o c \in Seq(Bytes) /\ w \o (s \o d) \in Seq(Bytes)
      /\ w \o (s \o c) \in Seq(Bytes)
  BY <1>2
<1>5. w \o <<>> = w /\ (w \o s) \o <<>> = w \o s /\ (w \o d) \o <<>> = w \o d
      /\ (w \o c) \o <<>> = w \o c
  BY <1>1, <1>4, Zenon
<1>6. (w \o (s \o d)) \o <<>> = w \o (s \o d) /\ (w \o (s \o c)) \o <<>> = w \o (s \o c)
  BY <1>1, <1>4, Zenon
<1>7. (w \o s) \o d = w \o (s \o d) /\ (w \o s) \o c = w \o (s \o c)
  BY <1>3, ZenonT(60) DEF Associative
<1>8. ((w \o s) \o c) \o d = (w \o s) \o (c \o d)
  <2> DEFINE x == w \o s
  <2>1. x \in Seq(Bytes)
    BY <1>4
  <2> HIDE DEF x
  <2>2. (x \o c) \o d = x \o (c \o d)
    BY <1>3, <2>1, ZenonT(60) DEF Associative
  <2> QED
    BY <2>2 DEF x
<1>9. (w \o d) \o s = w \o (d \o s)
  BY <1>3, ZenonT(60) DEF Associative
<1> QED
  BY <1>5, <1>6, <1>7, <1>8, <1>9, Zenon

LEMMA RegroupMiddle ==
  ASSUME NEW w \in Seq(Bytes), NEW d \in Seq(Bytes), NEW s \in Seq(Bytes), NEW c \in Seq(Bytes)
  PROVE  (w \o (d \o s)) \o c = ((w \o d) \o s) \o c
<1>1. Associative(Seq(Bytes))
  BY Associates
<1>2. (w \o d) \o s = w \o (d \o s)
  BY <1>1, ZenonT(60) DEF Associative
<1> QED
  BY <1>2, Zenon

LEMMA RegroupBehind ==
  ASSUME NEW w \in Seq(Bytes), NEW s \in Seq(Bytes), NEW d \in Seq(Bytes)
  PROVE  (w \o (s \o d)) \o <<>> = ((w \o s) \o <<>>) \o d
<1>1. Associative(Seq(Bytes))
  BY Associates
<1>2. \A x \in Seq(Bytes) : x \o <<>> = x
  BY ConcatEmptySeq
<1>3. w \o s \in Seq(Bytes) /\ s \o d \in Seq(Bytes)
  OBVIOUS
<1>4. w \o (s \o d) \in Seq(Bytes)
  BY <1>3
<1>5. (w \o (s \o d)) \o <<>> = w \o (s \o d) /\ (w \o s) \o <<>> = w \o s
  BY <1>2, <1>3, <1>4, Zenon
<1>6. (w \o s) \o d = w \o (s \o d)
  BY <1>1, Zenon DEF Associative
<1> QED
  BY <1>5, <1>6, Zenon

\* What a link still has to do is not lost while it sends.
Still(k, l) ==
  /\ k.moved = l.moved \/ k.moved
  /\ l.moved => k.moved
  /\ l.failed => k.failed
  /\ Coming(l) => Coming(k)
  /\ ~Connected => k.posted = l.posted /\ k.send_ispending = l.send_ispending

\* A change of the buffer alone.
WithBuffer(k, l, b, m) == k = [l EXCEPT !.send_buffer = b, !.moved = m]
LEMMA BufferChanged ==
  ASSUME NEW l, LinkInv(l), NEW b, Orderly(b), NEW m, m \in BOOLEAN, NEW k,
         WithBuffer(k, l, b, m)
  PROVE  /\ LinkInv(k) /\ k.send_buffer = b /\ Unchanged(k, l)
         /\ k.failed = l.failed /\ k.moved = m
<1>1. l = [send_buffer |-> l.send_buffer, send_ispending |-> l.send_ispending,
           posted |-> l.posted, completions |-> l.completions, wire |-> l.wire,
           failed |-> l.failed, moved |-> l.moved]
  BY DEF LinkInv, Link
<1>2. k = [send_buffer |-> b, send_ispending |-> l.send_ispending,
           posted |-> l.posted, completions |-> l.completions, wire |-> l.wire,
           failed |-> l.failed, moved |-> m]
  BY <1>1 DEF WithBuffer
<1>3. k.send_buffer = b /\ k.failed = l.failed /\ k.moved = m /\ Unchanged(k, l)
  BY <1>2 DEF Unchanged
<1>4. LinkInv(k)
  BY <1>2, LinkFields, LinkMade
<1> QED
  BY <1>3, <1>4

LEMMA RegionFits ==
  ASSUME NEW b, Orderly(b), NEW p, p = Region(b)
  PROVE  /\ Fits(p) /\ p.from = "buffer" /\ p.len = b.write_pos - b.read_pos
         /\ p.at + p.len = b.write_pos
         /\ \A l : l.send_buffer = b => Outgoing(l, p) = Content(b)
<1>1. p = [from |-> "buffer", at |-> b.read_pos, len |-> b.write_pos - b.read_pos,
           bytes |-> <<>>]
  BY DEF Region, ReadValid
<1>2. /\ p.from = "buffer" /\ p.at = b.read_pos /\ p.len = b.write_pos - b.read_pos
      /\ p.bytes = <<>>
  BY <1>1
<1>3. /\ b.read_pos \in Nat /\ b.write_pos \in Nat /\ b.read_pos <= b.write_pos
      /\ b.write_pos <= data_len
  BY BufferFields
<1>4. b.write_pos - b.read_pos \in Nat /\ b.read_pos + (b.write_pos - b.read_pos) = b.write_pos
  BY <1>3
<1>5. <<>> \in Seq(Bytes)
  OBVIOUS
<1>6. p \in Post
  BY <1>1, <1>3, <1>4, <1>5 DEF Post
<1>7. Fits(p)
  BY <1>2, <1>3, <1>4, <1>6 DEF Fits
<1>8. \A l : l.send_buffer = b => Outgoing(l, p) = Content(b)
  <2> TAKE l
  <2> HAVE l.send_buffer = b
  <2>1. Outgoing(l, p) = [i \in 1 .. p.len |-> b.data[p.at + i - 1]]
    BY <1>2 DEF Outgoing
  <2> QED
    BY <2>1, <1>2 DEF Content, ReadValid
<1> QED
  BY <1>2, <1>4, <1>7, <1>8

\* What WrapBuffer comes to: the buffer is empty, or the send was refused.
Flushed(l, done, k) ==
  /\ LinkInv(k) /\ Still(k, l) /\ k.moved = l.moved
  /\ \/ done = TRUE /\ Content(k.send_buffer) = <<>>
     \/ done = FALSE /\ k.send_buffer = l.send_buffer
          /\ k.send_ispending = l.send_ispending /\ (l.send_ispending \/ k.failed)
  /\ k.send_ispending => l.send_ispending \/ Coming(k)
  /\ \A t : Ordered(l, t) => Ordered(k, t)
LEMMA WrapBufferIs ==
  ASSUME NEW l, LinkInv(l), NEW r \in WrapBuffer(l)
  PROVE  Flushed(l, r[1], r[2])
<1> DEFINE k == r[2]
           b == l.send_buffer
           p == Region(b)
           c == AddReadPos(b, ReadValid(b))
<1>1. PICK q \in Senddata(l, p) : r = <<q[1], IF q[1] THEN AfterBuffer(q[2], ReadValid(b)) ELSE q[2]>>
  BY DEF WrapBuffer
<1>2. /\ Orderly(b) /\ l.wire \in Seq(Bytes) /\ l.completions \in Nat
      /\ Len(l.posted) \in Nat /\ l.posted \in Seq(Post)
      /\ \A i \in 1 .. Len(l.posted) : Fits(l.posted[i])
  BY LinkFields
<1>3. /\ Fits(p) /\ p.from = "buffer" /\ p.len = b.write_pos - b.read_pos
      /\ p.at + p.len = b.write_pos /\ Outgoing(l, p) = Content(b)
  BY <1>2, RegionFits
<1>4. /\ Orderly(c) /\ Content(c) = <<>> /\ c.data = b.data
      /\ c.read_pos = b.write_pos /\ c.write_pos = b.write_pos
  BY <1>2, ReadUp
<1>5. Content(b) \in Seq(Bytes) /\ InSystem(l) \in Seq(Bytes)
  BY <1>2, ContentIs, PartsType
<1>6. b.read_pos \in Nat /\ b.write_pos \in Nat /\ b.read_pos <= b.write_pos
  BY <1>2, BufferFields
<1> DEFINE x == q[2]
<1>7. /\ LinkInv(x) /\ x.send_buffer = b /\ x.moved = l.moved
      /\ l.failed => x.failed
      /\ \/ q[1] = TRUE /\ p.len = 0 /\ x = l
         \/ q[1] = FALSE /\ Refused(x, l, p)
         \/ q[1] = TRUE /\ Posted(x, l, p)
         \/ q[1] = TRUE /\ Done(x, l, p)
  <2> HIDE DEF p, b
  <2> QED BY <1>3, SenddataIs DEF b
<1>8. ASSUME q[1] = TRUE
      PROVE  /\ r[1] = TRUE /\ LinkInv(k) /\ k.send_buffer = c /\ Unchanged(k, x)
             /\ k.failed = x.failed /\ k.moved = x.moved
  <2>1. r[1] = TRUE /\ k = AfterBuffer(x, ReadValid(b))
    BY <1>1, <1>8
  <2> HIDE DEF x, k
  <2>2. x = [send_buffer |-> x.send_buffer, send_ispending |-> x.send_ispending,
             posted |-> x.posted, completions |-> x.completions, wire |-> x.wire,
             failed |-> x.failed, moved |-> x.moved]
    BY <1>7 DEF LinkInv, Link
  <2> HIDE DEF c, b
  <2>3. WithBuffer(k, x, c, x.moved)
    BY <2>1, <2>2, <1>7 DEF AfterBuffer, WithBuffer, c
  <2>4. x.moved \in BOOLEAN
    BY <1>7, LinkFields
  <2>5. /\ LinkInv(k) /\ k.send_buffer = c /\ Unchanged(k, x)
        /\ k.failed = x.failed /\ k.moved = x.moved
    <3>1. LinkInv(x) /\ Orderly(c)
      BY <1>4, <1>7
    <3> QED BY <3>1, <2>3, <2>4, BufferChanged
  <2> QED
    BY <2>1, <2>5
<1>k. k = r[2]
  OBVIOUS
<1> HIDE DEF b, p, c, x, k
<1>goal. SUFFICES Flushed(l, r[1], k)
  BY <1>k
\* Nothing to send.
<1>9. CASE q[1] = TRUE /\ p.len = 0 /\ x = l
  <2>1. /\ r[1] = TRUE /\ LinkInv(k) /\ k.send_buffer = c /\ Unchanged(k, l)
        /\ k.failed = l.failed /\ k.moved = l.moved
    BY <1>8, <1>9
  <2>2. Still(k, l)
    BY <2>1 DEF Still, Unchanged, Coming
  <2>3. Content(b) = <<>> /\ b.read_pos = b.write_pos
    <3>1. b.read_pos = b.write_pos
      BY <1>3, <1>6, <1>9
    <3>2. Len(Content(b)) = 0
      BY <3>1, <1>2, <1>6, ContentIs
    <3> QED BY <3>1, <3>2, <1>5
  <2>4. InSystem(k) = InSystem(l)
    <3>1. \A i \in 1 .. Len(l.posted) : Outgoing(k, l.posted[i]) = Outgoing(l, l.posted[i])
      BY <2>1, <1>4 DEF Outgoing, b
    <3> QED BY <3>1, <2>1, InSystemSame DEF Unchanged
  <2>5. \A t : Ordered(l, t) => Ordered(k, t)
    <3> TAKE t
    <3> HAVE Ordered(l, t)
    <3>1. (l.wire \o InSystem(l)) \o <<>> = t
      BY <2>3, OrderedIs DEF b
    <3>2. (k.wire \o InSystem(k)) \o Content(k.send_buffer) = t
      BY <3>1, <2>1, <2>4, <1>4, Zenon DEF Unchanged
    <3>3. \A i \in 1 .. Len(k.posted) : k.posted[i].from = "buffer" =>
            k.posted[i].at + k.posted[i].len <= k.send_buffer.read_pos
      BY <2>1, <2>3, <1>4, OrderedIs DEF Unchanged, b
    <3> QED BY <3>2, <3>3, OrderedIs
  <2> QED
    BY <2>1, <2>2, <2>5, <1>4 DEF Unchanged, Flushed
\* The send is refused.
<1>10. CASE q[1] = FALSE /\ Refused(x, l, p)
  <2>1. r[1] = FALSE /\ k = x
    BY <1>1, <1>10, <1>k DEF x
  <2>2. /\ LinkInv(k) /\ k.send_buffer = b /\ Unchanged(k, l) /\ k.moved = l.moved
        /\ (l.failed => k.failed) /\ (l.send_ispending \/ k.failed)
    BY <2>1, <1>7, <1>10 DEF Refused
  <2>3. Still(k, l)
    BY <2>2 DEF Still, Unchanged, Coming
  <2>4. InSystem(k) = InSystem(l)
    <3>1. \A i \in 1 .. Len(l.posted) : Outgoing(k, l.posted[i]) = Outgoing(l, l.posted[i])
      BY <2>2 DEF Outgoing, b
    <3> QED BY <3>1, <2>2, InSystemSame DEF Unchanged
  <2>5. \A t : Ordered(l, t) => Ordered(k, t)
    BY <2>2, <2>4, OrderedIs DEF Unchanged, b
  <2> QED
    BY <2>1, <2>2, <2>3, <2>5 DEF Unchanged, b, Flushed
\* It is pending.
<1>11. CASE q[1] = TRUE /\ Posted(x, l, p)
  <2>1. /\ r[1] = TRUE /\ LinkInv(k) /\ k.send_buffer = c /\ k.posted = Append(l.posted, p)
        /\ k.completions = l.completions /\ k.wire = l.wire
        /\ k.failed = l.failed /\ k.moved = l.moved /\ Connected
    BY <1>7, <1>8, <1>11 DEF Posted, Unchanged
  <2>2. k.posted # <<>>
    <3>1. p \in Post
      BY <1>3 DEF Fits
    <3> QED BY <2>1, <1>2, <3>1, OneMore
  <2>3. Still(k, l) /\ Coming(k)
    BY <2>1, <2>2 DEF Still, Coming
  <2>4. InSystem(k) = InSystem(l) \o Content(b)
    <3>1. k.send_buffer.data = l.send_buffer.data
      BY <2>1, <1>4 DEF b
    <3> QED BY <3>1, <2>1, <1>3, InSystemAppend
  <2>5. \A t : Ordered(l, t) => Ordered(k, t)
    <3> TAKE t
    <3> HAVE Ordered(l, t)
    <3>1. (l.wire \o InSystem(l)) \o Content(b) = t
      BY OrderedIs DEF b
    <3>2. (l.wire \o (InSystem(l) \o Content(b))) \o <<>> = t
      BY <3>1, <1>2, <1>5, Regroupings, ZenonT(60)
    <3>3. (k.wire \o InSystem(k)) \o Content(k.send_buffer) = t
      BY <3>2, <2>1, <2>4, <1>4, Zenon
    <3>4. \A i \in 1 .. Len(k.posted) : k.posted[i].from = "buffer" =>
            k.posted[i].at + k.posted[i].len <= k.send_buffer.read_pos
      <4> TAKE i \in 1 .. Len(k.posted)
      <4>1. k.send_buffer.read_pos = b.write_pos
        BY <2>1, <1>4
      <4>2. p \in Post
        BY <1>3 DEF Fits
      <4>3. Len(k.posted) = Len(l.posted) + 1 /\ k.posted[Len(l.posted) + 1] = p
            /\ \A j \in 1 .. Len(l.posted) : k.posted[j] = l.posted[j]
        BY <2>1, <1>2, <4>2
      <4>4. CASE i = Len(l.posted) + 1
        BY <4>1, <4>3, <4>4, <1>3, <1>6
      <4>5. CASE i \in 1 .. Len(l.posted)
        <5>1. l.posted[i].from = "buffer" =>
                l.posted[i].at + l.posted[i].len <= b.read_pos
          BY <4>5, OrderedIs DEF b
        <5>2. l.posted[i].at \in Nat /\ l.posted[i].len \in Nat /\ k.posted[i] = l.posted[i]
          BY <4>3, <4>5, <1>2 DEF Fits, Post
        <5> QED BY <5>1, <5>2, <4>1, <1>6
      <4> QED
        BY <4>3, <4>4, <4>5, <1>2
    <3> QED BY <3>3, <3>4, OrderedIs
  <2> QED
    BY <2>1, <2>3, <2>5, <1>4 DEF Flushed
\* It is done at once.
<1>12. CASE q[1] = TRUE /\ Done(x, l, p)
  <2>1. /\ r[1] = TRUE /\ LinkInv(k) /\ k.send_buffer = c /\ k.posted = <<>> /\ l.posted = <<>>
        /\ k.completions = l.completions + 1 /\ k.wire = l.wire \o Content(b)
        /\ k.failed = l.failed /\ k.moved = l.moved /\ Connected /\ ~k.send_ispending
    BY <1>3, <1>7, <1>8, <1>12 DEF Done, Unchanged
  <2>2. Still(k, l)
    BY <2>1, <1>2 DEF Still, Coming
  <2>3. InSystem(k) = <<>> /\ InSystem(l) = <<>>
    BY <2>1, InSystemEmpty
  <2>4. \A t : Ordered(l, t) => Ordered(k, t)
    <3> TAKE t
    <3> HAVE Ordered(l, t)
    <3>1. (l.wire \o <<>>) \o Content(b) = t
      BY <2>3, OrderedIs DEF b
    <3>2. ((l.wire \o Content(b)) \o <<>>) \o <<>> = t
      BY <3>1, <1>2, <1>5, Regroupings
    <3>3. (k.wire \o InSystem(k)) \o Content(k.send_buffer) = t
      BY <3>2, <2>1, <2>3, <1>4, Zenon
    <3>4. \A i \in 1 .. Len(k.posted) : k.posted[i].from = "buffer" =>
            k.posted[i].at + k.posted[i].len <= k.send_buffer.read_pos
      BY <2>1
    <3> QED BY <3>3, <3>4, OrderedIs
  <2> QED
    BY <2>1, <2>2, <2>4, <1>4 DEF Flushed
<1> QED
  BY <1>7, <1>9, <1>10, <1>11, <1>12

\* What is new is in the system, on the wire or in the buffer when it was accepted.
Wrapped(l, d, done, k) ==
  /\ LinkInv(k) /\ Still(k, l)
  /\ \A t \in Seq(Bytes) :
       Ordered(l, t) /\ ~k.moved => Ordered(k, IF done THEN t \o d ELSE t)
  /\ WillBeSent(l) /\ ~k.failed => WillBeSent(k)
LEMMA WrapIs ==
  ASSUME NEW l, LinkInv(l), NEW d, d \in Seq(Bytes), d # <<>>, NEW r \in Wrap(l, d)
  PROVE  Wrapped(l, d, r[1], r[2])
<1> DEFINE k == r[2]
<1>k. k = r[2]
  OBVIOUS
<1> HIDE DEF k
<1>goal. SUFFICES Wrapped(l, d, r[1], k)
  BY <1>k
<1>1. PICK u \in WrapBuffer(l) :
        r \in IF ~u[1] THEN {u}
              ELSE {IF q[1] THEN q ELSE Kept(q[2], d) : q \in Senddata(u[2], Data(d))}
  BY DEF Wrap
<1> DEFINE m == u[2]
<1>0. m = u[2]
  OBVIOUS
<1> HIDE DEF m
<1>2. /\ LinkInv(m) /\ Still(m, l) /\ m.moved = l.moved
      /\ \/ u[1] = TRUE /\ Content(m.send_buffer) = <<>>
         \/ u[1] = FALSE /\ m.send_buffer = l.send_buffer
              /\ m.send_ispending = l.send_ispending /\ (l.send_ispending \/ m.failed)
      /\ m.send_ispending => l.send_ispending \/ Coming(m)
      /\ \A t : Ordered(l, t) => Ordered(m, t)
  <2>1. Flushed(l, u[1], u[2])
    BY WrapBufferIs
  <2> QED BY <1>0, <2>1 DEF Flushed
\* The buffered data was refused, and so is the new.
<1>3. CASE u[1] = FALSE
  <2>1. r = u /\ k = m /\ r[1] = FALSE
    BY <1>k, <1>0, <1>1, <1>3
  <2>2. m.send_buffer = l.send_buffer /\ m.send_ispending = l.send_ispending
    BY <1>2, <1>3
  <2>3. WillBeSent(l) => WillBeSent(k)
    BY <1>2, <2>1, <2>2 DEF WillBeSent, Still
  <2> QED
    BY <1>2, <2>1, <2>3 DEF Wrapped
<1>4. CASE u[1] = TRUE
  <2> DEFINE p == Data(d)
  <2>1. PICK q \in Senddata(m, p) : r = IF q[1] THEN q ELSE Kept(q[2], d)
    BY <1>0, <1>1, <1>4
  <2>2. /\ p = [from |-> "caller", at |-> 0, len |-> Len(d), bytes |-> d]
        /\ Len(d) \in Nat /\ Len(d) > 0
    BY DEF Data
  <2>3. Fits(p) /\ p.len > 0 /\ p.from = "caller" /\ p \in Post
    BY <2>2 DEF Fits, Post
  <2>4. Outgoing(m, p) = d
    BY <2>2, <2>3 DEF Outgoing
  <2> HIDE DEF p
  <2> DEFINE x == q[2]
  <2>sent. /\ LinkInv(x) /\ x.send_buffer = m.send_buffer /\ x.moved = m.moved
           /\ m.failed => x.failed
           /\ \/ q[1] = TRUE /\ p.len = 0 /\ x = m
              \/ q[1] = FALSE /\ Refused(x, m, p)
              \/ q[1] = TRUE /\ Posted(x, m, p)
              \/ q[1] = TRUE /\ Done(x, m, p)
    BY <1>2, <2>3, SenddataIs
  <2>x. x = q[2]
    OBVIOUS
  <2> HIDE DEF x
  <2>5. /\ LinkInv(x) /\ x.send_buffer = m.send_buffer /\ x.moved = m.moved
        /\ m.failed => x.failed
        /\ \/ q[1] = FALSE /\ Refused(x, m, p)
           \/ q[1] = TRUE /\ Posted(x, m, p)
           \/ q[1] = TRUE /\ Done(x, m, p)
    BY <2>3, <2>sent
  <2>6. /\ Orderly(m.send_buffer) /\ m.wire \in Seq(Bytes) /\ m.completions \in Nat
        /\ Len(m.posted) \in Nat /\ m.posted \in Seq(Post)
        /\ \A i \in 1 .. Len(m.posted) : Fits(m.posted[i])
        /\ InSystem(m) \in Seq(Bytes)
    BY <1>2, LinkFields, PartsType
  <2>nil. <<>> \in Seq(Bytes)
    OBVIOUS
  <2>7. Content(m.send_buffer) = <<>>
    BY <1>2, <1>4
  <2>8. WillBeSent(l) => WillBeSent(m)
    BY <1>2, <2>7 DEF WillBeSent, Still
  \* It is pending.
  <2>9. CASE q[1] = TRUE /\ Posted(x, m, p)
    <3>1. r[1] = TRUE /\ k = x
      BY <1>k, <2>1, <2>9, <2>x
    <3>2. /\ k.posted = Append(m.posted, p) /\ k.send_buffer = m.send_buffer
          /\ k.completions = m.completions /\ k.wire = m.wire /\ k.failed = m.failed
          /\ k.moved = m.moved /\ Connected
      BY <3>1, <2>5, <2>9 DEF Posted
    <3>3. /\ Len(k.posted) = Len(m.posted) + 1 /\ k.posted[Len(m.posted) + 1] = p
          /\ k.posted # <<>> /\ \A i \in 1 .. Len(m.posted) : k.posted[i] = m.posted[i]
      <4>1. m.posted \in Seq(Post) /\ p \in Post
        BY <2>3, <2>6
      <4>2. /\ Len(Append(m.posted, p)) = Len(m.posted) + 1
            /\ Append(m.posted, p)[Len(m.posted) + 1] = p /\ Append(m.posted, p) # <<>>
            /\ \A i \in 1 .. Len(m.posted) : Append(m.posted, p)[i] = m.posted[i]
        BY <4>1, OneMore
      <4> QED BY <3>2, <4>2, Zenon
    <3>4. Still(k, l)
      BY <1>2, <3>2, <3>3 DEF Still, Coming
    <3>5. WillBeSent(k)
      BY <3>3 DEF WillBeSent, Coming
    <3>6. InSystem(k) = InSystem(m) \o d
      BY <3>2, <2>3, <2>4, <1>2, InSystemAppend
    <3>7. ASSUME NEW t \in Seq(Bytes), Ordered(l, t) PROVE Ordered(k, t \o d)
      <4>1. Ordered(m, t)
        BY <1>2, <3>7
      <4>2. (m.wire \o InSystem(m)) \o <<>> = t
        BY <4>1, <2>7, OrderedIs
      <4>3. (m.wire \o (InSystem(m) \o d)) \o <<>> = t \o d
        <5>1. (m.wire \o (InSystem(m) \o d)) \o <<>>
                = ((m.wire \o InSystem(m)) \o <<>>) \o d
          BY <2>6, RegroupBehind, ZenonT(60)
        <5> QED BY <4>2, <5>1, Zenon
      <4>4. (k.wire \o InSystem(k)) \o Content(k.send_buffer) = t \o d
        BY <4>3, <3>2, <3>6, <2>7, Zenon
      <4>5. \A i \in 1 .. Len(k.posted) : k.posted[i].from = "buffer" =>
              k.posted[i].at + k.posted[i].len <= k.send_buffer.read_pos
        <5> TAKE i \in 1 .. Len(k.posted)
        <5>1. i = Len(m.posted) + 1 \/ i \in 1 .. Len(m.posted)
          BY <3>3, <2>6
        <5>2. CASE i = Len(m.posted) + 1
          BY <5>2, <3>3, <2>3
        <5>3. CASE i \in 1 .. Len(m.posted)
          BY <5>3, <4>1, <3>2, <3>3, OrderedIs
        <5> QED
          BY <5>1, <5>2, <5>3
      <4> QED
        BY <4>4, <4>5, OrderedIs
    <3> QED
      BY <3>1, <3>2, <3>4, <3>5, <3>7, <2>5 DEF Wrapped
  \* It is done at once.
  <2>10. CASE q[1] = TRUE /\ Done(x, m, p)
    <3>1. r[1] = TRUE /\ k = x
      BY <1>k, <2>1, <2>10, <2>x
    <3>2. /\ k.posted = <<>> /\ m.posted = <<>> /\ k.send_buffer = m.send_buffer
          /\ k.completions = m.completions + 1 /\ k.wire = m.wire \o d /\ k.failed = m.failed
          /\ k.moved = m.moved /\ Connected
      BY <3>1, <2>4, <2>5, <2>10 DEF Done
    <3>3. k.completions > 0
      BY <3>2, <2>6
    <3>4. Still(k, l)
      BY <1>2, <3>2, <3>3 DEF Still, Coming
    <3>5. WillBeSent(k)
      BY <3>3 DEF WillBeSent, Coming
    <3>6. InSystem(k) = <<>> /\ InSystem(m) = <<>>
      BY <3>2, InSystemEmpty
    <3>7. ASSUME NEW t \in Seq(Bytes), Ordered(l, t) PROVE Ordered(k, t \o d)
      <4>1. Ordered(m, t)
        BY <1>2, <3>7
      <4>2. (m.wire \o <<>>) \o <<>> = t
        BY <4>1, <2>7, <3>6, OrderedIs
      <4>3. ((m.wire \o d) \o <<>>) \o <<>> = t \o d
        <5>1. ((m.wire \o d) \o <<>>) \o <<>>
                = ((m.wire \o <<>>) \o <<>>) \o d
          BY <2>6, <2>nil, Regroupings
        <5> QED BY <4>2, <5>1, Zenon
      <4>4. (k.wire \o InSystem(k)) \o Content(k.send_buffer) = t \o d
        BY <4>3, <3>2, <3>6, <2>7, Zenon
      <4>5. \A i \in 1 .. Len(k.posted) : k.posted[i].from = "buffer" =>
              k.posted[i].at + k.posted[i].len <= k.send_buffer.read_pos
        BY <3>2
      <4> QED
        BY <4>4, <4>5, OrderedIs
    <3> QED
      BY <3>1, <3>2, <3>4, <3>5, <3>7, <2>5 DEF Wrapped
  \* It is refused, and kept in the buffer if there is room.
  <2>11. CASE q[1] = FALSE /\ Refused(x, m, p)
    <3> DEFINE b == x.send_buffer
               c == Write(b, d)
               mv == x.moved \/ (Moves(b, d) /\ InBuffer(x.posted) # {})
    <3>1. r = <<WriteOk(b, d), [x EXCEPT !.send_buffer = Write(@, d), !.moved = mv]>>
      BY <2>1, <2>11, <2>x DEF Kept
    <3>2. /\ Orderly(b) /\ b = m.send_buffer /\ x.moved \in BOOLEAN
          /\ x.posted = m.posted /\ x.wire = m.wire
      BY <2>5, <2>11, LinkFields DEF Refused, Unchanged
    <3>3. mv \in BOOLEAN
      BY <3>2
    <3>4. WithBuffer(k, x, c, mv)
      <4>1. x = [send_buffer |-> x.send_buffer, send_ispending |-> x.send_ispending,
                 posted |-> x.posted, completions |-> x.completions, wire |-> x.wire,
                 failed |-> x.failed, moved |-> x.moved]
        BY <2>5 DEF LinkInv, Link
      <4> HIDE DEF mv
      <4> QED BY <1>k, <3>1, <4>1 DEF WithBuffer
    <3>5. /\ Orderly(c)
          /\ Content(c) = IF WriteOk(b, d) THEN Content(b) \o d ELSE Content(b)
          /\ ~Moves(b, d) => /\ c.read_pos = b.read_pos
                             /\ \A j \in Cells : j < b.write_pos => c.data[j] = b.data[j]
      <4>1. c = Write(b, d)
        OBVIOUS
      <4> HIDE DEF b, c
      <4>2. Written(b, d, c)
        BY <3>2, <4>1, WriteIs
      <4> QED BY <4>2 DEF Written
    <3> HIDE DEF c, mv
    <3>6. /\ LinkInv(k) /\ k.send_buffer = c /\ Unchanged(k, x)
          /\ k.failed = x.failed /\ k.moved = mv
      BY <2>5, <3>3, <3>4, <3>5, BufferChanged
    <3>7. r[1] = WriteOk(b, d)
      BY <3>1
    <3>8. /\ k.posted = m.posted /\ k.completions = m.completions /\ k.wire = m.wire
          /\ k.send_ispending = m.send_ispending /\ (m.send_ispending \/ k.failed)
      BY <3>6, <2>11 DEF Refused, Unchanged
    <3>9. Still(k, l)
      <4>1. (m.moved => k.moved) /\ (k.moved = m.moved \/ k.moved)
        BY <3>6, <3>2, <2>5 DEF mv
      <4>2. m.failed => k.failed
        BY <3>6, <2>5
      <4> QED
        BY <4>1, <4>2, <1>2, <3>8 DEF Still, Coming
    <3>10. WillBeSent(l) /\ ~k.failed => WillBeSent(k)
      BY <2>8, <3>8 DEF WillBeSent, Coming
    <3>11. ASSUME NEW t \in Seq(Bytes), Ordered(l, t), ~k.moved
           PROVE  Ordered(k, IF r[1] THEN t \o d ELSE t)
      <4>1. Ordered(m, t)
        BY <1>2, <3>11
      <4>2. ~Moves(b, d) \/ InBuffer(m.posted) = {}
        BY <3>11, <3>6, <3>2 DEF mv
      <4>3. \A i \in 1 .. Len(m.posted) : m.posted[i].from = "buffer" =>
              /\ c.read_pos = b.read_pos /\ ~Moves(b, d)
              /\ m.posted[i].at + m.posted[i].len <= b.read_pos
        <5> TAKE i \in 1 .. Len(m.posted)
        <5> HAVE m.posted[i].from = "buffer"
        <5>1. i \in InBuffer(m.posted)
          BY DEF InBuffer
        <5> HIDE DEF b
        <5> QED BY <5>1, <4>1, <4>2, <3>2, <3>5, OrderedIs
      <4>4. InSystem(k) = InSystem(m)
        <5>1. \A i \in 1 .. Len(m.posted) : Outgoing(k, m.posted[i]) = Outgoing(m, m.posted[i])
          <6> TAKE i \in 1 .. Len(m.posted)
          <6> DEFINE p1 == m.posted[i]
          <6>1. Fits(p1)
            BY <2>6
          <6>2. data_len \in Nat /\ b.read_pos \in Nat /\ b.write_pos \in Nat
                /\ b.read_pos <= b.write_pos
            BY <3>2, BufferFields, BufferAssumption
          <6>3. p1.from = "buffer" => \A j \in Cells :
                  j < p1.at + p1.len => k.send_buffer.data[j] = m.send_buffer.data[j]
            <7> HAVE p1.from = "buffer"
            <7> TAKE j \in Cells
            <7> HAVE j < p1.at + p1.len
            <7>1. p1.at \in Nat /\ p1.len \in Nat /\ p1.at + p1.len <= b.read_pos /\ ~Moves(b, d)
              BY <4>3, <6>1 DEF Fits, Post
            <7>2. j < b.write_pos
              <8>1. j \in Nat
                BY DEF Cells
              <8> HIDE DEF p1, b
              <8> QED BY <7>1, <6>2, <8>1
            <7> QED
              BY <7>1, <7>2, <3>5, <3>6, <3>2
          <6> HIDE DEF p1
          <6>4. Outgoing(k, p1) = Outgoing(m, p1)
            BY <6>1, <6>2, <6>3, OutgoingSame
          <6> QED
            BY <6>4 DEF p1
        <5> QED
          BY <5>1, <1>2, <3>8, InSystemSame
      <4>5. (m.wire \o InSystem(m)) \o <<>> = t
        BY <4>1, <2>7, OrderedIs
      <4>6. (k.wire \o InSystem(k)) \o Content(k.send_buffer) = IF r[1] THEN t \o d ELSE t
        <5>1. Content(b) = <<>> /\ <<>> \in Seq(Bytes)
          BY <2>7, <3>2
        <5>2. (m.wire \o InSystem(m)) \o (<<>> \o d) = ((m.wire \o InSystem(m)) \o <<>>) \o d
          BY <5>1, <2>6, Regroupings
        <5>3. CASE WriteOk(b, d)
          <6>1. Content(k.send_buffer) = <<>> \o d
            BY <5>1, <5>3, <3>5, <3>6
          <6>2. r[1]
            BY <5>3, <3>7
          <6> QED BY <6>1, <6>2, <5>2, <4>4, <4>5, <3>8, Zenon
        <5>4. CASE ~WriteOk(b, d)
          <6>1. Content(k.send_buffer) = <<>>
            BY <5>1, <5>4, <3>5, <3>6
          <6>2. ~r[1]
            BY <5>4, <3>7
          <6> QED BY <6>1, <6>2, <4>4, <4>5, <3>8, Zenon
        <5> QED
          BY <5>3, <5>4
      <4>7. \A i \in 1 .. Len(k.posted) : k.posted[i].from = "buffer" =>
              k.posted[i].at + k.posted[i].len <= k.send_buffer.read_pos
        BY <4>3, <3>6, <3>8
      <4> QED
        BY <4>6, <4>7, OrderedIs
    <3> QED
      BY <3>6, <3>9, <3>10, <3>11 DEF Wrapped
  <2> QED
    BY <2>5, <2>9, <2>10, <2>11
<1> QED
  BY <1>2, <1>3, <1>4

(***************************************************************************)
(* The invariant.                                                          *)
(***************************************************************************)

Rest ==
  /\ accepted \in Seq(Bytes)
  /\ life \in {"open", "leaving", "free", "waiting", "connected"}
  /\ lives \in 1 .. MaxLives
  /\ calling \in Seq(Bytes) /\ sent \in 0 .. Len(Todo)
  /\ carried \in BOOLEAN
Exact ==
  life = "open" /\ ~carried /\ ~link.failed /\ ~link.moved =>
    Ordered(link, accepted) /\ WillBeSent(link)
Whole == Rest /\ LinkInv(link) /\ LifeInv /\ Exact

LEMMA LinkIs ==
  ASSUME NEW l, LinkInv(l)
  PROVE  l = [send_buffer |-> l.send_buffer, send_ispending |-> l.send_ispending,
              posted |-> l.posted, completions |-> l.completions, wire |-> l.wire,
              failed |-> l.failed, moved |-> l.moved]
BY DEF LinkInv, Link

LEMMA InvIsWhole == IocpSendInv <=> Whole
<1>1. ASSUME LinkInv(link)
      PROVE  /\ link.send_buffer \in BufferType
             /\ link.send_ispending \in BOOLEAN /\ link.failed \in BOOLEAN
             /\ link.moved \in BOOLEAN /\ link.completions \in Nat
             /\ \A i \in InBuffer(link.posted) :
                  link.posted[i].at + link.posted[i].len <= data_len
             /\ link.wire \in Seq(Bytes)
  <2>1. link \in Link
    BY <1>1 DEF LinkInv
  <2>2. /\ link.send_buffer \in BufferType
        /\ link.send_ispending \in BOOLEAN /\ link.failed \in BOOLEAN
        /\ link.moved \in BOOLEAN /\ link.completions \in Nat
        /\ link.wire \in Seq(Bytes)
    BY <2>1 DEF Link
  <2> QED
    BY <2>2, <1>1 DEF LinkInv
<1>2. IocpSendTypeOK /\ LinkInv(link) <=> Rest /\ LinkInv(link)
  BY <1>1, Zenon DEF IocpSendTypeOK, Rest
<1> QED
  BY <1>2, Zenon DEF IocpSendInv, Whole, Exact

LEMMA StartsWhole == IocpSendInit => Whole
<1> SUFFICES ASSUME IocpSendInit PROVE Whole
  OBVIOUS
<1>1. link = [send_buffer |-> EmptyBuffer, send_ispending |-> FALSE, posted |-> <<>>,
              completions |-> 0, wire |-> <<>>, failed |-> FALSE, moved |-> FALSE]
  BY DEF IocpSendInit
<1>2. <<>> \in Seq(Bytes) /\ <<>> \in Seq(Post) /\ Len(<<>>) = 0 /\ <<>> \o <<>> = <<>>
  OBVIOUS
<1>3. Rest
  <2>1. 1 \in 1 .. MaxLives /\ 0 \in 0 .. Len(Todo)
    BY IocpSendAssumption
  <2>2. lives \in 1 .. MaxLives /\ sent \in 0 .. Len(Todo)
    BY <2>1 DEF IocpSendInit
  <2>3. accepted \in Seq(Bytes) /\ calling \in Seq(Bytes)
    BY <1>2 DEF IocpSendInit
  <2> QED BY <2>2, <2>3 DEF IocpSendInit, Rest
<1>4. /\ link.send_buffer = EmptyBuffer /\ link.send_ispending = FALSE
      /\ link.posted = <<>> /\ link.wire = <<>>
  BY <1>1
<1>5. LinkInv(link)
  <2>1. \A i \in 1 .. Len(<<>>) : Fits(<<>>[i])
    BY <1>2
  <2> QED BY <1>1, <1>2, <2>1, EmptyIs, LinkMade, Zenon
<1>6. LifeInv
  BY DEF IocpSendInit, LifeInv
<1>7. Exact
  <2>1. InSystem(link) = <<>>
    BY <1>4, InSystemEmpty
  <2>2. (link.wire \o InSystem(link)) \o Content(link.send_buffer) = accepted
    BY <2>1, <1>2, <1>4, EmptyIs, Zenon DEF IocpSendInit
  <2>3. Ordered(link, accepted)
    <3>1. \A i \in 1 .. Len(link.posted) : FALSE
      BY <1>2, <1>4
    <3> QED BY <2>2, <3>1, OrderedIs
  <2> QED BY <2>3, <1>4, EmptyIs DEF Exact, WillBeSent
<1> QED
  BY <1>3, <1>5, <1>6, <1>7 DEF Whole

\* Steps that leave the link and what was accepted alone.
LEMMA BeginSendKeeps ==
  ASSUME Whole, NEW n \in 1 .. Len(Todo), BeginSend(n)
  PROVE  Whole'
<1>1. Len(Todo) \in Nat /\ Todo \in Seq(Bytes) /\ sent \in 0 .. Len(Todo)
  BY IocpSendAssumption DEF Whole, Rest
<1>2. sent + n <= Len(Todo) /\ sent' = sent + n
  BY DEF BeginSend
<1>3. SubSeq(Todo, sent + 1, sent + n) \in Seq(Bytes) /\ <<>> \in Seq(Bytes)
  BY <1>1, <1>2
<1>4. Rest'
  BY <1>1, <1>2, <1>3 DEF BeginSend, Whole, Rest
<1>5. LifeInv'
  BY DEF BeginSend, Whole, LifeInv
<1> QED
  BY <1>4, <1>5 DEF BeginSend, Whole, Exact

LEMMA ClosingKeeps ==
  ASSUME Whole, ResetSession \/ Disconnected
  PROVE  Whole'
<1>1. UNCHANGED <<link, accepted, lives, calling, sent, carried>>
      /\ life' \in {"leaving", "free"} /\ (life' = "free" => link.posted = <<>>)
  BY DEF ResetSession, Disconnected
<1>2. Rest'
  BY <1>1 DEF Whole, Rest
<1>3. LifeInv' /\ Exact'
  BY <1>1 DEF LifeInv, Exact
<1> QED
  BY <1>1, <1>2, <1>3 DEF Whole

\* A server_send that found the session active, however the session stands by now.
LEMMA ServerSendKeeps ==
  ASSUME Whole, ServerSend
  PROVE  Whole'
<1>1. PICK r \in Wrap(link, calling) :
        link' = r[2] /\ accepted' = IF r[1] THEN accepted \o calling ELSE accepted
  BY DEF ServerSend
<1>2. /\ LinkInv(link) /\ calling \in Seq(Bytes) /\ calling # <<>> /\ accepted \in Seq(Bytes)
      /\ calling' = <<>> /\ UNCHANGED <<life, lives, sent, carried>>
  BY DEF Whole, Rest, ServerSend
<1>3. Wrapped(link, calling, r[1], link')
  BY <1>1, <1>2, WrapIs, Zenon
<1>4. accepted \o calling \in Seq(Bytes) /\ <<>> \in Seq(Bytes)
  BY <1>2
<1>5. Rest'
  BY <1>1, <1>2, <1>4 DEF Whole, Rest
<1>6. LinkInv(link)' /\ Still(link', link)
  BY <1>3 DEF Wrapped
<1>7. LifeInv'
  <2>1. ~(life = "connected" /\ ~carried)
    BY <1>2 DEF Whole, LifeInv
  <2>2. life \in {"free", "waiting"} =>
          link'.posted = link.posted /\ link'.send_ispending = link.send_ispending
    BY <1>6 DEF Still, Connected
  <2> QED BY <1>2, <2>1, <2>2 DEF Whole, LifeInv
<1>8. Exact'
  <2> SUFFICES ASSUME life = "open", ~carried, ~link'.failed, ~link'.moved
               PROVE  Ordered(link', accepted') /\ WillBeSent(link')
    BY <1>2 DEF Exact
  <2>1. ~link.failed /\ ~link.moved
    BY <1>6 DEF Still
  <2>2. Ordered(link, accepted) /\ WillBeSent(link)
    BY <2>1 DEF Whole, Exact
  <2>3. Ordered(link', IF r[1] THEN accepted \o calling ELSE accepted)
    BY <1>2, <1>3, <2>2 DEF Wrapped
  <2> QED
    BY <1>1, <1>3, <2>2, <2>3 DEF Wrapped
<1> QED
  BY <1>5, <1>6, <1>7, <1>8 DEF Whole

\* Nothing is posted where nothing could have been.
LEMMA WherePosted ==
  ASSUME Whole, link.posted # <<>>
  PROVE  life \notin {"free", "waiting"} /\ ~(life = "connected" /\ ~carried)
BY DEF Whole, LifeInv

LEMMA TailFits ==
  ASSUME NEW l, LinkInv(l), l.posted # <<>>
  PROVE  /\ Tail(l.posted) \in Seq(Post)
         /\ \A i \in 1 .. Len(Tail(l.posted)) : Fits(Tail(l.posted)[i])
         /\ Fits(Head(l.posted))
<1>1. /\ l.posted \in Seq(Post) /\ Len(l.posted) \in Nat
      /\ \A i \in 1 .. Len(l.posted) : Fits(l.posted[i])
  BY LinkFields
<1>2. /\ Tail(l.posted) \in Seq(Post) /\ Len(Tail(l.posted)) = Len(l.posted) - 1
      /\ Len(l.posted) # 0 /\ Head(l.posted) = l.posted[1]
      /\ \A i \in 1 .. Len(l.posted) - 1 : Tail(l.posted)[i] = l.posted[i + 1]
  BY <1>1
<1> QED
  BY <1>1, <1>2

LEMMA OldestSent ==
  ASSUME NEW l, LinkInv(l), NEW k, LinkInv(k), l.posted # <<>>,
         NEW d, d = Outgoing(l, Head(l.posted)), k.wire = l.wire \o d,
         k.posted = Tail(l.posted), k.send_buffer = l.send_buffer,
         NEW t, Ordered(l, t)
  PROVE  Ordered(k, t)
<1> DEFINE w == l.wire
           s == InSystem(k)
           c == Content(l.send_buffer)
<1>1. w \in Seq(Bytes) /\ c \in Seq(Bytes) /\ s \in Seq(Bytes)
  BY LinkFields, ContentIs, PartsType
<1>2. d \in Seq(Bytes)
  BY LinkFields, TailFits, OutgoingType
<1>3. InSystem(l) = d \o s
  BY InSystemTail
<1>4. (w \o InSystem(l)) \o c = t
  BY OrderedIs
<1>5. (k.wire \o s) \o Content(k.send_buffer) = ((w \o d) \o s) \o c
  OBVIOUS
<1> HIDE DEF w, s, c
<1>6. (w \o (d \o s)) \o c = ((w \o d) \o s) \o c
  BY <1>1, <1>2, RegroupMiddle, SMTT(60)
<1>7. (k.wire \o InSystem(k)) \o Content(k.send_buffer) = t
  BY <1>3, <1>4, <1>5, <1>6, Zenon DEF s
<1>8. \A i \in 1 .. Len(k.posted) : k.posted[i].from = "buffer" =>
        k.posted[i].at + k.posted[i].len <= k.send_buffer.read_pos
  <2>1. \A i \in 1 .. Len(l.posted) : l.posted[i].from = "buffer" =>
          l.posted[i].at + l.posted[i].len <= l.send_buffer.read_pos
    BY OrderedIs
  <2>2. l.posted \in Seq(Post) /\ Len(l.posted) \in Nat
    BY LinkFields
  <2>3. /\ Len(Tail(l.posted)) = Len(l.posted) - 1
        /\ \A i \in 1 .. Len(l.posted) - 1 : Tail(l.posted)[i] = l.posted[i + 1]
    BY <2>2
  <2> QED BY <2>1, <2>2, <2>3
<1> QED
  BY <1>7, <1>8, OrderedIs

LEMMA TransmitKeeps ==
  ASSUME Whole, Transmit
  PROVE  Whole'
<1> DEFINE l == link
           k == link'
           d == Outgoing(link, Head(link.posted))
<1>1. /\ LinkInv(l) /\ l.posted # <<>> /\ UNCHANGED <<accepted, lifevars>>
  BY DEF Whole, Transmit
<1>2. /\ Orderly(l.send_buffer) /\ l.send_ispending \in BOOLEAN /\ l.completions \in Nat
      /\ l.wire \in Seq(Bytes) /\ l.failed \in BOOLEAN /\ l.moved \in BOOLEAN
  BY <1>1, LinkFields
<1>3. /\ Tail(l.posted) \in Seq(Post) /\ Fits(Head(l.posted))
      /\ \A i \in 1 .. Len(Tail(l.posted)) : Fits(Tail(l.posted)[i])
  BY <1>1, TailFits
<1>4. d \in Seq(Bytes) /\ Content(l.send_buffer) \in Seq(Bytes)
  BY <1>2, <1>3, OutgoingType, ContentIs
<1>5. k = [send_buffer |-> l.send_buffer, send_ispending |-> l.send_ispending,
           posted |-> Tail(l.posted), completions |-> l.completions + 1,
           wire |-> l.wire \o d, failed |-> l.failed, moved |-> l.moved]
  <2>1. l = [send_buffer |-> l.send_buffer, send_ispending |-> l.send_ispending,
             posted |-> l.posted, completions |-> l.completions, wire |-> l.wire,
             failed |-> l.failed, moved |-> l.moved]
    BY <1>1, LinkIs
  <2>2. k = [l EXCEPT !.wire = @ \o d, !.posted = Tail(@), !.completions = @ + 1]
    BY DEF Transmit
  <2> HIDE DEF l, k, d
  <2> QED BY <2>1, <2>2
<1> HIDE DEF l, k, d
<1>6. l.wire \o d \in Seq(Bytes) /\ l.completions + 1 \in Nat
  BY <1>2, <1>4
<1>7. LinkInv(k)
  BY <1>2, <1>3, <1>5, <1>6, LinkMade, ZenonT(60)
<1>8. Rest'
  BY <1>1 DEF Whole, Rest, lifevars
<1>9. LifeInv'
  BY <1>1, WherePosted DEF LifeInv, lifevars, l
<1>10. Exact'
  <2> SUFFICES ASSUME life = "open", ~carried, ~k.failed, ~k.moved
               PROVE  Ordered(k, accepted) /\ WillBeSent(k)
    BY <1>1 DEF Exact, lifevars, k
  <2>1. Ordered(l, accepted)
    BY <1>5 DEF Whole, Exact, l
  <2>5. k.wire = l.wire \o d /\ k.send_buffer = l.send_buffer /\ k.posted = Tail(l.posted)
        /\ k.completions = l.completions + 1
    BY <1>5
  <2>6. d = Outgoing(l, Head(l.posted))
    BY DEF d, l
  <2>7. Ordered(k, accepted)
    BY <1>1, <1>7, <2>1, <2>5, <2>6, OldestSent
  <2>8. WillBeSent(k)
    BY <1>2, <2>5 DEF WillBeSent, Coming
  <2> QED
    BY <2>7, <2>8
<1> QED
  BY <1>7, <1>8, <1>9, <1>10 DEF Whole, k

LEMMA AbortSendKeeps ==
  ASSUME Whole, AbortSend
  PROVE  Whole'
<1> DEFINE l == link
           k == link'
<1>1. /\ LinkInv(l) /\ l.posted # <<>> /\ UNCHANGED <<accepted, lifevars>>
  BY DEF Whole, AbortSend
<1>2. /\ Orderly(l.send_buffer) /\ l.send_ispending \in BOOLEAN /\ l.completions \in Nat
      /\ l.wire \in Seq(Bytes) /\ l.failed \in BOOLEAN /\ l.moved \in BOOLEAN
  BY <1>1, LinkFields
<1>3. /\ Tail(l.posted) \in Seq(Post)
      /\ \A i \in 1 .. Len(Tail(l.posted)) : Fits(Tail(l.posted)[i])
  BY <1>1, TailFits
<1>4. k = [send_buffer |-> l.send_buffer, send_ispending |-> l.send_ispending,
           posted |-> Tail(l.posted), completions |-> l.completions,
           wire |-> l.wire, failed |-> TRUE, moved |-> l.moved]
  <2>1. l = [send_buffer |-> l.send_buffer, send_ispending |-> l.send_ispending,
             posted |-> l.posted, completions |-> l.completions, wire |-> l.wire,
             failed |-> l.failed, moved |-> l.moved]
    BY <1>1, LinkIs
  <2>2. k = [l EXCEPT !.posted = Tail(@), !.failed = TRUE]
    BY DEF AbortSend
  <2> HIDE DEF l, k
  <2> QED BY <2>1, <2>2
<1> HIDE DEF l, k
<1>5. LinkInv(k)
  BY <1>2, <1>3, <1>4, LinkMade
<1>6. Rest'
  BY <1>1 DEF Whole, Rest, lifevars
<1>7. LifeInv'
  BY <1>1, WherePosted DEF LifeInv, lifevars, l
<1>8. Exact'
  <2>1. k.failed = TRUE
    BY <1>4
  <2> QED BY <2>1 DEF Exact, k
<1> QED
  BY <1>5, <1>6, <1>7, <1>8 DEF Whole, k

LEMMA SendCompleteKeeps ==
  ASSUME Whole, SendComplete
  PROVE  Whole'
<1> DEFINE l == [link EXCEPT !.send_ispending = FALSE, !.completions = @ - 1]
           k == link'
<1>1. /\ LinkInv(link) /\ link.completions > 0 /\ UNCHANGED <<accepted, lifevars>>
  BY DEF Whole, SendComplete
<1>2. PICK r \in WrapBuffer(l) : k = r[2]
  BY DEF SendComplete
<1>3. /\ Orderly(link.send_buffer) /\ link.posted \in Seq(Post) /\ link.completions \in Nat
      /\ link.wire \in Seq(Bytes) /\ link.failed \in BOOLEAN /\ link.moved \in BOOLEAN
      /\ \A i \in 1 .. Len(link.posted) : Fits(link.posted[i])
  BY <1>1, LinkFields
<1>4. l = [send_buffer |-> link.send_buffer, send_ispending |-> FALSE,
           posted |-> link.posted, completions |-> link.completions - 1,
           wire |-> link.wire, failed |-> link.failed, moved |-> link.moved]
  <2>1. link = [send_buffer |-> link.send_buffer, send_ispending |-> link.send_ispending,
                posted |-> link.posted, completions |-> link.completions, wire |-> link.wire,
                failed |-> link.failed, moved |-> link.moved]
    BY <1>1, LinkIs
  <2>2. l = [link EXCEPT !.send_ispending = FALSE, !.completions = @ - 1]
    OBVIOUS
  <2> HIDE DEF l, k
  <2> QED BY <2>1, <2>2
<1> HIDE DEF l, k
<1>5. LinkInv(l)
  <2>1. link.completions - 1 \in Nat
    BY <1>1, <1>3
  <2> QED BY <1>3, <1>4, <2>1, LinkMade, ZenonT(60)
<1>6. /\ l.send_buffer = link.send_buffer /\ l.send_ispending = FALSE
      /\ l.posted = link.posted /\ l.wire = link.wire /\ l.failed = link.failed
      /\ l.moved = link.moved
  BY <1>4
<1>7. Flushed(l, r[1], k)
  BY <1>2, <1>5, WrapBufferIs
<1>8. /\ LinkInv(k) /\ Still(k, l) /\ k.moved = l.moved
      /\ \/ r[1] = TRUE /\ Content(k.send_buffer) = <<>>
         \/ r[1] = FALSE /\ k.failed
      /\ k.send_ispending => Coming(k)
      /\ \A t : Ordered(l, t) => Ordered(k, t)
  BY <1>6, <1>7 DEF Flushed
<1>9. Rest'
  BY <1>1 DEF Whole, Rest, lifevars
<1>10. LifeInv'
  <2>1. ~(life = "connected" /\ ~carried)
    BY <1>1, <1>3 DEF Whole, LifeInv
  <2>2. life \in {"free", "waiting"} => k.posted = link.posted /\ ~k.send_ispending
    BY <1>6, <1>8 DEF Still, Connected
  <2> QED BY <1>1, <2>1, <2>2 DEF Whole, LifeInv, lifevars, k
<1>11. Exact'
  <2> SUFFICES ASSUME life = "open", ~carried, ~k.failed, ~k.moved
               PROVE  Ordered(k, accepted) /\ WillBeSent(k)
    BY <1>1 DEF Exact, lifevars, k
  <2>1. ~link.failed /\ ~link.moved
    BY <1>6, <1>8 DEF Still
  <2>2. Ordered(link, accepted)
    BY <2>1 DEF Whole, Exact
  <2>3. Ordered(l, accepted)
    <3>1. [i \in 1 .. Len(l.posted) |-> Outgoing(l, l.posted[i])]
            = [i \in 1 .. Len(link.posted) |-> Outgoing(link, link.posted[i])]
      BY <1>6 DEF Outgoing
    <3>2. InSystem(l) = InSystem(link)
      BY <3>1 DEF InSystem
    <3> QED BY <2>2, <3>2, <1>6 DEF Ordered
  <2>4. Ordered(k, accepted)
    BY <1>8, <2>3
  <2>5. WillBeSent(k)
    BY <1>8 DEF WillBeSent
  <2> QED
    BY <2>4, <2>5
<1> QED
  BY <1>8, <1>9, <1>10, <1>11 DEF Whole, k

LEMMA WaitAcceptKeeps ==
  ASSUME Whole, WaitAccept
  PROVE  Whole'
<1>1. /\ LinkInv(link) /\ life = "free" /\ life' = "waiting"
      /\ link' = [link EXCEPT !.send_ispending = FALSE]
      /\ UNCHANGED <<accepted, lives, calling, sent, carried>>
  BY DEF Whole, WaitAccept, Unpended
<1>2. /\ Orderly(link.send_buffer) /\ link.posted \in Seq(Post) /\ link.completions \in Nat
      /\ link.wire \in Seq(Bytes) /\ link.failed \in BOOLEAN /\ link.moved \in BOOLEAN
      /\ \A i \in 1 .. Len(link.posted) : Fits(link.posted[i])
  BY <1>1, LinkFields
<1>3. link' = [send_buffer |-> link.send_buffer, send_ispending |-> FALSE,
               posted |-> link.posted, completions |-> link.completions,
               wire |-> link.wire, failed |-> link.failed, moved |-> link.moved]
  <2>1. link = [send_buffer |-> link.send_buffer, send_ispending |-> link.send_ispending,
                posted |-> link.posted, completions |-> link.completions, wire |-> link.wire,
                failed |-> link.failed, moved |-> link.moved]
    BY <1>1, LinkIs
  <2> QED BY <1>1, <2>1
<1>4. LinkInv(link')
  BY <1>2, <1>3, LinkMade, ZenonT(60)
<1>5. Rest'
  BY <1>1 DEF Whole, Rest
<1>6. LifeInv'
  BY <1>1, <1>3 DEF Whole, LifeInv
<1>7. Exact'
  BY <1>1 DEF Exact
<1> QED
  BY <1>4, <1>5, <1>6, <1>7 DEF Whole

LEMMA ConnectKeeps ==
  ASSUME Whole, Connect
  PROVE  Whole'
<1>1. /\ LinkInv(link) /\ life = "waiting" /\ life' = "connected" /\ lives < MaxLives
      /\ lives' = lives + 1 /\ accepted' = <<>>
      /\ link' = [link EXCEPT !.wire = <<>>, !.failed = FALSE, !.moved = FALSE]
      /\ carried' = (carried \/ calling # <<>> \/ link.completions > 0)
      /\ UNCHANGED <<calling, sent>>
  BY DEF Whole, Connect
<1>2. /\ Orderly(link.send_buffer) /\ link.posted \in Seq(Post) /\ link.completions \in Nat
      /\ link.send_ispending \in BOOLEAN
      /\ \A i \in 1 .. Len(link.posted) : Fits(link.posted[i])
  BY <1>1, LinkFields
<1>3. link' = [send_buffer |-> link.send_buffer, send_ispending |-> link.send_ispending,
               posted |-> link.posted, completions |-> link.completions,
               wire |-> <<>>, failed |-> FALSE, moved |-> FALSE]
  <2>1. link = [send_buffer |-> link.send_buffer, send_ispending |-> link.send_ispending,
                posted |-> link.posted, completions |-> link.completions, wire |-> link.wire,
                failed |-> link.failed, moved |-> link.moved]
    BY <1>1, LinkIs
  <2> QED BY <1>1, <2>1
<1>4. <<>> \in Seq(Bytes)
  OBVIOUS
<1>5. LinkInv(link')
  BY <1>2, <1>3, <1>4, LinkMade
<1>6. Rest'
  <2>1. lives + 1 \in 1 .. MaxLives
    BY <1>1, IocpSendAssumption DEF Whole, Rest
  <2>2. carried' \in BOOLEAN
    BY <1>1
  <2> QED BY <1>1, <1>4, <2>1, <2>2 DEF Whole, Rest
<1>7. LifeInv'
  <2>1. link.posted = <<>> /\ ~link.send_ispending
    BY <1>1 DEF Whole, LifeInv
  <2>2. ~carried' => calling = <<>> /\ ~(link.completions > 0) /\ ~carried
    BY <1>1, Zenon
  <2>4. ~(link.completions > 0) => link.completions = 0
    BY <1>2
  <2>3. /\ link'.posted = link.posted /\ link'.send_ispending = link.send_ispending
        /\ link'.completions = link.completions /\ link'.wire = <<>>
    BY <1>3
  <2> QED BY <1>1, <2>1, <2>2, <2>3, <2>4 DEF LifeInv
<1>8. Exact'
  BY <1>1 DEF Exact
<1> QED
  BY <1>5, <1>6, <1>7, <1>8 DEF Whole

LEMMA AcceptCompleteKeeps ==
  ASSUME Whole, AcceptComplete
  PROVE  Whole'
<1> DEFINE k == link'
<1>1. /\ LinkInv(link) /\ life = "connected" /\ life' = "open"
      /\ k = [link EXCEPT !.send_buffer = EmptyBuffer]
      /\ UNCHANGED <<accepted, lives, calling, sent, carried>>
  BY DEF Whole, AcceptComplete
<1>2. WithBuffer(k, link, EmptyBuffer, link.moved)
  <2>1. link = [send_buffer |-> link.send_buffer, send_ispending |-> link.send_ispending,
                posted |-> link.posted, completions |-> link.completions, wire |-> link.wire,
                failed |-> link.failed, moved |-> link.moved]
    BY <1>1, LinkIs
  <2> HIDE DEF k
  <2> QED BY <1>1, <2>1 DEF WithBuffer
<1> HIDE DEF k
<1>3. link.moved \in BOOLEAN
  BY <1>1, LinkFields
<1>4. LinkInv(k) /\ k.send_buffer = EmptyBuffer /\ Unchanged(k, link)
  BY <1>1, <1>2, <1>3, EmptyIs, BufferChanged
<1>5. Rest'
  BY <1>1 DEF Whole, Rest
<1>6. LifeInv'
  BY <1>1 DEF LifeInv
<1>7. Exact'
  <2> SUFFICES ASSUME ~carried PROVE Ordered(k, accepted) /\ WillBeSent(k)
    BY <1>1 DEF Exact, k
  <2>1. /\ k.posted = <<>> /\ ~k.send_ispending /\ k.wire = <<>> /\ accepted = <<>>
    BY <1>1, <1>4 DEF Whole, LifeInv, Unchanged
  <2>2. InSystem(k) = <<>>
    BY <2>1, InSystemEmpty
  <2>3. <<>> \o <<>> = <<>> /\ Len(<<>>) = 0
    OBVIOUS
  <2>4. (k.wire \o InSystem(k)) \o Content(k.send_buffer) = accepted
    BY <2>1, <2>2, <2>3, <1>4, EmptyIs, Zenon
  <2>5. Ordered(k, accepted)
    <3>1. \A i \in 1 .. Len(k.posted) : FALSE
      BY <2>1, <2>3
    <3> QED BY <2>4, <3>1, OrderedIs
  <2>6. WillBeSent(k)
    BY <1>4, <2>1, EmptyIs DEF WillBeSent
  <2> QED
    BY <2>5, <2>6
<1> QED
  BY <1>4, <1>5, <1>6, <1>7 DEF Whole, k

(***************************************************************************)
(* The theorems.                                                           *)
(***************************************************************************)

\* The inductive invariant of sending through the completion port: every link stays
\* well formed, a session that nothing was carried over to meets its client with
\* nothing posted, and while no send failed and no buffer was moved, the stream is
\* whole and what waits has a completion coming (server_send, iocp_send_complete).
THEOREM IocpSendInvariance == IocpSendSpec => []IocpSendInv
<1>1. IocpSendInit => Whole
  BY StartsWhole
<1>2. Whole /\ [IocpSendNext]_iosvars => Whole'
  <2> SUFFICES ASSUME Whole, [IocpSendNext]_iosvars PROVE Whole'
    OBVIOUS
  <2>1. ASSUME NEW n \in 1 .. Len(Todo), BeginSend(n) PROVE Whole'
    BY <2>1, BeginSendKeeps
  <2>2. CASE ServerSend
    BY <2>2, ServerSendKeeps
  <2>3. CASE Transmit
    BY <2>3, TransmitKeeps
  <2>4. CASE AbortSend
    BY <2>4, AbortSendKeeps
  <2>5. CASE SendComplete
    BY <2>5, SendCompleteKeeps
  <2>6. CASE ResetSession \/ Disconnected
    BY <2>6, ClosingKeeps
  <2>7. CASE WaitAccept
    BY <2>7, WaitAcceptKeeps
  <2>8. CASE Connect
    BY <2>8, ConnectKeeps
  <2>9. CASE AcceptComplete
    BY <2>9, AcceptCompleteKeeps
  <2>10. CASE UNCHANGED iosvars
    BY <2>10 DEF iosvars, lifevars, Whole, Rest, LifeInv, Exact
  <2> QED
    BY <2>1, <2>2, <2>3, <2>4, <2>5, <2>6, <2>7, <2>8, <2>9, <2>10 DEF IocpSendNext
<1>3. Whole => IocpSendInv
  BY InvIsWhole
<1> QED
  BY <1>1, <1>2, <1>3, PTL DEF IocpSendSpec

\* What went out on a connection, what the system holds and what waits in the buffer
\* are what server_send accepted for it, in order and once each, and what waits has a
\* completion coming, unless a send failed, the buffer was written from its front
\* under a posted send, or something of an earlier connection was carried over.
THEOREM SendsExactly == IocpSendSpec => []SendExact
<1>1. IocpSendInv => SendExact
  BY DEF IocpSendInv, SendExact, Ordered, WillBeSent, Coming
<1> QED
  BY <1>1, IocpSendInvariance, PTL
=============================================================================
