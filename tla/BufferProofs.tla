---------------------------- MODULE BufferProofs ----------------------------
(***************************************************************************)
(* Lemmas on the byte buffer of common/buffer.c, as long as its read       *)
(* position is not behind its write position, and on the sequences that    *)
(* its bytes are.                                                          *)
(***************************************************************************)
EXTENDS Buffer, SequenceTheorems, TLAPS

(***************************************************************************)
(* Sequences.                                                              *)
(***************************************************************************)

Associative(Q) == \A a, b, c \in Q : (a \o b) \o c = a \o (b \o c)
LEMMA Associates ==
  ASSUME NEW S
  PROVE  Associative(Seq(S))
BY ConcatAssociative DEF Associative

\* Sequences as functions.
LEMMA SeqIsFunction ==
  ASSUME NEW S, NEW s \in Seq(S), NEW n, n = Len(s)
  PROVE  s \in [1 .. n -> S]
OBVIOUS

LEMMA Appended ==
  ASSUME NEW S, NEW s \in Seq(S), NEW e \in S, NEW n \in Nat, Len(s) = n
  PROVE  /\ Append(s, e) \in [1 .. n + 1 -> S]
         /\ Append(s, e)[n + 1] = e /\ \A i \in 1 .. n : Append(s, e)[i] = s[i]
<1> DEFINE t == Append(s, e)
<1>1. t \in Seq(S) /\ n + 1 = Len(t)
  OBVIOUS
<1>2. t[n + 1] = e /\ \A i \in 1 .. n : t[i] = s[i]
  OBVIOUS
<1> HIDE DEF t
<1>3. t \in [1 .. n + 1 -> S]
  BY <1>1, SeqIsFunction
<1> QED
  BY <1>2, <1>3 DEF t

LEMMA OneMore ==
  ASSUME NEW S, NEW s \in Seq(S), NEW e \in S
  PROVE  /\ Len(Append(s, e)) = Len(s) + 1 /\ Append(s, e)[Len(s) + 1] = e
         /\ Append(s, e) # <<>> /\ \A i \in 1 .. Len(s) : Append(s, e)[i] = s[i]
OBVIOUS

LEMMA TailIs ==
  ASSUME NEW S, NEW s \in Seq(S), s # <<>>, NEW n \in Nat, Len(s) = n
  PROVE  /\ Tail(s) \in [1 .. n - 1 -> S]
         /\ \A i \in 1 .. n - 1 : Tail(s)[i] = s[i + 1]
<1> DEFINE t == Tail(s)
<1>1. t \in Seq(S) /\ n - 1 = Len(t)
  OBVIOUS
<1>2. \A i \in 1 .. n - 1 : t[i] = s[i + 1]
  OBVIOUS
<1> HIDE DEF t
<1>3. t \in [1 .. n - 1 -> S]
  BY <1>1, SeqIsFunction
<1> QED
  BY <1>2, <1>3 DEF t
(***************************************************************************)
(* The buffer.                                                             *)
(***************************************************************************)

Orderly(b) == b \in BufferType /\ b.read_pos <= b.write_pos

LEMMA BufferFields ==
  ASSUME NEW b, Orderly(b)
  PROVE  /\ b.data \in [Cells -> Bytes] /\ data_len \in Nat
         /\ b.read_pos \in 0 .. data_len /\ b.write_pos \in 0 .. data_len
         /\ b.read_pos <= b.write_pos
         /\ b = [data |-> b.data, read_pos |-> b.read_pos, write_pos |-> b.write_pos]
BY BufferAssumption DEF Orderly, BufferType

LEMMA ContentIs ==
  ASSUME NEW b, Orderly(b)
  PROVE  /\ Content(b) \in Seq(Bytes) /\ Len(Content(b)) = b.write_pos - b.read_pos
         /\ \A i \in 1 .. b.write_pos - b.read_pos : Content(b)[i] = b.data[b.read_pos + i - 1]
<1>1. b.read_pos \in Nat /\ b.write_pos \in Nat /\ b.read_pos <= b.write_pos
  BY BufferFields
<1> DEFINE n == b.write_pos - b.read_pos
<1>2. n \in Nat
  BY <1>1
<1>3. \A i \in 1 .. n : b.data[b.read_pos + i - 1] \in Bytes
  <2> TAKE i \in 1 .. n
  <2>1. b.read_pos + i - 1 \in Cells
    BY BufferFields DEF Cells
  <2> QED
    BY <2>1, BufferFields
<1>4. Content(b) = [i \in 1 .. n |-> b.data[b.read_pos + i - 1]]
  BY DEF Content, ReadValid
<1> HIDE DEF n
<1>5. Content(b) \in [1 .. n -> Bytes]
  BY <1>3, <1>4
<1>6. Content(b) \in Seq(Bytes) /\ Len(Content(b)) = n
  BY <1>2, <1>5
<1> QED
  BY <1>4, <1>6 DEF n

LEMMA ReadUp ==
  ASSUME NEW b, Orderly(b)
  PROVE  LET c == AddReadPos(b, ReadValid(b))
         IN  /\ Orderly(c) /\ Content(c) = <<>>
             /\ c.data = b.data /\ c.read_pos = b.write_pos /\ c.write_pos = b.write_pos
<1> DEFINE c == AddReadPos(b, ReadValid(b))
<1>1. c = [data |-> b.data, read_pos |-> b.write_pos, write_pos |-> b.write_pos]
  BY BufferFields DEF AddReadPos, ReadValid
<1>2. Orderly(c)
  BY <1>1, BufferFields DEF Orderly, BufferType
<1>3. c.data = b.data /\ c.read_pos = b.write_pos /\ c.write_pos = b.write_pos
  BY <1>1
<1> HIDE DEF c
<1>4. Content(c) \in Seq(Bytes) /\ Len(Content(c)) = 0
  BY <1>2, <1>3, ContentIs, BufferFields
<1>5. Content(c) = <<>>
  BY <1>4
<1>6. Orderly(c) /\ Content(c) = <<>>
  BY <1>2, <1>5
<1> QED
  BY <1>6, <1>3 DEF c

LEMMA EmptyIs == Orderly(EmptyBuffer) /\ Content(EmptyBuffer) = <<>>
<1>1. EmptyBuffer = [data |-> [i \in Cells |-> Zero], read_pos |-> 0, write_pos |-> 0]
  BY DEF EmptyBuffer
<1>2. Orderly(EmptyBuffer)
  BY <1>1, BufferAssumption DEF Orderly, BufferType
<1>3. Content(EmptyBuffer) \in Seq(Bytes) /\ Len(Content(EmptyBuffer)) = 0
  BY <1>1, <1>2, ContentIs
<1> QED
  BY <1>2, <1>3

LEMMA AdjustKeeps ==
  ASSUME NEW b, Orderly(b)
  PROVE  LET c == AdjustToHead(b)
         IN  Orderly(c) /\ Content(c) = Content(b) /\ WriteValid(c) = data_len - ReadValid(b)
<1> DEFINE c == AdjustToHead(b)
           n == b.write_pos - b.read_pos
<1>0. n \in Nat /\ n <= data_len
  BY BufferFields
<1>1. CASE b.read_pos = 0
  <2>1. c = b
    BY <1>1 DEF AdjustToHead
  <2>2. WriteValid(b) = data_len - ReadValid(b)
    BY <1>1, BufferFields DEF WriteValid, ReadValid
  <2> QED
    BY <2>1, <2>2
<1>2. CASE b.read_pos # 0
  <2> DEFINE d == [i \in Cells |-> IF i < n THEN b.data[b.read_pos + i] ELSE b.data[i]]
  <2>1. c = [data |-> d, read_pos |-> 0, write_pos |-> n]
    BY <1>2, BufferFields DEF AdjustToHead, ReadValid
  <2>2. d \in [Cells -> Bytes]
    <3>1. \A i \in Cells : b.data[i] \in Bytes
      BY BufferFields
    <3>2. \A i \in Cells : i < n => b.read_pos + i \in Cells
      BY BufferFields DEF Cells
    <3> QED
      BY <3>1, <3>2
  <2> HIDE DEF d, c, n
  <2>3. Orderly(c)
    BY <1>0, <2>1, <2>2, BufferFields DEF Orderly, BufferType
  <2>4. c.data = d /\ c.read_pos = 0 /\ c.write_pos = n
    BY <2>1
  <2>5. \A i \in 1 .. n : Content(c)[i] = Content(b)[i]
    <3> TAKE i \in 1 .. n
    <3>1. Content(c)[i] = d[i - 1]
      <4>1. 0 + i - 1 = i - 1 /\ n - 0 = n
        BY <1>0
      <4> QED BY <2>3, <2>4, <4>1, ContentIs
    <3>2. i - 1 \in Cells /\ i - 1 < n
      BY <1>0, BufferFields DEF Cells
    <3>3. d[i - 1] = b.data[b.read_pos + (i - 1)]
      BY <3>2 DEF d
    <3>4. Content(b)[i] = b.data[b.read_pos + i - 1]
      BY ContentIs DEF n
    <3>5. b.read_pos + (i - 1) = b.read_pos + i - 1
      BY BufferFields
    <3> QED
      BY <3>1, <3>3, <3>4, <3>5
  <2>6. /\ Content(c) \in Seq(Bytes) /\ Len(Content(c)) = n
        /\ Content(b) \in Seq(Bytes) /\ Len(Content(b)) = n
    BY <2>3, <2>4, <1>0, ContentIs DEF n
  <2>7. Content(c) = Content(b)
    BY <2>5, <2>6
  <2>8. WriteValid(c) = data_len - ReadValid(b)
    BY <2>4 DEF WriteValid, ReadValid, n
  <2>9. Orderly(c) /\ Content(c) = Content(b) /\ WriteValid(c) = data_len - ReadValid(b)
    BY <2>3, <2>7, <2>8
  <2> QED
    BY <2>9 DEF c
<1> QED
  BY <1>1, <1>2, BufferFields

\* Bytes put behind the write position are content behind the content.
LEMMA FillKeeps ==
  ASSUME NEW b, Orderly(b), NEW s \in Seq(Bytes), WriteValid(b) >= Len(s)
  PROVE  LET c == AddWritePos(Fill(b, s), Len(s))
         IN  /\ Orderly(c) /\ Content(c) = Content(b) \o s
             /\ c.read_pos = b.read_pos
             /\ \A j \in Cells : j < b.write_pos => c.data[j] = b.data[j]
<1> DEFINE c == AddWritePos(Fill(b, s), Len(s))
           w == b.write_pos
           n == w - b.read_pos
           d == [j \in Cells |-> IF j >= w /\ j < w + Len(s) THEN s[j - w + 1] ELSE b.data[j]]
<1>1. /\ w \in 0 .. data_len /\ b.read_pos \in 0 .. data_len /\ n \in Nat /\ data_len \in Nat
      /\ Len(s) \in Nat /\ w + Len(s) <= data_len /\ b.data \in [Cells -> Bytes]
  BY BufferFields DEF WriteValid
<1>2. Fill(b, s) = [data |-> d, read_pos |-> b.read_pos, write_pos |-> w]
  BY BufferFields DEF Fill
<1> HIDE DEF d
<1>3. c = [data |-> d, read_pos |-> b.read_pos, write_pos |-> w + Len(s)]
  BY <1>1, <1>2 DEF AddWritePos
<1>4. d \in [Cells -> Bytes]
  <2>1. \A j \in Cells : b.data[j] \in Bytes
    BY <1>1
  <2>2. \A j \in Cells : j >= w /\ j < w + Len(s) => s[j - w + 1] \in Bytes
    <3> TAKE j \in Cells
    <3> HAVE j >= w /\ j < w + Len(s)
    <3>1. j - w + 1 \in 1 .. Len(s)
      BY <1>1, SMTT(60) DEF Cells
    <3> QED
      BY <3>1
  <2> QED
    BY <2>1, <2>2 DEF d
<1>5. c.data = d /\ c.read_pos = b.read_pos /\ c.write_pos = w + Len(s)
  BY <1>3
<1>6. Orderly(c)
  <2>1. b.read_pos <= w + Len(s) /\ w + Len(s) \in 0 .. data_len
    BY <1>1, BufferFields
  <2> QED BY <1>1, <1>3, <1>4, <2>1 DEF Orderly, BufferType
<1>7. \A j \in Cells : j < w => c.data[j] = b.data[j]
  BY <1>1, <1>5 DEF d, Cells
<1> HIDE DEF c
<1>8. /\ Content(b) \in Seq(Bytes) /\ Len(Content(b)) = n
      /\ \A i \in 1 .. n : Content(b)[i] = b.data[b.read_pos + i - 1]
  BY ContentIs
<1>9. /\ Content(c) \in Seq(Bytes) /\ Len(Content(c)) = n + Len(s)
      /\ \A i \in 1 .. n + Len(s) : Content(c)[i] = d[b.read_pos + i - 1]
  <2>1. c.write_pos - c.read_pos = n + Len(s)
    BY <1>1, <1>5
  <2> QED
    BY <1>5, <1>6, <2>1, ContentIs
<1>10. \A i \in 1 .. n + Len(s) :
         Content(c)[i] = IF i <= n THEN Content(b)[i] ELSE s[i - n]
  <2> TAKE i \in 1 .. n + Len(s)
  <2> DEFINE j == b.read_pos + i - 1
  <2>1. j \in Cells /\ (i <= n <=> j < w) /\ j < w + Len(s) /\ j - w + 1 = i - n
    <3> DEFINE r == b.read_pos
    <3>1. /\ r \in Nat /\ w \in Nat /\ w - r \in Nat /\ data_len \in Nat /\ Len(s) \in Nat
          /\ w + Len(s) <= data_len /\ i \in 1 .. (w - r) + Len(s)
      BY <1>1
    <3> HIDE DEF r, w
    <3>2. r + i - 1 \in 0 .. data_len - 1 /\ (i <= w - r <=> r + i - 1 < w)
      BY <3>1
    <3>3. r + i - 1 < w + Len(s) /\ (r + i - 1) - w + 1 = i - (w - r)
      BY <3>1
    <3> QED
      BY <3>2, <3>3 DEF r, w, Cells
  <2>2. Content(c)[i] = d[j]
    BY <1>9
  <2>3. i <= n => Content(b)[i] = b.data[j]
    BY <1>1, <1>8, SMTT(60)
  <2> HIDE DEF j
  <2>4. d[j] = IF j >= w /\ j < w + Len(s) THEN s[j - w + 1] ELSE b.data[j]
    BY <2>1 DEF d
  <2>5. CASE i <= n
    BY <1>1, <2>1, <2>2, <2>3, <2>4, <2>5 DEF Cells
  <2>6. CASE ~(i <= n)
    BY <1>1, <2>1, <2>2, <2>4, <2>6 DEF Cells
  <2> QED
    BY <2>5, <2>6
<1> HIDE DEF n
<1>11. /\ Content(b) \o s \in Seq(Bytes) /\ Len(Content(b) \o s) = n + Len(s)
       /\ \A i \in 1 .. n + Len(s) :
            (Content(b) \o s)[i] = IF i <= n THEN Content(b)[i] ELSE s[i - n]
  BY <1>8, ConcatProperties
<1>12. Content(c) = Content(b) \o s
  <2>1. \A i \in 1 .. n + Len(s) : Content(c)[i] = (Content(b) \o s)[i]
    BY <1>10, <1>11
  <2>2. Len(Content(c)) = Len(Content(b) \o s)
    BY <1>9, <1>11
  <2> DEFINE x == Content(c)
             y == Content(b) \o s
  <2>3. x \in Seq(Bytes) /\ y \in Seq(Bytes) /\ Len(x) = Len(y)
        /\ \A i \in 1 .. Len(x) : x[i] = y[i]
    BY <1>9, <1>11, <2>1, <2>2
  <2> HIDE DEF x, y
  <2>4. x = y
    BY <2>3
  <2> QED
    BY <2>4 DEF x, y
<1>13. /\ Orderly(c) /\ Content(c) = Content(b) \o s /\ c.read_pos = b.read_pos
       /\ \A j \in Cells : j < b.write_pos => c.data[j] = b.data[j]
  BY <1>5, <1>6, <1>7, <1>12
<1> QED
  BY <1>13 DEF c
=============================================================================
