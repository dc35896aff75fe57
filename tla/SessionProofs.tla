---------------------------- MODULE SessionProofs ----------------------------
(***************************************************************************)
(* Theorems on EpollSession, for every set of connections and streams, any *)
(* number of sessions and reactors and every size of the buffer.           *)
(***************************************************************************)
EXTENDS EpollSession, FiniteSetTheorems, FunctionTheorems, SequenceTheorems,
        WellFoundedInduction, TLAPS

-----------------------------------------------------------------------------
(***************************************************************************)
(* The receive buffer.                                                     *)
(***************************************************************************)

\* Moving the unread bytes to the front when there is no room behind them keeps
\* what the buffer carries.
LEMMA RoomKeeps ==
  ASSUME NEW b \in BufferType
  PROVE  /\ Room(b) \in BufferType
         /\ WriteValid(Room(b)) \in 0 .. data_len
         /\ ReadValid(Room(b)) = ReadValid(b)
         /\ \A stream : \A n \in Nat : Carries(b, stream, n) => Carries(Room(b), stream, n)
<1> USE BufferAssumption
<1>1. /\ b.data \in [Cells -> Bytes] /\ b.read_pos \in 0 .. data_len
      /\ b.write_pos \in 0 .. data_len /\ data_len \in Nat
  BY DEF BufferType
<1>2. CASE Room(b) = b
  BY <1>1, <1>2 DEF WriteValid
<1>3. CASE Room(b) # b
  <2>1. b.write_pos = data_len /\ b.read_pos > 0 /\ Room(b) = AdjustToHead(b)
    BY <1>1, <1>3 DEF Room, WriteValid, AdjustToHead
  <2>2. ReadValid(b) \in 0 .. data_len /\ ReadValid(b) = data_len - b.read_pos
    BY <1>1, <2>1 DEF ReadValid
  <2> DEFINE moved == [i \in Cells |-> IF i < ReadValid(b) THEN b.data[b.read_pos + i]
                                       ELSE b.data[i]]
  <2>3. AdjustToHead(b) = [data |-> moved, read_pos |-> 0, write_pos |-> ReadValid(b)]
    BY <2>1 DEF AdjustToHead
  <2>4. moved \in [Cells -> Bytes]
    BY <1>1, <2>2 DEF Cells
  <2>5. AdjustToHead(b) \in BufferType /\ ReadValid(AdjustToHead(b)) = ReadValid(b)
        /\ WriteValid(AdjustToHead(b)) \in 0 .. data_len
    <3> HIDE DEF moved
    <3> DEFINE v == ReadValid(b)
    <3>1. v \in 0 .. data_len /\ AdjustToHead(b) = [data |-> moved, read_pos |-> 0, write_pos |-> v]
      BY <2>2, <2>3
    <3> HIDE DEF v
    <3>2. AdjustToHead(b) \in BufferType
      BY <3>1, <2>4 DEF BufferType
    <3>3. ReadValid(AdjustToHead(b)) = v /\ WriteValid(AdjustToHead(b)) = data_len - v
      BY <3>1 DEF ReadValid, WriteValid
    <3> QED
      BY <3>1, <3>2, <3>3 DEF v
  <2>6. ASSUME NEW stream, NEW n \in Nat, Carries(b, stream, n)
        PROVE  Carries(AdjustToHead(b), stream, n)
    <3>1. \A i \in 1 .. ReadValid(b) : moved[i - 1] = b.data[b.read_pos + i - 1]
      BY <1>1, <2>2 DEF Cells
    <3> HIDE DEF moved
    <3>2. /\ AdjustToHead(b).read_pos = 0 /\ AdjustToHead(b).write_pos = ReadValid(b)
          /\ AdjustToHead(b).data = moved
      BY <2>3
    <3> QED
      BY <3>1, <3>2, <2>6, <2>2, <2>5 DEF Carries
  <2> QED
    BY <2>1, <2>5, <2>6
<1> QED
  BY <1>2, <1>3

\* The bytes of a recv into a buffer with room for them, at the position it had
\* when recv was called.
Received(b, pos, bytes, m) ==
  AddWritePos([Fill([b EXCEPT !.write_pos = pos], bytes) EXCEPT !.write_pos = b.write_pos], m)

Overlaid(data, pos, bytes, m) ==
  [i \in Cells |-> IF i >= pos /\ i < pos + m THEN bytes[i - pos + 1] ELSE data[i]]

LEMMA ReceivedFields ==
  ASSUME NEW b \in BufferType, NEW pos \in 0 .. data_len, NEW m \in 0 .. data_len,
         NEW bytes \in Seq(Bytes), Len(bytes) = m
  PROVE  /\ Received(b, pos, bytes, m) =
              [data |-> Overlaid(b.data, pos, bytes, m), read_pos |-> b.read_pos,
               write_pos |-> IF b.write_pos + m <= data_len THEN b.write_pos + m
                             ELSE b.write_pos]
         /\ Received(b, pos, bytes, m) \in BufferType
<1> USE BufferAssumption
<1> DEFINE filled == Overlaid(b.data, pos, bytes, m)
<1>1. /\ b.data \in [Cells -> Bytes] /\ b.read_pos \in 0 .. data_len
      /\ b.write_pos \in 0 .. data_len /\ data_len \in Nat
      /\ b = [data |-> b.data, read_pos |-> b.read_pos, write_pos |-> b.write_pos]
  BY DEF BufferType
<1>2. filled \in [Cells -> Bytes]
  BY <1>1 DEF Cells, Overlaid
<1>3. [b EXCEPT !.write_pos = pos]
        = [data |-> b.data, read_pos |-> b.read_pos, write_pos |-> pos]
  BY <1>1
<1>4. Fill([b EXCEPT !.write_pos = pos], bytes)
        = [data |-> filled, read_pos |-> b.read_pos, write_pos |-> pos]
  <2> DEFINE a == [data |-> b.data, read_pos |-> b.read_pos, write_pos |-> pos]
  <2>1. a.data = b.data /\ a.write_pos = pos /\ a.read_pos = b.read_pos
    OBVIOUS
  <2>2. Fill(a, bytes) = [a EXCEPT !.data = [i \in Cells |->
           IF i >= a.write_pos /\ i < a.write_pos + Len(bytes)
           THEN bytes[i - a.write_pos + 1] ELSE a.data[i]]]
    BY DEF Fill
  <2>3. [i \in Cells |-> IF i >= a.write_pos /\ i < a.write_pos + Len(bytes)
                         THEN bytes[i - a.write_pos + 1] ELSE a.data[i]] = filled
    BY <2>1 DEF Overlaid
  <2>4. Fill(a, bytes) = [a EXCEPT !.data = filled]
    BY <2>2, <2>3
  <2>5. [a EXCEPT !.data = filled]
          = [data |-> filled, read_pos |-> b.read_pos, write_pos |-> pos]
    <3> HIDE DEF filled
    <3> QED OBVIOUS
  <2> QED
    BY <1>3, <2>4, <2>5
<1> DEFINE g == [data |-> filled, read_pos |-> b.read_pos, write_pos |-> b.write_pos]
<1>5. [Fill([b EXCEPT !.write_pos = pos], bytes) EXCEPT !.write_pos = b.write_pos] = g
  BY <1>4
<1>6. AddWritePos(g, m) = [data |-> filled, read_pos |-> b.read_pos,
         write_pos |-> IF b.write_pos + m <= data_len THEN b.write_pos + m ELSE b.write_pos]
  <2> HIDE DEF filled
  <2> QED BY <1>1 DEF AddWritePos
<1>7. Received(b, pos, bytes, m) = AddWritePos(g, m)
  BY <1>5 DEF Received
<1>8. AddWritePos(g, m) \in BufferType
  <2> HIDE DEF filled, g
  <2> QED BY <1>1, <1>2, <1>6 DEF BufferType
<1> QED
  <2> HIDE DEF g
  <2> QED BY <1>2, <1>6, <1>7, <1>8

\* What is received is carried on: m more bytes of the stream.
LEMMA FillIndex ==
  ASSUME NEW r \in Nat, NEW v \in Nat, NEW w, w = r + v, NEW m \in Nat, NEW n \in Nat,
         NEW i \in 1 .. v + m, i > v
  PROVE  /\ r + i - 1 >= w /\ r + i - 1 < w + m /\ (r + i - 1) - w + 1 = i - v
         /\ i - v \in 1 .. m /\ n + (i - v) = n - v + i
  OBVIOUS

\* v bytes from r on are those of the stream that end at n.
Spells(data, r, v, stream, n) ==
  \A i \in 1 .. v : data[r + i - 1] = stream[n - v + i]

LEMMA FilledSpells ==
  ASSUME NEW data, NEW r \in Nat, NEW w \in Nat, NEW m \in Nat, r <= w, w + m <= data_len,
         NEW stream \in Seq(Bytes), NEW n \in Nat, n + m <= Len(stream),
         NEW v \in Nat, w = r + v,
         Spells(data, r, v, stream, n),
         NEW bytes, \A i \in 1 .. m : bytes[i] = stream[n + i]
  PROVE  Spells(Overlaid(data, w, bytes, m), r, v + m, stream, n + m)
<1> USE BufferAssumption
<1> SUFFICES ASSUME NEW i \in 1 .. v + m
             PROVE  Overlaid(data, w, bytes, m)[r + i - 1] = stream[n - v + i]
  <2>1. n + m - (v + m) = n - v
    OBVIOUS
  <2> QED BY <2>1, SMTT(60) DEF Spells
<1>1. r + i - 1 \in Cells /\ i \in Nat
  BY DEF Cells
<1> DEFINE k == r + i - 1
<1>2. SUFFICES (IF k >= w /\ k < w + m THEN bytes[k - w + 1] ELSE data[k]) = stream[n - v + i]
  BY <1>1 DEF Overlaid
<1>3. CASE i <= v
  <2>1. ~(k >= w)
    BY <1>1, <1>3
  <2>2. i \in 1 .. v
    BY <1>3
  <2> QED BY <2>1, <2>2 DEF Spells
<1>4. CASE i > v
  <2>1. k >= w /\ k < w + m /\ k - w + 1 = i - v /\ i - v \in 1 .. m
        /\ n + (i - v) = n - v + i
    BY <1>1, <1>4, FillIndex
  <2>2. bytes[i - v] = stream[n + (i - v)]
    BY <2>1
  <2> HIDE DEF k
  <2> QED BY <2>1, <2>2
<1> QED
  BY <1>1, <1>3, <1>4

LEMMA ReceivedCarries ==
  ASSUME NEW b \in BufferType, NEW stream \in Seq(Bytes), NEW n \in Nat,
         NEW m \in 0 .. WriteValid(b), n + m <= Len(stream), Carries(b, stream, n)
  PROVE  LET c == Received(b, b.write_pos, SubSeq(stream, n + 1, n + m), m)
         IN  Carries(c, stream, n + m) /\ ReadValid(c) = ReadValid(b) + m
<1> USE BufferAssumption
<1> DEFINE bytes == SubSeq(stream, n + 1, n + m)
           r == b.read_pos
           w == b.write_pos
           v == ReadValid(b)
           c == Received(b, w, bytes, m)
           filled == Overlaid(b.data, w, bytes, m)
<1>1. /\ r \in 0 .. data_len /\ w \in 0 .. data_len /\ data_len \in Nat
      /\ m \in 0 .. data_len /\ w + m <= data_len
  BY DEF BufferType, WriteValid
<1>2. /\ bytes \in Seq(Bytes) /\ Len(bytes) = m
      /\ \A i \in 1 .. m : bytes[i] = stream[n + i]
  BY <1>1, SubSeqProperties
<1>3. c = [data |-> filled, read_pos |-> r,
           write_pos |-> IF w + m <= data_len THEN w + m ELSE w]
  <2> HIDE DEF bytes
  <2> QED BY <1>1, <1>2, ReceivedFields
<1>4. c.data = filled /\ c.read_pos = r /\ c.write_pos = w + m
  <2> HIDE DEF c, filled, w, r
  <2> QED BY <1>1, <1>3
<1>5. r <= w /\ v <= n /\ v \in Nat /\ w = r + v
  BY <1>1 DEF Carries, ReadValid
<1>6. Spells(b.data, r, v, stream, n)
  BY DEF Carries, Spells
<1>7. ReadValid(c) = v + m
  <2> HIDE DEF c, w, r, v
  <2> QED BY <1>1, <1>4, <1>5 DEF ReadValid
<1>8. Spells(filled, r, v + m, stream, n + m)
  <2> HIDE DEF w, r, v, bytes
  <2>1. r \in Nat /\ w \in Nat /\ m \in Nat
    BY <1>1
  <2> QED BY <1>1, <1>2, <1>5, <1>6, <2>1, FilledSpells
<1>9. Carries(c, stream, n + m)
  <2> HIDE DEF c, filled, w, r, v
  <2>2. c.read_pos <= c.write_pos /\ v + m <= n + m
    BY <1>1, <1>4, <1>5
  <2> QED BY <1>4, <1>7, <1>8, <2>2 DEF Carries, Spells
<1> QED
  BY <1>7, <1>9

\* The logic used the first k unread bytes.
LEMMA ReadCarries ==
  ASSUME NEW b \in BufferType, NEW stream, NEW n \in Nat,
         NEW k \in 0 .. ReadValid(b), Carries(b, stream, n)
  PROVE  /\ Carries(AddReadPos(b, k), stream, n)
         /\ ReadValid(AddReadPos(b, k)) = ReadValid(b) - k
<1> USE BufferAssumption
<1> DEFINE c == AddReadPos(b, k)
<1>1. /\ b.read_pos \in 0 .. data_len /\ b.write_pos \in 0 .. data_len /\ data_len \in Nat
      /\ b.read_pos <= b.write_pos /\ ReadValid(b) <= n /\ ReadValid(b) \in Nat
      /\ b.write_pos = b.read_pos + ReadValid(b)
      /\ \A i \in 1 .. ReadValid(b) :
           b.data[b.read_pos + i - 1] = stream[n - ReadValid(b) + i]
  BY DEF BufferType, Carries, ReadValid
<1>2. c.data = b.data /\ c.read_pos = b.read_pos + k /\ c.write_pos = b.write_pos
  BY <1>1 DEF AddReadPos, BufferType
<1> HIDE DEF c
<1>3. ReadValid(c) = ReadValid(b) - k
  BY <1>1, <1>2 DEF ReadValid
<1>4. ASSUME NEW i \in 1 .. ReadValid(c)
      PROVE  c.data[c.read_pos + i - 1] = stream[n - ReadValid(c) + i]
  <2>1. i + k \in 1 .. ReadValid(b)
    BY <1>1, <1>3
  <2>2. b.data[b.read_pos + (i + k) - 1] = stream[n - ReadValid(b) + (i + k)]
    BY <2>1, <1>1
  <2>3. b.read_pos + (i + k) - 1 = c.read_pos + i - 1
    BY <1>1, <1>2
  <2>4. n - ReadValid(b) + (i + k) = n - ReadValid(c) + i
    BY <1>1, <1>3
  <2> QED BY <2>2, <2>3, <2>4, <1>2
<1>5. Carries(c, stream, n)
  BY <1>1, <1>2, <1>3, <1>4 DEF Carries
<1> QED
  BY <1>3, <1>5 DEF c

LEMMA ReadType ==
  ASSUME NEW b \in BufferType, NEW k \in 0 .. data_len
  PROVE  AddReadPos(b, k) \in BufferType
  BY BufferAssumption DEF AddReadPos, BufferType

LEMMA EmptyFields ==
  /\ EmptyBuffer \in BufferType /\ ReadValid(EmptyBuffer) = 0
  /\ \A stream : \A n \in Nat : Carries(EmptyBuffer, stream, n)
  BY BufferAssumption DEF EmptyBuffer, BufferType, Cells, ReadValid, Carries

\* The unread bytes as a sequence.
LEMMA ContentFields ==
  ASSUME NEW b \in BufferType
  PROVE  /\ Content(b) \in Seq(Bytes) /\ Len(Content(b)) <= data_len
         /\ b.read_pos <= b.write_pos => Len(Content(b)) = ReadValid(b)
         /\ \A i \in 1 .. Len(Content(b)) : Content(b)[i] = b.data[b.read_pos + i - 1]
<1> USE BufferAssumption
<1>1. /\ b.data \in [Cells -> Bytes] /\ b.read_pos \in 0 .. data_len
      /\ b.write_pos \in 0 .. data_len /\ data_len \in Nat
  BY DEF BufferType
<1>2. CASE b.read_pos <= b.write_pos
  <2>1. ReadValid(b) \in Nat /\ ReadValid(b) <= data_len
    BY <1>1, <1>2 DEF ReadValid
  <2>2. \A i \in 1 .. ReadValid(b) : b.data[b.read_pos + i - 1] \in Bytes
    BY <1>1, <1>2 DEF ReadValid, Cells
  <2> QED
    BY <2>1, <2>2 DEF Content
<1>3. CASE b.read_pos > b.write_pos
  <2>1. 1 .. ReadValid(b) = 1 .. 0
    BY <1>1, <1>3 DEF ReadValid
  <2> DEFINE F(i) == b.data[b.read_pos + i - 1]
  <2>2. Content(b) = [i \in 1 .. 0 |-> F(i)]
    BY <2>1 DEF Content
  <2> HIDE DEF F
  <2>3. [i \in 1 .. 0 |-> F(i)] \in Seq(Bytes) /\ Len([i \in 1 .. 0 |-> F(i)]) = 0
    OBVIOUS
  <2> QED
    BY <1>1, <1>3, <2>2, <2>3
<1> QED
  BY <1>1, <1>2, <1>3

-----------------------------------------------------------------------------
(***************************************************************************)
(* What the steps of each thread leave alone.                              *)
(***************************************************************************)
LEMMA ClientFrame ==
  ASSUME NEW c \in Conns, Arrive(c) \/ HalfClose(c)
  PROVE  UNCHANGED <<sessVars, freeVars, listenVars, reactVars, appVars, backlog,
                     open, number, taken, registered, histVars>>
  BY DEF Arrive, HalfClose

LEMMA ListenFrame ==
  ASSUME Accept \/ ListenStep
  PROVE  UNCHANGED <<recv_mutex, reactVars, appVars, arrived, taken, fin, consumed, tainted,
                     robbed>>
  BY SMTT(60) DEF Accept, ListenStep, Pop, SetFd, InitBuffer, SetReactor, Count, OnEnter, AddEvent,
         sessVars, freeVars, tcpVars, epollVars, histVars

LEMMA ReactorFrame ==
  ASSUME NEW r \in Reactors, ReactorStep(r)
  PROVE  /\ UNCHANGED <<fd, reactor, freeVars, listenVars, appVars, backlog, open, number,
                        arrived, fin, registered, entered, leaked, tainted>>
         /\ ready' \subseteq ready
<1> USE DEF sessVars, tcpVars, epollVars, histVars
<1>1. CASE EpollWait(r) \/ NextEvent(r) \/ Lock(r) \/ BufferFull(r) \/ CallRecv(r)
  BY <1>1 DEF EpollWait, NextEvent, Lock, BufferFull, CallRecv
<1>2. CASE (\E c \in Conns : RecvBytes(r, c)) \/ RecvEnds(r) \/ RecvNothing(r) \/ RecvBlocks(r)
  BY <1>2 DEF RecvBytes, RecvEnds, RecvNothing, RecvBlocks
<1>3. CASE OnClose(r) \/ EndOnClose(r) \/ OnRecved(r) \/ EndOnRecved(r) \/ Again(r)
  BY <1>3 DEF OnClose, EndOnClose, OnRecved, EndOnRecved, Again
<1> QED
  BY <1>1, <1>2, <1>3 DEF ReactorStep

\* server_close from a thread or from a callback is the closing of one session.
Closes(s, r, by) ==
  /\ CloseSession(s, r, by)
  /\ UNCHANGED <<reactor, recv_buffer, recv_mutex, listenVars, reactVars, backlog, number,
                 arrived, taken, fin, entered, consumed, leaked, robbed>>

LEMMA CloseFrame ==
  ASSUME Close PROVE Closes(asession, areactor, None)
  BY DEF Close, Closes

LEMMA CallbackFrame ==
  ASSUME NEW r \in Reactors, CloseInCallback(r)
  PROVE  Closes(cur[r], reactor[cur[r]], r)
  BY DEF CloseInCallback, Closes

-----------------------------------------------------------------------------
(***************************************************************************)
(* Types.                                                                  *)
(***************************************************************************)

\* Room for a session more on the free list: one is not there.
LEMMA FreeFits ==
  ASSUME TypeOK, FreeListExact
  PROVE  /\ Free \subseteq Sessions /\ IsFiniteSet(Free)
         /\ \A s \in Sessions \ Free : freelist_num + 1 <= max_num
<1> USE SessionAssumption
<1>1. Free \subseteq Sessions
  BY DEF Free, TypeOK
<1>2. IsFiniteSet(Sessions) /\ Cardinality(Sessions) = max_num
  <2>1. 0 \in Int /\ max_num - 1 \in Int /\ (0 <= max_num - 1)
    OBVIOUS
  <2>2. /\ IsFiniteSet(0 .. max_num - 1)
        /\ Cardinality(0 .. max_num - 1) = IF 0 > max_num - 1 THEN 0 ELSE (max_num - 1) - 0 + 1
    BY <2>1, FS_Interval, Zenon
  <2> QED BY <2>1, <2>2 DEF Sessions
<1>3. IsFiniteSet(Free)
  BY <1>1, <1>2, FS_Subset
<1>4. ASSUME NEW s \in Sessions, s \notin Free
      PROVE  freelist_num + 1 <= max_num
  <2>1. IsFiniteSet(Free \cup {s}) /\ Cardinality(Free \cup {s}) = Cardinality(Free) + 1
    BY <1>3, <1>4, FS_AddElement
  <2>2. Cardinality(Free \cup {s}) <= max_num
    BY <1>1, <1>2, FS_Subset
  <2>3. Cardinality(Free) = freelist_num
    BY DEF FreeListExact
  <2> QED BY <2>1, <2>2, <2>3
<1> QED
  BY <1>1, <1>3, <1>4

\* The bytes of a recv: those the stream has next, as many as there is room for.
Next_(c, room) == IF arrived[c] - taken[c] < room THEN arrived[c] - taken[c] ELSE room
BytesNext(c, room) == SubSeq(Stream[c], taken[c] + 1, taken[c] + Next_(c, room))

LEMMA ReceiveSteps ==
  ASSUME TypeOK, FlowInv, NEW r \in Reactors, NEW c \in Conns, RecvBytes(r, c),
         call[r].pos \in 0 .. data_len, call[r].room \in 0 .. data_len
  PROVE  LET m == Next_(c, call[r].room)
             bytes == BytesNext(c, call[r].room)
         IN  /\ m \in 0 .. call[r].room /\ taken[c] + m <= arrived[c]
             /\ arrived[c] <= Len(Stream[c]) /\ bytes \in Seq(Bytes) /\ Len(bytes) = m
             /\ recv_buffer' = [recv_buffer EXCEPT ![cur[r]] =
                                  Received(recv_buffer[cur[r]], call[r].pos, bytes, m)]
             /\ taken' = [taken EXCEPT ![c] = @ + m]
             /\ received' = [received EXCEPT ![r] = TRUE]
             /\ Received(recv_buffer[cur[r]], call[r].pos, bytes, m) \in BufferType
<1> USE SessionAssumption, BufferAssumption
<1> DEFINE pos == call[r].pos
           room == call[r].room
           m == Next_(c, room)
<1>1. /\ arrived[c] \in Nat /\ taken[c] \in Nat /\ taken[c] < arrived[c]
      /\ arrived[c] <= Len(Stream[c]) /\ Stream[c] \in Seq(Bytes) /\ cur[r] \in Sessions
      /\ recv_buffer[cur[r]] \in BufferType
  BY DEF TypeOK, FlowInv, RecvBytes
<1>4. /\ recv_buffer' = [recv_buffer EXCEPT ![cur[r]] =
                           Received(recv_buffer[cur[r]], pos, BytesNext(c, room), m)]
      /\ taken' = [taken EXCEPT ![c] = @ + m]
      /\ received' = [received EXCEPT ![r] = TRUE]
  BY DEF RecvBytes, Received, BytesNext, Next_
<1>p. pos \in 0 .. data_len /\ room \in 0 .. data_len
  OBVIOUS
<1> HIDE DEF pos, room
<1>2. m \in 0 .. room /\ taken[c] + m <= arrived[c] /\ m \in 0 .. data_len
  BY <1>1, <1>p DEF Next_
<1> HIDE DEF m
<1>3. BytesNext(c, room) \in Seq(Bytes) /\ Len(BytesNext(c, room)) = m
  <2>1. taken[c] + m <= Len(Stream[c]) /\ taken[c] + 1 \in Int /\ taken[c] + m \in Int
        /\ Len(Stream[c]) \in Nat
    BY <1>1, <1>2
  <2>2. SubSeq(Stream[c], taken[c] + 1, taken[c] + m) \in Seq(Bytes)
        /\ Len(SubSeq(Stream[c], taken[c] + 1, taken[c] + m)) = m
    BY <1>1, <1>2, <2>1, SMTT(60)
  <2> QED BY <2>2 DEF BytesNext, m
<1>5. Received(recv_buffer[cur[r]], pos, BytesNext(c, room), m) \in BufferType
  BY <1>1, <1>2, <1>3, <1>p, ReceivedFields
<1> QED
  BY <1>1, <1>2, <1>3, <1>4, <1>5 DEF m, pos, room

\* A set of numbers has a least one, by the well-foundedness of <.
LEMMA SmallestExists ==
  ASSUME NEW S, S \subseteq Nat, S # {}
  PROVE  \E m \in S : \A n \in S : m <= n
<1> DEFINE R == {ss \in Nat \X Nat : ss[1] < ss[2]}
<1>1. IsWellFoundedOn(R, Nat)
  BY NatLessThanWellFounded DEF OpToRel
<1> HIDE DEF R
<1>2. PICK x \in S : \A y \in S : ~ (<<y, x>> \in R)
  BY <1>1, WFMin, Zenon
<1>3. \A y \in S : ~ (y < x)
  BY <1>2 DEF R
<1> QED
  BY <1>3

\* There is a first one among the reactors with the fewest connections: the least
\* number of reactors without would be one more than a number with.
FirstLeast(n, r) ==
  /\ r \in 0 .. n - 1
  /\ \A q \in 0 .. n - 1 : fd_num[r] <= fd_num[q]
  /\ \A q \in 0 .. n - 1 : q < r => fd_num[r] < fd_num[q]

LEMMA LightestIsReactor ==
  ASSUME fd_num \in [Reactors -> Int]
  PROVE  LightestReactor \in Reactors
<1> USE SessionAssumption
<1> DEFINE Without == {n \in 1 .. reactor_num : ~ \E r \in Reactors : FirstLeast(n, r)}
<1>1. Without = {}
  <2> SUFFICES ASSUME Without # {} PROVE FALSE
    OBVIOUS
  <2>1. Without \subseteq Nat
    OBVIOUS
  <2> HIDE DEF Without
  <2>2. PICK n \in Without : \A k \in Without : n <= k
    BY <2>1, SmallestExists
  <2>3. n \in 1 .. reactor_num /\ ~ \E r \in Reactors : FirstLeast(n, r)
    BY <2>2 DEF Without
  <2>4. n # 1
    <3>1. SUFFICES ASSUME n = 1 PROVE FALSE
      OBVIOUS
    <3>2. 0 \in Reactors /\ fd_num[0] \in Int /\ FirstLeast(1, 0)
      BY DEF Reactors, FirstLeast
    <3> QED BY <2>3, <3>1, <3>2
  <2>5. n - 1 \in 1 .. reactor_num /\ n - 1 \notin Without
    BY <2>2, <2>3, <2>4
  <2>6. PICK r \in Reactors : FirstLeast(n - 1, r)
    BY <2>5 DEF Without
  <2>7. /\ r \in 0 .. n - 2 /\ n \in Nat /\ n - 1 \in Reactors /\ r < n - 1
        /\ \A q \in 0 .. n - 1 : q \in 0 .. n - 2 \/ q = n - 1
        /\ \A q \in 0 .. n - 1 : fd_num[q] \in Int /\ q \in Int
        /\ \A q \in 0 .. n - 2 : fd_num[r] <= fd_num[q] /\ (q < r => fd_num[r] < fd_num[q])
    <3>1. (n - 1) - 1 = n - 2
      BY <2>3
    <3>2. r \in 0 .. n - 2 /\ n - 1 \in Reactors /\ r < n - 1
      BY <2>3, <2>5, <2>6, <3>1 DEF FirstLeast, Reactors
    <3> QED BY <2>3, <2>6, <3>1, <3>2 DEF FirstLeast, Reactors
  <2>8. CASE fd_num[n - 1] < fd_num[r]
    <3>1. \A q \in 0 .. n - 1 : /\ fd_num[n - 1] <= fd_num[q]
                                /\ q < n - 1 => fd_num[n - 1] < fd_num[q]
      <4> TAKE q \in 0 .. n - 1
      <4>1. fd_num[q] \in Int /\ fd_num[n - 1] \in Int /\ fd_num[r] \in Int
        BY <2>7
      <4>2. CASE q = n - 1
        BY <4>1, <4>2
      <4>3. CASE q # n - 1
        <5>1. fd_num[r] <= fd_num[q]
          BY <2>7, <4>3
        <5> QED BY <4>1, <5>1, <2>8
      <4> QED BY <4>2, <4>3
    <3>2. n - 1 \in 0 .. n - 1
      BY <2>3
    <3>3. FirstLeast(n, n - 1)
      BY <3>1, <3>2, Zenon DEF FirstLeast
    <3> QED BY <3>3, <2>3, <2>7
  <2>9. CASE ~(fd_num[n - 1] < fd_num[r])
    <3>1. FirstLeast(n, r)
      BY <2>7, <2>9 DEF FirstLeast
    <3> QED BY <3>1, <2>3
  <2> QED
    BY <2>8, <2>9
<1>2. reactor_num \in 1 .. reactor_num
  OBVIOUS
<1>3. PICK r \in Reactors : FirstLeast(reactor_num, r)
  BY <1>1, <1>2
<1>4. /\ \A q \in Reactors : fd_num[r] <= fd_num[q]
      /\ \A q \in Reactors : q < r => fd_num[r] < fd_num[q]
  BY <1>3 DEF FirstLeast, Reactors
<1> QED
  BY <1>3, <1>4 DEF LightestReactor

\* TypeOK in the parts that a step may concern.
BufTypes == recv_buffer \in [Sessions -> BufferType]
MutexTypes == recv_mutex \in [Sessions -> Reactors \cup {None}]
FdTypes ==
  /\ fd \in [Sessions -> Conns \cup {None}] /\ reactor \in [Sessions -> Reactors \cup {None}]
  /\ entered \in [Sessions -> Conns \cup {None}]
  /\ open \subseteq Conns /\ leaked \subseteq Conns /\ backlog \subseteq Conns
FreeTypes ==
  /\ freelist \in Seq(Sessions) /\ freelist_num \in 0 .. max_num /\ fd_num \in [Reactors -> Int]
  /\ tainted \subseteq Sessions
ListenTypes ==
  /\ lpc \in {"accept", "pop", "fd", "init", "reactor", "count", "enter", "add"}
  /\ lfd \in Conns \cup {None} /\ lsession \in Sessions
  /\ lreactor \in Reactors /\ lcount \in Int
StepTypes ==
  /\ rpc \in [Reactors -> {"wait", "batch", "lock", "recv", "call", "blocked",
                           "on_close", "in_close", "on_recved", "in_recved", "again"}]
  /\ batch \in [Reactors -> SUBSET Sessions] /\ cur \in [Reactors -> Sessions]
LocalTypes ==
  /\ received \in [Reactors -> BOOLEAN] /\ proc_begin \in [Reactors -> BOOLEAN]
  /\ proc_len \in [Reactors -> 0 .. data_len]
CallTypes == call \in [Reactors -> CallType \cup {None}]
AppTypes == apc \in {"idle", "close"} /\ asession \in Sessions /\ areactor \in Reactors
TcpTypes == arrived \in [Conns -> Nat] /\ fin \in [Conns -> BOOLEAN]
TakenTypes ==
  taken \in [Conns -> Nat] /\ consumed \in [Conns -> Seq(Bytes)] /\ robbed \subseteq Conns
NumberTypes == number \in [Conns -> Fds \cup {None}]
EpollTypes ==
  /\ registered \in [Conns -> [reactor : Reactors, session : Sessions] \cup {None}]
  /\ ready \subseteq Conns

TypeParts ==
  /\ BufTypes /\ MutexTypes /\ FdTypes /\ FreeTypes /\ ListenTypes /\ StepTypes /\ LocalTypes
  /\ CallTypes /\ AppTypes /\ TcpTypes /\ TakenTypes /\ NumberTypes /\ EpollTypes

LEMMA TypesOfParts == TypeOK <=> TypeParts
  BY DEF TypeOK, TypeParts, BufTypes, MutexTypes, FdTypes, FreeTypes, ListenTypes, StepTypes,
         LocalTypes, CallTypes, AppTypes, TcpTypes, TakenTypes, NumberTypes, EpollTypes

LEMMA TypesOfPartsNext == TypeOK' <=> TypeParts'
  BY DEF TypeOK, TypeParts, BufTypes, MutexTypes, FdTypes, FreeTypes, ListenTypes, StepTypes,
         LocalTypes, CallTypes, AppTypes, TcpTypes, TakenTypes, NumberTypes, EpollTypes

LEMMA TypesUnchanged ==
  ASSUME TypeParts
  PROVE  /\ UNCHANGED recv_buffer => BufTypes'
         /\ UNCHANGED recv_mutex => MutexTypes'
         /\ UNCHANGED <<fd, reactor, entered, open, leaked, backlog>> => FdTypes'
         /\ UNCHANGED <<freelist, freelist_num, fd_num, tainted>> => FreeTypes'
         /\ UNCHANGED listenVars => ListenTypes'
         /\ UNCHANGED <<rpc, batch, cur>> => StepTypes'
         /\ UNCHANGED <<received, proc_begin, proc_len>> => LocalTypes'
         /\ UNCHANGED call => CallTypes'
         /\ UNCHANGED appVars => AppTypes'
         /\ UNCHANGED <<arrived, fin>> => TcpTypes'
         /\ UNCHANGED <<taken, consumed, robbed>> => TakenTypes'
         /\ UNCHANGED number => NumberTypes'
         /\ UNCHANGED epollVars => EpollTypes'
<1> USE DEF TypeParts
<1>1. UNCHANGED recv_buffer => BufTypes' BY DEF BufTypes
<1>2. UNCHANGED recv_mutex => MutexTypes' BY DEF MutexTypes
<1>3. UNCHANGED <<fd, reactor, entered, open, leaked, backlog>> => FdTypes' BY DEF FdTypes
<1>4. UNCHANGED <<freelist, freelist_num, fd_num, tainted>> => FreeTypes' BY DEF FreeTypes
<1>5. UNCHANGED listenVars => ListenTypes' BY DEF ListenTypes, listenVars
<1>6. UNCHANGED <<rpc, batch, cur>> => StepTypes' BY DEF StepTypes
<1>7. UNCHANGED <<received, proc_begin, proc_len>> => LocalTypes' BY DEF LocalTypes
<1>8. UNCHANGED call => CallTypes' BY DEF CallTypes
<1>9. UNCHANGED appVars => AppTypes' BY DEF AppTypes, appVars
<1>10. UNCHANGED <<arrived, fin>> => TcpTypes' BY DEF TcpTypes
<1>11. UNCHANGED <<taken, consumed, robbed>> => TakenTypes' BY DEF TakenTypes
<1>13. UNCHANGED number => NumberTypes' BY DEF NumberTypes
<1>12. UNCHANGED epollVars => EpollTypes' BY DEF EpollTypes, epollVars
<1> HIDE DEF TypeParts
<1> QED
  BY <1>1, <1>2, <1>3, <1>4, <1>5, <1>6, <1>7, <1>8, <1>9, <1>10, <1>11, <1>12,
     <1>13

\* The types after a step of the listen thread.
LEMMA ListenTypesKept ==
  ASSUME SessionInv, Accept \/ ListenStep
  PROVE  TypeParts'
<1>0. TypeParts /\ FreeListExact
  BY TypesOfParts DEF SessionInv
<1>t. /\ BufTypes /\ FdTypes /\ FreeTypes /\ ListenTypes /\ EpollTypes /\ NumberTypes
  BY <1>0 DEF TypeParts
<1>1. /\ MutexTypes' /\ StepTypes' /\ LocalTypes' /\ CallTypes' /\ AppTypes'
      /\ TcpTypes' /\ TakenTypes' /\ UNCHANGED tainted
  <2>1. UNCHANGED <<recv_mutex, reactVars, appVars, arrived, taken, fin, consumed, tainted,
                    robbed>>
    BY ListenFrame
  <2> QED
    BY <1>0, <2>1, TypesUnchanged DEF reactVars
<1>3. NumberTypes'
  <2>1. CASE Accept
    <3>1. PICK c \in Conns, n \in Fds : number' = [number EXCEPT ![c] = n]
      BY <1>t, <2>1 DEF Accept, FdTypes
    <3> QED BY <1>t, <3>1 DEF NumberTypes
  <2>2. CASE ListenStep
    <3>1. UNCHANGED number
      BY <2>2 DEF ListenStep, Pop, SetFd, InitBuffer, SetReactor, Count, OnEnter, AddEvent,
                  tcpVars
    <3> QED BY <1>0, <3>1, TypesUnchanged
  <2> QED BY <2>1, <2>2
<1>2. BufTypes' /\ FdTypes' /\ FreeTypes' /\ ListenTypes' /\ EpollTypes'
  <2>1. CASE Accept
    <3>1. UNCHANGED <<recv_buffer, fd, reactor, entered, freelist, freelist_num, fd_num,
                      epollVars, lsession, lreactor, lcount>>
      BY <2>1 DEF Accept, sessVars, freeVars
    <3>2. BufTypes' /\ FreeTypes' /\ EpollTypes'
      BY <1>0, <1>1, <3>1, TypesUnchanged
    <3>3. FdTypes' /\ ListenTypes'
      BY <1>t, <2>1, <3>1 DEF Accept, FdTypes, ListenTypes
    <3> QED BY <3>2, <3>3
  <2>2. CASE Pop
    <3>1. UNCHANGED <<recv_buffer, fd, reactor, entered, open, leaked, backlog, fd_num,
                      epollVars, lfd, lreactor, lcount>>
      BY <2>2 DEF Pop, sessVars, tcpVars, histVars
    <3>2. BufTypes' /\ FdTypes' /\ EpollTypes'
      BY <1>0, <3>1, TypesUnchanged
    <3>3. /\ freelist \in Seq(Sessions) /\ freelist # <<>> /\ freelist_num = Len(freelist)
          /\ freelist_num \in 0 .. max_num /\ max_num \in Nat
      BY <1>0, <1>t, <2>2, SessionAssumption DEF FreeTypes, Pop, FreeListExact
    <3>4. /\ freelist[Len(freelist)] \in Sessions
          /\ SubSeq(freelist, 1, Len(freelist) - 1) \in Seq(Sessions)
          /\ freelist_num - 1 \in 0 .. max_num
      BY <3>3
    <3>5. FreeTypes' /\ ListenTypes'
      BY <1>t, <1>1, <2>2, <3>1, <3>4 DEF Pop, PopSession, FreeTypes, ListenTypes
    <3> QED BY <3>2, <3>5
  <2>3. CASE SetFd
    <3>1. UNCHANGED <<recv_buffer, freelist, freelist_num, fd_num, epollVars>>
      BY <2>3 DEF SetFd, freeVars
    <3>2. BufTypes' /\ FreeTypes' /\ EpollTypes'
      BY <1>0, <1>1, <3>1, TypesUnchanged
    <3>3. LightestReactor \in Reactors
      BY <1>t, LightestIsReactor DEF FreeTypes
    <3>4. FdTypes' /\ ListenTypes'
      BY <1>t, <2>3, <3>3 DEF SetFd, FdTypes, ListenTypes, tcpVars, histVars
    <3> QED BY <3>2, <3>4
  <2>4. CASE InitBuffer
    <3>1. UNCHANGED <<fd, reactor, entered, open, leaked, backlog, freelist, freelist_num,
                      fd_num, epollVars>>
      BY <2>4 DEF InitBuffer, freeVars, tcpVars, histVars
    <3>2. FdTypes' /\ FreeTypes' /\ EpollTypes'
      BY <1>0, <1>1, <3>1, TypesUnchanged
    <3>3. EmptyBuffer \in BufferType
      BY EmptyFields
    <3>4. BufTypes' /\ ListenTypes'
      BY <1>t, <2>4, <3>3 DEF InitBuffer, InitializedBuffer, BufTypes, ListenTypes
    <3> QED BY <3>2, <3>4
  <2>5. CASE SetReactor
    <3>1. UNCHANGED <<recv_buffer, freelist, freelist_num, fd_num, epollVars>>
      BY <2>5 DEF SetReactor, freeVars
    <3>2. BufTypes' /\ FreeTypes' /\ EpollTypes'
      BY <1>0, <1>1, <3>1, TypesUnchanged
    <3>3. FdTypes' /\ ListenTypes'
      BY <1>t, <2>5 DEF SetReactor, FdTypes, ListenTypes, FreeTypes, tcpVars, histVars
    <3> QED BY <3>2, <3>3
  <2>6. CASE Count
    <3>1. UNCHANGED <<recv_buffer, fd, reactor, entered, open, leaked, backlog, epollVars>>
      BY <2>6 DEF Count, sessVars, tcpVars, histVars
    <3>2. BufTypes' /\ FdTypes' /\ EpollTypes'
      BY <1>0, <3>1, TypesUnchanged
    <3>3. FreeTypes' /\ ListenTypes'
      BY <1>t, <1>1, <2>6 DEF Count, FreeTypes, ListenTypes
    <3> QED BY <3>2, <3>3
  <2>7. CASE OnEnter
    <3>1. UNCHANGED <<recv_buffer, freelist, freelist_num, fd_num, epollVars>>
      BY <2>7 DEF OnEnter, freeVars, sessVars
    <3>2. BufTypes' /\ FreeTypes' /\ EpollTypes'
      BY <1>0, <1>1, <3>1, TypesUnchanged
    <3>3. FdTypes' /\ ListenTypes'
      BY <1>t, <2>7 DEF OnEnter, FdTypes, ListenTypes, sessVars, tcpVars
    <3> QED BY <3>2, <3>3
  <2>8. CASE AddEvent
    <3>1. UNCHANGED <<recv_buffer, fd, reactor, entered, open, leaked, backlog, freelist,
                      freelist_num, fd_num>>
      BY <2>8 DEF AddEvent, sessVars, freeVars, tcpVars, histVars
    <3>2. BufTypes' /\ FdTypes' /\ FreeTypes'
      BY <1>0, <1>1, <3>1, TypesUnchanged
    <3>3. 0 \in Sessions /\ 0 \in Reactors
      BY SessionAssumption DEF Sessions, Reactors
    <3>4. ListenTypes'
      BY <1>t, <2>8, <3>3 DEF AddEvent, ListenTypes
    <3>5. CASE lfd \in open
      <4>1. lfd \in Conns
        BY <3>5, <1>t DEF FdTypes
      <4>2. [reactor |-> lreactor, session |-> lsession] \in [reactor : Reactors, session : Sessions]
        BY <1>t DEF ListenTypes
      <4>3. /\ registered' = [registered EXCEPT
                                ![lfd] = [reactor |-> lreactor, session |-> lsession]]
            /\ ready' \subseteq ready \cup {lfd}
        BY <2>8, <3>5 DEF AddEvent
      <4>4. EpollTypes'
        BY <1>t, <4>1, <4>2, <4>3 DEF EpollTypes
      <4> QED BY <3>2, <3>4, <4>4
    <3>6. CASE lfd \notin open
      <4>1. UNCHANGED epollVars
        BY <2>8, <3>6 DEF AddEvent
      <4> QED BY <1>0, <3>2, <3>4, <4>1, TypesUnchanged
    <3> QED BY <3>5, <3>6
  <2> QED
    BY <2>1, <2>2, <2>3, <2>4, <2>5, <2>6, <2>7, <2>8 DEF ListenStep
<1> QED
  BY <1>1, <1>2, <1>3 DEF TypeParts

\* ... and after closing a session.
LEMMA CloseTypesKept ==
  ASSUME SessionInv, NEW s \in Sessions, NEW q, NEW by, Closes(s, q, by), AppTypes'
  PROVE  TypeParts'
<1>0. TypeParts /\ TypeOK /\ FreeListExact
  BY TypesOfParts DEF SessionInv
<1>t. FdTypes /\ FreeTypes /\ EpollTypes
  BY <1>0 DEF TypeParts
<1>1. UNCHANGED <<reactor, recv_buffer, recv_mutex, listenVars, reactVars, backlog, number,
                  arrived, taken, fin, entered, consumed, leaked, robbed>>
  BY DEF Closes
<1>2. /\ BufTypes' /\ MutexTypes' /\ ListenTypes' /\ StepTypes' /\ LocalTypes' /\ CallTypes'
      /\ TcpTypes' /\ TakenTypes' /\ NumberTypes'
  BY <1>0, <1>1, TypesUnchanged DEF reactVars
<1>3. CASE ~IsOpen(s)
  <2>1. UNCHANGED <<open, epollVars, fd, freelist, freelist_num, fd_num, tainted>>
    BY <1>3 DEF Closes, CloseSession, freeVars
  <2>2. FdTypes' /\ FreeTypes' /\ EpollTypes'
    BY <1>0, <1>1, <2>1, TypesUnchanged
  <2> QED BY <1>2, <2>2 DEF TypeParts
<1>4. CASE IsOpen(s)
  <2>1. /\ open' = open \ {fd[s]}
        /\ registered' = [c \in Conns |-> IF c = fd[s] THEN None ELSE registered[c]]
        /\ ready' = ready \ {fd[s]}
        /\ fd' = [fd EXCEPT ![s] = None]
        /\ freelist' = Append(freelist, s)
        /\ freelist_num' = freelist_num + 1
        /\ fd_num' = [fd_num EXCEPT ![q] = @ - 1]
        /\ tainted' \subseteq tainted \cup {s}
    BY <1>4 DEF Closes, CloseSession, Closed
  <2>2. s \notin Free
    BY <1>0, <1>4 DEF FreeListExact, IsOpen
  <2>3. freelist_num + 1 \in 0 .. max_num
    BY <1>0, <1>t, <2>2, FreeFits, SessionAssumption DEF FreeTypes
  <2>4. Append(freelist, s) \in Seq(Sessions)
    BY <1>t DEF FreeTypes
  <2>5. [fd_num EXCEPT ![q] = @ - 1] \in [Reactors -> Int]
    <3>1. CASE q \in Reactors
      BY <1>t, <3>1 DEF FreeTypes
    <3>2. CASE q \notin Reactors
      <4>1. [fd_num EXCEPT ![q] = @ - 1] = fd_num
        BY <1>t, <3>2 DEF FreeTypes
      <4> QED BY <4>1, <1>t DEF FreeTypes
    <3> QED BY <3>1, <3>2
  <2>6. FreeTypes'
    BY <1>t, <2>1, <2>3, <2>4, <2>5 DEF FreeTypes
  <2>7. FdTypes'
    BY <1>t, <1>1, <2>1 DEF FdTypes
  <2>8. EpollTypes'
    BY <1>t, <2>1 DEF EpollTypes
  <2> QED
    BY <1>2, <2>6, <2>7, <2>8 DEF TypeParts
<1> QED
  BY <1>3, <1>4

\* ... and after a step of a reactor.
LEMMA ReactorTypesKept ==
  ASSUME SessionInv, NEW r \in Reactors, ReactorStep(r)
  PROVE  TypeParts'
<1> DEFINE b == Room(recv_buffer[cur[r]])
<1>0. TypeParts /\ TypeOK /\ FlowInv /\ data_len \in Nat
  BY TypesOfParts, BufferAssumption DEF SessionInv
<1>t. /\ BufTypes /\ MutexTypes /\ StepTypes /\ LocalTypes /\ CallTypes /\ TakenTypes
      /\ FdTypes /\ EpollTypes
  BY <1>0 DEF TypeParts
<1>c. InRecv(r) \/ rpc[r] = "call" => call[r] \in CallType
  BY DEF SessionInv, HandlerInv, InRecv
<1>1. /\ FdTypes' /\ FreeTypes' /\ ListenTypes' /\ AppTypes' /\ TcpTypes' /\ NumberTypes'
      /\ EpollTypes'
  <2>1. /\ UNCHANGED <<fd, reactor, freeVars, listenVars, appVars, backlog, open, number,
                       arrived, fin, registered, entered, leaked, tainted>>
        /\ ready' \subseteq ready
    BY ReactorFrame
  <2>2. EpollTypes'
    BY <1>t, <2>1 DEF EpollTypes
  <2> QED
    BY <1>0, <2>1, <2>2, TypesUnchanged DEF freeVars
<1>a. /\ cur[r] \in Sessions /\ b \in BufferType
      /\ b.write_pos \in 0 .. data_len /\ WriteValid(b) \in 0 .. data_len
      /\ fd[cur[r]] \in Conns \cup {None} /\ recv_buffer[cur[r]] \in BufferType
      /\ [recv_buffer EXCEPT ![cur[r]] = b] \in [Sessions -> BufferType]
  <2>1. /\ cur[r] \in Sessions /\ recv_buffer[cur[r]] \in BufferType
        /\ fd[cur[r]] \in Conns \cup {None}
    BY <1>t DEF StepTypes, BufTypes, FdTypes
  <2>2. b \in BufferType /\ WriteValid(b) \in 0 .. data_len
    BY <2>1, RoomKeeps
  <2> HIDE DEF b
  <2>3. b.write_pos \in 0 .. data_len
    BY <2>2 DEF BufferType
  <2> QED BY <1>t, <2>1, <2>2, <2>3 DEF BufTypes
<1>b. AfterLoop(r) \in {"on_recved", "again"}
  BY DEF AfterLoop
<1> HIDE DEF b
<1>2. ASSUME NEW new \in BufferType, NEW c \in Conns, NEW m \in Nat,
             recv_buffer' = [recv_buffer EXCEPT ![cur[r]] = new],
             taken' = [taken EXCEPT ![c] = @ + m], UNCHANGED consumed,
             robbed' \subseteq robbed \cup {c}
      PROVE  BufTypes' /\ TakenTypes'
  BY <1>t, <1>a, <1>2 DEF BufTypes, TakenTypes
<1>3. /\ BufTypes' /\ MutexTypes' /\ StepTypes' /\ LocalTypes' /\ CallTypes' /\ TakenTypes'
  <2>1. CASE EpollWait(r)
    <3>1. \A c \in Mine(r) : registered[c].session \in Sessions
      <4> SUFFICES ASSUME NEW c \in Mine(r) PROVE registered[c].session \in Sessions
        OBVIOUS
      <4>1. c \in Conns /\ registered[c] # None
        BY <1>t DEF SessionInv, ConnsOwned, Mine, EpollTypes
      <4> QED BY <1>t, <4>1 DEF EpollTypes
    <3>2. {registered[c].session : c \in Mine(r)} \in SUBSET Sessions
      BY <3>1
    <3>3. StepTypes'
      BY <1>t, <2>1, <3>2 DEF EpollWait, StepTypes
    <3>4. UNCHANGED <<recv_buffer, recv_mutex, received, proc_begin, proc_len, call, taken,
                      consumed, robbed>>
      BY <2>1 DEF EpollWait, sessVars, histVars, tcpVars
    <3> QED BY <1>0, <3>3, <3>4, TypesUnchanged
  <2>2. CASE NextEvent(r)
    <3>1. StepTypes'
      BY <1>t, <2>2 DEF NextEvent, StepTypes
    <3>2. UNCHANGED <<recv_buffer, recv_mutex, received, proc_begin, proc_len, call, taken,
                      consumed, robbed>>
      BY <2>2 DEF NextEvent, sessVars, histVars, tcpVars
    <3> QED BY <1>0, <3>1, <3>2, TypesUnchanged
  <2>3. CASE Lock(r)
    <3>1. StepTypes' /\ MutexTypes'
      BY <1>t, <2>3 DEF Lock, StepTypes, MutexTypes
    <3>2. UNCHANGED <<recv_buffer, received, proc_begin, proc_len, call, taken, consumed, robbed>>
      BY <2>3 DEF Lock, histVars, tcpVars
    <3> QED BY <1>0, <3>1, <3>2, TypesUnchanged
  <2>4. CASE BufferFull(r)
    <3>1. recv_buffer' = [recv_buffer EXCEPT ![cur[r]] = b]
      BY <2>4 DEF BufferFull, b
    <3>2. UNCHANGED <<recv_mutex, call, taken, consumed, robbed>>
      BY <2>4 DEF BufferFull, histVars, tcpVars
    <3>3. StepTypes' /\ LocalTypes' /\ BufTypes'
      BY <1>t, <1>a, <1>b, <2>4, <3>1 DEF BufferFull, StepTypes, LocalTypes, BufTypes
    <3> QED BY <1>0, <3>2, <3>3, TypesUnchanged
  <2>5. CASE CallRecv(r)
    <3>1. /\ recv_buffer' = [recv_buffer EXCEPT ![cur[r]] = b]
          /\ rpc' = [rpc EXCEPT ![r] = "call"]
          /\ call' = [call EXCEPT ![r] = [conn |-> fd[cur[r]], pos |-> b.write_pos,
                                         room |-> WriteValid(b)]]
          /\ UNCHANGED <<recv_mutex, batch, cur, received, proc_begin, proc_len, taken,
                         consumed, robbed>>
      BY <2>5 DEF CallRecv, b, histVars, tcpVars
    <3>2. [conn |-> fd[cur[r]], pos |-> b.write_pos, room |-> WriteValid(b)] \in CallType
      BY <1>a DEF CallType
    <3>3. CallTypes'
      BY <1>t, <3>1, <3>2 DEF CallTypes
    <3>4. StepTypes' /\ BufTypes'
      BY <1>t, <1>a, <3>1 DEF StepTypes, BufTypes
    <3> QED BY <1>0, <3>1, <3>3, <3>4, TypesUnchanged
  <2>6. CASE \E c \in Conns : RecvBytes(r, c)
    <3>1. PICK c \in Conns : RecvBytes(r, c)
      BY <2>6
    <3>2. call[r].pos \in 0 .. data_len /\ call[r].room \in 0 .. data_len
      BY <1>c, <3>1 DEF RecvBytes, CallType
    <3> DEFINE m == Next_(c, call[r].room)
               new == Received(recv_buffer[cur[r]], call[r].pos, BytesNext(c, call[r].room), m)
    <3>3. /\ m \in 0 .. call[r].room /\ new \in BufferType
          /\ recv_buffer' = [recv_buffer EXCEPT ![cur[r]] = new]
          /\ taken' = [taken EXCEPT ![c] = @ + m]
          /\ received' = [received EXCEPT ![r] = TRUE]
      BY <1>0, <3>1, <3>2, ReceiveSteps
    <3> HIDE DEF m, new
    <3>4. /\ UNCHANGED <<recv_mutex, batch, cur, proc_begin, proc_len, consumed>>
          /\ robbed' \subseteq robbed \cup {c} /\ Returns(r, "recv")
      BY <3>1 DEF RecvBytes
    <3>5. m \in Nat
      BY <3>2, <3>3
    <3>6. BufTypes' /\ TakenTypes'
      BY <1>2, <3>3, <3>4, <3>5
    <3>7. LocalTypes' /\ StepTypes' /\ CallTypes'
      BY <1>t, <3>3, <3>4 DEF Returns, LocalTypes, StepTypes, CallTypes
    <3> QED BY <1>0, <3>4, <3>6, <3>7, TypesUnchanged
  <2>7. CASE RecvEnds(r) \/ RecvNothing(r)
    <3>1. /\ \E pc \in {"on_close", "on_recved", "again"} : Returns(r, pc)
          /\ UNCHANGED <<recv_buffer, recv_mutex, batch, cur, received, proc_begin, proc_len,
                         taken, consumed, robbed>>
      BY <1>b, <2>7 DEF RecvEnds, RecvNothing, sessVars, histVars, tcpVars
    <3>2. StepTypes' /\ CallTypes'
      BY <1>t, <3>1 DEF Returns, StepTypes, CallTypes
    <3> QED BY <1>0, <3>1, <3>2, TypesUnchanged
  <2>8. CASE RecvBlocks(r)
    <3>1. PICK c \in Reached(r) : call' = [call EXCEPT ![r].conn = c]
      BY <2>8 DEF RecvBlocks
    <3>2. rpc[r] = "call" /\ call[r] \in CallType /\ c \in Conns
      BY <1>t, <1>c, <2>8, <3>1 DEF RecvBlocks, Reached, FdTypes
    <3>3. [call[r] EXCEPT !.conn = c] \in CallType
      BY <3>2 DEF CallType
    <3>4. call' = [call EXCEPT ![r] = [call[r] EXCEPT !.conn = c]]
      BY <1>t, <3>1 DEF CallTypes
    <3>5. CallTypes'
      BY <1>t, <3>3, <3>4 DEF CallTypes
    <3>6. UNCHANGED <<recv_buffer, recv_mutex, batch, cur, received, proc_begin, proc_len,
                      taken, consumed, robbed>>
      BY <2>8 DEF RecvBlocks, sessVars, histVars, tcpVars
    <3>7. StepTypes'
      BY <1>t, <2>8, <3>6 DEF RecvBlocks, StepTypes
    <3> QED BY <1>0, <3>5, <3>6, <3>7, TypesUnchanged
  <2>9. CASE OnClose(r) \/ EndOnClose(r)
    <3>1. StepTypes'
      BY <1>t, <2>9 DEF OnClose, EndOnClose, StepTypes
    <3>2. UNCHANGED <<recv_buffer, recv_mutex, received, proc_begin, proc_len, call, taken,
                      consumed, robbed>>
      BY <2>9 DEF OnClose, EndOnClose, sessVars, histVars, tcpVars
    <3> QED BY <1>0, <3>1, <3>2, TypesUnchanged
  <2>10. CASE OnRecved(r)
    <3> DEFINE s == cur[r]
               shown == Content(recv_buffer[s])
    <3>1. shown \in Seq(Bytes) /\ Len(shown) \in Nat /\ Len(shown) <= data_len
      BY <1>a, ContentFields
    <3> HIDE DEF shown
    <3>2. PICK n \in 0 .. Len(shown) :
            /\ proc_len' = [proc_len EXCEPT ![r] = n]
            /\ consumed' = IF entered[s] = None THEN consumed
                           ELSE [consumed EXCEPT ![entered[s]] = @ \o SubSeq(shown, 1, n)]
      BY <2>10 DEF OnRecved, shown
    <3>3. n \in 0 .. data_len /\ SubSeq(shown, 1, n) \in Seq(Bytes)
      BY <1>0, <3>1
    <3>4. consumed' \in [Conns -> Seq(Bytes)]
      <4>1. CASE entered[s] = None
        BY <4>1, <3>2, <1>t DEF TakenTypes
      <4>2. CASE entered[s] # None
        <5>1. entered[s] \in Conns /\ consumed[entered[s]] \in Seq(Bytes)
          BY <4>2, <1>t, <1>a DEF FdTypes, TakenTypes
        <5>2. consumed[entered[s]] \o SubSeq(shown, 1, n) \in Seq(Bytes)
          BY <5>1, <3>3
        <5> QED BY <4>2, <5>1, <5>2, <3>2, <1>t DEF TakenTypes
      <4> QED BY <4>1, <4>2
    <3>5. UNCHANGED <<recv_buffer, recv_mutex, received, proc_begin, call, taken,
                      robbed>>
      BY <2>10 DEF OnRecved, sessVars, tcpVars
    <3>6. StepTypes' /\ LocalTypes' /\ TakenTypes'
      BY <1>t, <2>10, <3>2, <3>3, <3>4, <3>5 DEF OnRecved, StepTypes, LocalTypes, TakenTypes
    <3> QED BY <1>0, <3>5, <3>6, TypesUnchanged
  <2>11. CASE EndOnRecved(r)
    <3>1. Passed(recv_buffer[cur[r]], proc_len[r]) \in BufferType
      BY <1>t, <1>a, ReadType DEF LocalTypes, Passed
    <3>2. 0 \in 0 .. data_len
      BY <1>0
    <3>3. BufTypes' /\ StepTypes' /\ LocalTypes'
      BY <1>t, <1>a, <2>11, <3>1, <3>2 DEF EndOnRecved, BufTypes, StepTypes, LocalTypes
    <3>4. UNCHANGED <<recv_mutex, call, taken, consumed, robbed>>
      BY <2>11 DEF EndOnRecved, histVars, tcpVars
    <3> QED BY <1>0, <3>3, <3>4, TypesUnchanged
  <2>12. CASE Again(r)
    <3>1. 0 \in Sessions
      BY SessionAssumption DEF Sessions
    <3>2. StepTypes' /\ MutexTypes' /\ LocalTypes'
      BY <1>t, <1>a, <2>12, <3>1 DEF Again, StepTypes, MutexTypes, LocalTypes
    <3>3. UNCHANGED <<recv_buffer, call, taken, consumed, robbed>>
      BY <2>12 DEF Again, tcpVars, histVars
    <3> QED BY <1>0, <3>2, <3>3, TypesUnchanged
  <2> QED
    BY <2>1, <2>2, <2>3, <2>4, <2>5, <2>6, <2>7, <2>8, <2>9, <2>10, <2>11, <2>12
       DEF ReactorStep
<1> QED
  BY <1>1, <1>3 DEF TypeParts

LEMMA TypeKept ==
  ASSUME SessionInv, [Next]_vars
  PROVE  TypeOK'
<1>0. TypeParts /\ TypeOK
  BY TypesOfParts DEF SessionInv
<1> SUFFICES TypeParts'
  BY TypesOfPartsNext
<1>1. ASSUME NEW c \in Conns, Arrive(c) \/ HalfClose(c) PROVE TypeParts'
  <2>1. UNCHANGED <<sessVars, freeVars, listenVars, reactVars, appVars, backlog,
                    open, number, taken, registered, histVars>>
    BY <1>1, ClientFrame
  <2>2. TcpTypes /\ EpollTypes
    BY <1>0 DEF TypeParts
  <2>4. EpollTypes'
    BY <1>1, <2>1, <2>2 DEF Arrive, HalfClose, Edge, EpollTypes
  <2>3. TcpTypes' /\ EpollTypes'
    <3>1. TcpTypes'
      <4>1. CASE Arrive(c)
        BY <2>2, <4>1 DEF Arrive, TcpTypes
      <4>2. CASE HalfClose(c)
        BY <2>2, <4>2 DEF HalfClose, TcpTypes
      <4> QED BY <1>1, <4>1, <4>2
    <3> QED BY <2>4, <3>1
  <2> QED
    BY <1>0, <2>1, <2>3, TypesUnchanged DEF TypeParts, sessVars, freeVars, reactVars, histVars
<1>2. ASSUME BeginClose PROVE TypeParts'
  <2>1. FdTypes
    BY <1>0 DEF TypeParts
  <2>2. AppTypes'
    BY <1>2, <2>1 DEF BeginClose, AppTypes, FdTypes
  <2>3. UNCHANGED <<sessVars, freeVars, listenVars, reactVars, tcpVars, epollVars, histVars>>
    BY <1>2 DEF BeginClose
  <2> QED
    BY <1>0, <2>2, <2>3, TypesUnchanged
       DEF TypeParts, sessVars, freeVars, reactVars, tcpVars, histVars
<1>3. ASSUME Close PROVE TypeParts'
  <2>1. AppTypes'
    BY <1>3, SessionAssumption DEF Close, AppTypes, Sessions, Reactors
  <2>2. asession \in Sessions /\ Closes(asession, areactor, None)
    BY <1>0, <1>3, CloseFrame DEF TypeParts, AppTypes
  <2> QED
    BY <2>1, <2>2, CloseTypesKept
<1>4. ASSUME NEW r \in Reactors, CloseInCallback(r) PROVE TypeParts'
  <2>1. AppTypes'
    BY <1>0, <1>4, TypesUnchanged DEF CloseInCallback
  <2>2. cur[r] \in Sessions /\ Closes(cur[r], reactor[cur[r]], r)
    BY <1>0, <1>4, CallbackFrame DEF TypeParts, StepTypes
  <2> QED
    BY <2>1, <2>2, CloseTypesKept
<1>5. ASSUME UNCHANGED vars PROVE TypeParts'
  BY <1>0, <1>5, TypesUnchanged DEF TypeParts, vars, sessVars, freeVars, reactVars, tcpVars,
     histVars
<1> QED
  BY <1>1, <1>2, <1>3, <1>4, <1>5, ListenTypesKept, ReactorTypesKept DEF Next

-----------------------------------------------------------------------------
(***************************************************************************)
(* The free list.                                                          *)
(***************************************************************************)
FreeOf(list) == {list[i] : i \in 1 .. Len(list)}

\* A list has no more elements than places.
LEMMA FreeOfFinite ==
  ASSUME NEW list \in Seq(Sessions)
  PROVE  IsFiniteSet(FreeOf(list)) /\ Cardinality(FreeOf(list)) <= Len(list)
         /\ Cardinality(FreeOf(list)) \in Nat
<1>1. Len(list) \in Nat
  OBVIOUS
<1>2. IsFiniteSet(1 .. Len(list)) /\ Cardinality(1 .. Len(list)) = Len(list)
  <2>1. 1 \in Int /\ Len(list) \in Int
    BY <1>1
  <2>2. /\ IsFiniteSet(1 .. Len(list))
        /\ Cardinality(1 .. Len(list)) = IF 1 > Len(list) THEN 0 ELSE Len(list) - 1 + 1
    BY <2>1, FS_Interval, Zenon
  <2> QED BY <1>1, <2>2
<1> DEFINE f == [i \in 1 .. Len(list) |-> list[i]]
<1>3. f \in Surjection(1 .. Len(list), FreeOf(list))
  <2>1. f \in [1 .. Len(list) -> FreeOf(list)]
    BY DEF FreeOf
  <2>2. \A t \in FreeOf(list) : \E i \in 1 .. Len(list) : f[i] = t
    BY DEF FreeOf
  <2> HIDE DEF f
  <2> QED BY <2>1, <2>2, Fun_IsSurj
<1>4. IsFiniteSet(FreeOf(list)) /\ Cardinality(FreeOf(list)) <= Cardinality(1 .. Len(list))
  <2> HIDE DEF f
  <2> QED BY <1>2, <1>3, FS_Surjection, Zenon
<1>5. Cardinality(FreeOf(list)) \in Nat
  BY <1>4, FS_CardinalityType
<1> QED
  BY <1>2, <1>4, <1>5

\* A longer list has one element more.
LEMMA FreeOfGrown ==
  ASSUME NEW short, NEW long, NEW n \in Nat, Len(short) = n, Len(long) = n + 1,
         \A i \in 1 .. n : short[i] = long[i]
  PROVE  FreeOf(long) = FreeOf(short) \cup {long[n + 1]}
<1>1. ASSUME NEW x \in FreeOf(long) PROVE x \in FreeOf(short) \cup {long[n + 1]}
  <2>1. PICK i \in 1 .. n + 1 : x = long[i]
    BY <1>1 DEF FreeOf
  <2>2. i \in 1 .. n \/ i = n + 1
    OBVIOUS
  <2> QED BY <2>1, <2>2 DEF FreeOf
<1>2. ASSUME NEW x \in FreeOf(short) PROVE x \in FreeOf(long)
  <2>1. PICK i \in 1 .. n : x = short[i]
    BY <1>2 DEF FreeOf
  <2>2. i \in 1 .. n + 1 /\ x = long[i]
    BY <2>1
  <2> QED BY <2>2 DEF FreeOf
<1>3. long[n + 1] \in FreeOf(long)
  <2>1. n + 1 \in 1 .. n + 1
    OBVIOUS
  <2> QED BY <2>1 DEF FreeOf
<1> QED
  BY <1>1, <1>2, <1>3

\* Taking the last element off a list without repetitions, or appending one it lacks.
LEMMA PoppedFree ==
  ASSUME NEW list \in Seq(Sessions), list # <<>>, Len(list) = Cardinality(FreeOf(list))
  PROVE  LET rest == SubSeq(list, 1, Len(list) - 1)
         IN  /\ rest \in Seq(Sessions) /\ Len(rest) = Len(list) - 1
             /\ Len(rest) = Cardinality(FreeOf(rest))
             /\ FreeOf(rest) = FreeOf(list) \ {list[Len(list)]}
             /\ list[Len(list)] \in FreeOf(list)
<1> DEFINE rest == SubSeq(list, 1, Len(list) - 1)
           last == list[Len(list)]
<1>1. /\ Len(list) \in Nat /\ Len(list) > 0 /\ last \in FreeOf(list)
      /\ rest \in Seq(Sessions) /\ Len(rest) = Len(list) - 1
      /\ \A i \in 1 .. Len(rest) : rest[i] = list[i]
  <2>1. Len(list) \in Nat /\ Len(list) > 0
    BY EmptySeq
  <2>2. Len(list) \in 1 .. Len(list)
    BY <2>1, SMTT(60)
  <2>3. last \in FreeOf(list)
    BY <2>2 DEF FreeOf
  <2>4. 1 \in 1 .. Len(list) + 1 /\ Len(list) - 1 \in 0 .. Len(list)
    BY <2>1
  <2>5. /\ rest \in Seq(Sessions) /\ Len(rest) = Len(list) - 1
        /\ \A i \in 1 .. Len(list) - 1 : rest[i] = list[i]
    BY <2>1, <2>4
  <2> HIDE DEF rest, last
  <2> QED BY <2>1, <2>3, <2>5
<1>2. FreeOf(list) = FreeOf(rest) \cup {last}
  <2> HIDE DEF rest
  <2>1. Len(rest) \in Nat /\ Len(list) = Len(rest) + 1
    BY <1>1
  <2> QED BY <1>1, <2>1, FreeOfGrown
<1>3. /\ IsFiniteSet(FreeOf(rest)) /\ Cardinality(FreeOf(rest)) <= Len(rest)
      /\ Cardinality(FreeOf(rest)) \in Nat
  <2> HIDE DEF rest
  <2>1. rest \in Seq(Sessions)
    BY <1>1
  <2> QED BY <2>1, FreeOfFinite
<1> HIDE DEF rest, last
<1>4. last \notin FreeOf(rest)
  <2> SUFFICES ASSUME last \in FreeOf(rest) PROVE FALSE
    OBVIOUS
  <2>1. FreeOf(list) = FreeOf(rest)
    BY <1>2
  <2>2. Cardinality(FreeOf(list)) = Cardinality(FreeOf(rest))
    BY <2>1
  <2> QED BY <1>1, <1>3, <2>2
<1>5. Cardinality(FreeOf(list)) = Cardinality(FreeOf(rest)) + 1
  BY <1>2, <1>3, <1>4, FS_AddElement
<1>6. Len(rest) = Cardinality(FreeOf(rest)) /\ FreeOf(rest) = FreeOf(list) \ {last}
  <2>1. Len(rest) = Cardinality(FreeOf(rest))
    BY <1>1, <1>3, <1>5
  <2> QED BY <1>2, <1>4, <2>1
<1> QED
  BY <1>1, <1>6 DEF rest, last

LEMMA AppendedFree ==
  ASSUME NEW list \in Seq(Sessions), Len(list) = Cardinality(FreeOf(list)),
         NEW s \in Sessions, s \notin FreeOf(list)
  PROVE  /\ FreeOf(Append(list, s)) = FreeOf(list) \cup {s}
         /\ Len(Append(list, s)) = Cardinality(FreeOf(Append(list, s)))
<1> DEFINE more == Append(list, s)
<1>1. /\ Len(list) \in Nat /\ Len(more) = Len(list) + 1 /\ more[Len(list) + 1] = s
      /\ \A i \in 1 .. Len(list) : more[i] = list[i]
  OBVIOUS
<1> HIDE DEF more
<1>2. FreeOf(more) = FreeOf(list) \cup {s}
  BY <1>1, FreeOfGrown
<1>3. Cardinality(FreeOf(more)) = Cardinality(FreeOf(list)) + 1
  BY <1>2, FreeOfFinite, FS_AddElement
<1> QED
  BY <1>1, <1>2, <1>3 DEF more

\* FreeListExact, of the list, its length and who has it to do with a session.
LEMMA FreeExactIs ==
  FreeListExact <=>
    /\ Len(freelist) = Cardinality(FreeOf(freelist)) /\ freelist_num = Len(freelist)
    /\ \A s \in Sessions :
         s \in FreeOf(freelist) <=> fd[s] = None /\ ~(lpc = "fd" /\ lsession = s)
  BY DEF FreeListExact, Free, FreeOf

LEMMA FreeExactIsNext ==
  FreeListExact' <=>
    /\ Len(freelist') = Cardinality(FreeOf(freelist')) /\ freelist_num' = Len(freelist')
    /\ \A s \in Sessions :
         s \in FreeOf(freelist') <=> fd'[s] = None /\ ~(lpc' = "fd" /\ lsession' = s)
  BY DEF FreeListExact, Free, FreeOf

LEMMA FreeKept ==
  ASSUME SessionInv, [Next]_vars
  PROVE  FreeListExact'
<1>0. TypeParts /\ ListenInv
  BY TypesOfParts DEF SessionInv
<1>t. FdTypes /\ FreeTypes /\ ListenTypes
  BY <1>0 DEF TypeParts
<1>f. /\ freelist \in Seq(Sessions)
      /\ Len(freelist) = Cardinality(FreeOf(freelist)) /\ freelist_num = Len(freelist)
      /\ \A s \in Sessions :
           s \in FreeOf(freelist) <=> fd[s] = None /\ ~(lpc = "fd" /\ lsession = s)
  BY <1>t, FreeExactIs DEF SessionInv, FreeTypes
<1>1. ASSUME UNCHANGED <<freelist, freelist_num, fd>>,
             \A s \in Sessions : (lpc' = "fd" /\ lsession' = s) <=> (lpc = "fd" /\ lsession = s)
      PROVE  FreeListExact'
  BY <1>f, <1>1, FreeExactIsNext
<1>2. ASSUME UNCHANGED <<freelist, freelist_num, fd, listenVars>> PROVE FreeListExact'
  BY <1>1, <1>2 DEF listenVars
<1>3. ASSUME Accept \/ ListenStep PROVE FreeListExact'
  <2>1. CASE Pop
    <3>1. /\ freelist # <<>> /\ lpc = "pop" /\ lpc' = "fd" /\ UNCHANGED fd
          /\ lsession' = freelist[Len(freelist)]
          /\ freelist' = SubSeq(freelist, 1, Len(freelist) - 1)
          /\ freelist_num' = freelist_num - 1
      BY <2>1 DEF Pop, PopSession, sessVars
    <3>2. /\ Len(freelist') = Len(freelist) - 1
          /\ Len(freelist') = Cardinality(FreeOf(freelist'))
          /\ FreeOf(freelist') = FreeOf(freelist) \ {lsession'}
          /\ lsession' \in FreeOf(freelist)
      BY <1>f, <3>1, PoppedFree
    <3> QED BY <1>f, <3>1, <3>2, FreeExactIsNext
  <2>2. CASE SetFd
    <3>1. /\ lpc = "fd" /\ lpc' = "init" /\ fd' = [fd EXCEPT ![lsession] = lfd]
          /\ UNCHANGED <<freelist, freelist_num, lsession>>
      BY <2>2 DEF SetFd, freeVars
    <3>2. lfd # None /\ fd \in [Sessions -> Conns \cup {None}]
      BY <1>0, <1>t, <3>1 DEF ListenInv, FdTypes
    <3> QED BY <1>f, <3>1, <3>2, FreeExactIsNext
  <2>3. CASE Accept
    <3>1. lpc = "accept" /\ lpc' \in {"accept", "pop"} /\ UNCHANGED <<freelist, freelist_num, fd>>
      BY <2>3 DEF Accept, sessVars, freeVars
    <3> QED BY <1>1, <3>1
  <2>4. CASE InitBuffer \/ SetReactor \/ Count \/ OnEnter \/ AddEvent
    <3>1. /\ lpc # "fd" /\ lpc' # "fd" /\ UNCHANGED <<freelist, freelist_num, fd>>
      BY <2>4 DEF InitBuffer, SetReactor, Count, OnEnter, AddEvent, sessVars, freeVars
    <3> QED BY <1>1, <3>1
  <2> QED
    BY <1>3, <2>1, <2>2, <2>3, <2>4 DEF ListenStep
<1>4. ASSUME NEW s \in Sessions, NEW q, NEW by, Closes(s, q, by)
      PROVE  FreeListExact'
  <2>1. UNCHANGED <<lpc, lsession>>
    BY <1>4 DEF Closes, listenVars
  <2>2. CASE ~IsOpen(s)
    <3>1. UNCHANGED <<fd, freelist, freelist_num>>
      BY <1>4, <2>2 DEF Closes, CloseSession, freeVars
    <3> QED BY <1>1, <2>1, <3>1
  <2>3. CASE IsOpen(s)
    <3>1. /\ fd' = [fd EXCEPT ![s] = None] /\ freelist' = Append(freelist, s)
          /\ freelist_num' = freelist_num + 1
      BY <1>4, <2>3 DEF Closes, CloseSession
    <3>2. s \notin FreeOf(freelist) /\ ~(lpc = "fd" /\ lsession = s)
      BY <1>f, <1>0, <2>3 DEF IsOpen, ListenInv
    <3>3. /\ FreeOf(freelist') = FreeOf(freelist) \cup {s}
          /\ Len(freelist') = Cardinality(FreeOf(freelist'))
      BY <1>f, <3>1, <3>2, AppendedFree
    <3>4. freelist_num' = Len(freelist')
      BY <1>f, <3>1
    <3>5. \A p \in Sessions :
            p \in FreeOf(freelist') <=> fd'[p] = None /\ ~(lpc' = "fd" /\ lsession' = p)
      BY <1>f, <1>t, <2>1, <3>1, <3>2, <3>3 DEF FdTypes
    <3> QED BY <3>3, <3>4, <3>5, FreeExactIsNext
  <2> QED BY <2>2, <2>3
<1>5. ASSUME NEW c \in Conns, Arrive(c) \/ HalfClose(c) PROVE FreeListExact'
  BY <1>2, <1>5, ClientFrame DEF sessVars, freeVars
<1>6. ASSUME BeginClose PROVE FreeListExact'
  BY <1>2, <1>6 DEF BeginClose, sessVars, freeVars
<1>7. ASSUME Close PROVE FreeListExact'
  BY <1>0, <1>4, <1>7, CloseFrame DEF TypeParts, AppTypes
<1>8. ASSUME NEW r \in Reactors, CloseInCallback(r) PROVE FreeListExact'
  BY <1>0, <1>4, <1>8, CallbackFrame DEF TypeParts, StepTypes
<1>9. ASSUME NEW r \in Reactors, ReactorStep(r) PROVE FreeListExact'
  BY <1>2, <1>9, ReactorFrame DEF freeVars
<1>10. ASSUME UNCHANGED vars PROVE FreeListExact'
  BY <1>2, <1>10 DEF vars, sessVars, freeVars
<1> QED
  BY <1>3, <1>5, <1>6, <1>7, <1>8, <1>9, <1>10 DEF Next

-----------------------------------------------------------------------------
(***************************************************************************)
(* The places of the open connections.                                     *)
(***************************************************************************)
Places(c) ==
  \/ \E s \in Sessions : fd[s] # None /\ fd[s] = c
  \/ c \in leaked
  \/ lpc \in {"pop", "fd"} /\ lfd = c

Numbered ==
  /\ \A c \in open : number[c] # None
  /\ \A c, d \in open : number[c] = number[d] => c = d

\* ConnsOwned, connection by connection.
LEMMA OwnedIs ==
  ConnsOwned <=>
    /\ \A s \in Sessions : fd[s] # None => fd[s] \in open
    /\ \A s, q \in Sessions : fd[s] = fd[q] /\ fd[s] # None => s = q
    /\ \A c : c \in open <=> Places(c)
    /\ Numbered
    /\ \A c \in ready : registered[c] # None
  BY DEF ConnsOwned, Places, Numbered

LEMMA OwnedIsNext ==
  ConnsOwned' <=>
    /\ \A s \in Sessions : fd'[s] # None => fd'[s] \in open'
    /\ \A s, q \in Sessions : fd'[s] = fd'[q] /\ fd'[s] # None => s = q
    /\ \A c : c \in open' <=> Places(c)'
    /\ Numbered'
    /\ \A c \in ready' : registered'[c] # None
  BY DEF ConnsOwned, Places, Numbered

\* A connection no session has met is no session's.
LEMMA NotMet ==
  ASSUME OneSession, NEW c \in Conns,
         c \in leaked \/ c \in backlog \/ (lpc \in {"pop", "fd"} /\ lfd = c)
  PROVE  \A s \in Sessions : /\ fd[s] # c /\ entered[s] # c
                             /\ ~(lsession = s /\ lpc \in Given /\ lfd = c)
  BY DEF OneSession, Meets

LEMMA OwnedKept ==
  ASSUME SessionInv, [Next]_vars
  PROVE  ConnsOwned'
<1>0. TypeParts /\ ListenInv /\ OneSession
  BY TypesOfParts DEF SessionInv
<1>t. /\ FdTypes /\ ListenTypes /\ EpollTypes /\ NumberTypes
      /\ asession \in Sessions /\ \A r \in Reactors : cur[r] \in Sessions
  BY <1>0 DEF TypeParts, AppTypes, StepTypes
<1>o. /\ \A s \in Sessions : fd[s] # None => fd[s] \in open
      /\ \A s, q \in Sessions : fd[s] = fd[q] /\ fd[s] # None => s = q
      /\ \A c : c \in open <=> Places(c)
      /\ Numbered
      /\ \A c \in ready : registered[c] # None
  BY OwnedIs DEF SessionInv
<1>1. ASSUME UNCHANGED <<fd, open, number, leaked>>,
             lpc \in {"pop", "fd"} <=> lpc' \in {"pop", "fd"}, lpc \in {"pop", "fd"} => UNCHANGED lfd,
             \A c \in ready' : registered'[c] # None
      PROVE  ConnsOwned'
  <2>1. \A c : Places(c)' <=> Places(c)
    BY <1>1 DEF Places
  <2>2. Numbered'
    BY <1>1, <1>o DEF Numbered
  <2> QED BY <1>1, <1>o, <2>1, <2>2, OwnedIsNext
<1>2. ASSUME UNCHANGED <<fd, open, number, leaked, listenVars, registered>>, ready' \subseteq ready
      PROVE  ConnsOwned'
  BY <1>1, <1>2, <1>o DEF listenVars
<1>3. ASSUME Accept \/ ListenStep PROVE ConnsOwned'
  <2>1. CASE Accept
    <3>1. PICK c \in backlog, n \in Fds :
            /\ NextFd(n)
            /\ open' = open \cup {c}
            /\ number' = [number EXCEPT ![c] = n]
            /\ \/ lpc' = "pop" /\ lfd' = c /\ leaked' = leaked
               \/ lpc' = "accept" /\ lfd' = None /\ leaked' = leaked \cup {c}
      BY <2>1 DEF Accept
    <3>2. lpc = "accept" /\ UNCHANGED <<fd, epollVars>>
      BY <2>1 DEF Accept, sessVars
    <3>3. \A x : Places(x)' <=> Places(x) \/ x = c
      BY <3>1, <3>2 DEF Places
    <3>4. /\ c \in Conns /\ c \notin open /\ n # None
          /\ \A d \in open : number[d] # n /\ number'[d] = number[d]
          /\ number'[c] = n
      <4>1. c \in Conns /\ c \notin open /\ n # None
        BY <1>0, <1>t, SessionAssumption DEF ListenInv, FdTypes
      <4>2. \A d \in open : d \in Conns /\ number[d] # n
        BY <1>t, <3>1 DEF NextFd, FreeFds, FdTypes
      <4> QED BY <1>t, <3>1, <4>1, <4>2 DEF NumberTypes
    <3>5. Numbered'
      BY <1>o, <3>1, <3>4 DEF Numbered
    <3> QED BY <1>o, <3>1, <3>2, <3>3, <3>5, OwnedIsNext DEF epollVars
  <2>2. CASE Pop
    <3>1. /\ lpc = "pop" /\ lpc' = "fd" /\ UNCHANGED <<fd, open, number, leaked, lfd, epollVars>>
      BY <2>2 DEF Pop, sessVars, tcpVars, histVars
    <3> QED BY <1>1, <1>o, <3>1 DEF epollVars
  <2>3. CASE SetFd
    <3>1. /\ lpc = "fd" /\ lpc' = "init" /\ fd' = [fd EXCEPT ![lsession] = lfd]
          /\ UNCHANGED <<open, number, leaked, epollVars>>
      BY <2>3 DEF SetFd, tcpVars, histVars
    <3>2. /\ lfd \in open /\ fd[lsession] = None /\ lfd \in Conns /\ lfd # None
          /\ \A s \in Sessions : fd[s] # lfd
      <4>1. lfd \in open /\ fd[lsession] = None /\ lfd # None
        BY <1>0, <3>1 DEF ListenInv
      <4>2. lfd \in Conns
        BY <1>t, <4>1 DEF FdTypes
      <4> QED BY <1>0, <3>1, <4>1, <4>2, NotMet
    <3>3. /\ fd'[lsession] = lfd /\ lsession \in Sessions
          /\ \A s \in Sessions : s # lsession => fd'[s] = fd[s]
      BY <1>t, <3>1 DEF FdTypes, ListenTypes
    <3>4. \A c : Places(c)' <=> Places(c)
      BY <3>1, <3>2, <3>3 DEF Places
    <3>5. Numbered'
      BY <1>o, <3>1 DEF Numbered
    <3> QED BY <1>o, <3>1, <3>2, <3>3, <3>4, <3>5, OwnedIsNext DEF epollVars
  <2>4. CASE InitBuffer \/ SetReactor \/ Count \/ OnEnter
    <3>1. /\ lpc \notin {"pop", "fd"} /\ lpc' \notin {"pop", "fd"}
          /\ UNCHANGED <<fd, open, number, leaked, epollVars>>
      BY <2>4 DEF InitBuffer, SetReactor, Count, OnEnter, sessVars, tcpVars, histVars
    <3> QED BY <1>1, <1>o, <3>1 DEF epollVars
  <2>5. CASE AddEvent
    <3>1. /\ lpc \notin {"pop", "fd"} /\ lpc' \notin {"pop", "fd"}
          /\ UNCHANGED <<fd, open, number, leaked>>
      BY <2>5 DEF AddEvent, sessVars, tcpVars, histVars
    <3>2. [reactor |-> lreactor, session |-> lsession] # None
      BY <1>t, SessionAssumption DEF ListenTypes, Reactors, Sessions
    <3>3. \/ UNCHANGED epollVars
          \/ /\ registered' = [registered EXCEPT
                                 ![lfd] = [reactor |-> lreactor, session |-> lsession]]
             /\ lfd \in Conns /\ ready' \subseteq ready \cup {lfd}
      BY <1>t, <2>5 DEF AddEvent, FdTypes
    <3>4. \A c \in ready' : registered'[c] # None
      BY <1>o, <1>t, <3>2, <3>3 DEF epollVars, EpollTypes
    <3> QED BY <1>1, <3>1, <3>4
  <2> QED
    BY <1>3, <2>1, <2>2, <2>3, <2>4, <2>5 DEF ListenStep
<1>4. ASSUME NEW s \in Sessions, NEW q, NEW by, Closes(s, q, by)
      PROVE  ConnsOwned'
  <2>1. UNCHANGED <<listenVars, leaked, number>>
    BY <1>4 DEF Closes
  <2>2. CASE ~IsOpen(s)
    <3>1. UNCHANGED <<fd, open, epollVars>>
      BY <1>4, <2>2 DEF Closes, CloseSession
    <3> QED BY <1>2, <2>1, <3>1 DEF epollVars
  <2>3. CASE IsOpen(s)
    <3> DEFINE c == fd[s]
    <3>1. /\ fd' = [fd EXCEPT ![s] = None] /\ open' = open \ {c}
          /\ registered' = [d \in Conns |-> IF d = c THEN None ELSE registered[d]]
          /\ ready' = ready \ {c}
      BY <1>4, <2>3 DEF Closes, CloseSession, Closed
    <3>2. /\ c \in Conns /\ c # None /\ c \notin leaked
          /\ ~(lpc \in {"pop", "fd"} /\ lfd = c)
      BY <1>0, <1>t, <2>3, NotMet DEF IsOpen, FdTypes
    <3>3. /\ fd'[s] = None
          /\ \A p \in Sessions : p # s => fd'[p] = fd[p] /\ (fd[p] # None => fd[p] # c)
      BY <1>o, <1>t, <3>1, <3>2 DEF FdTypes
    <3> HIDE DEF c
    <3>4. \A d : Places(d)' <=> Places(d) /\ d # c
      <4>1. fd[s] = c
        BY DEF c
      <4> QED BY <2>1, <3>2, <3>3, <4>1 DEF Places, listenVars
    <3>5. \A d \in ready' : registered'[d] # None
      BY <1>o, <1>t, <3>1 DEF EpollTypes
    <3>6. Numbered'
      BY <1>o, <2>1, <3>1 DEF Numbered
    <3> QED BY <1>o, <3>1, <3>3, <3>4, <3>5, <3>6, OwnedIsNext
  <2> QED BY <2>2, <2>3
<1>5. ASSUME NEW c \in Conns, Arrive(c) \/ HalfClose(c) PROVE ConnsOwned'
  <2>1. UNCHANGED <<fd, open, number, leaked, listenVars, registered>>
    BY <1>5, ClientFrame DEF sessVars, histVars
  <2>2. ready' = Edge(c)
    BY <1>5 DEF Arrive, HalfClose
  <2>3. \A d \in ready' : registered'[d] # None
    BY <1>o, <2>1, <2>2 DEF Edge
  <2> QED BY <1>1, <2>1, <2>3 DEF listenVars
<1>6. ASSUME BeginClose PROVE ConnsOwned'
  BY <1>2, <1>6 DEF BeginClose, sessVars, tcpVars, histVars, epollVars
<1>7. ASSUME Close PROVE ConnsOwned'
  BY <1>t, <1>4, <1>7, CloseFrame
<1>8. ASSUME NEW r \in Reactors, CloseInCallback(r) PROVE ConnsOwned'
  BY <1>t, <1>4, <1>8, CallbackFrame
<1>9. ASSUME NEW r \in Reactors, ReactorStep(r) PROVE ConnsOwned'
  BY <1>2, <1>9, ReactorFrame
<1>10. ASSUME UNCHANGED vars PROVE ConnsOwned'
  BY <1>2, <1>10 DEF vars, sessVars, tcpVars, histVars, epollVars
<1> QED
  BY <1>3, <1>5, <1>6, <1>7, <1>8, <1>9, <1>10 DEF Next

-----------------------------------------------------------------------------
(***************************************************************************)
(* One session for a connection.                                           *)
(***************************************************************************)
Unmet(c) == c \in backlog \cup leaked \/ (lpc \in {"pop", "fd"} /\ lfd = c)

LEMMA OneIsNext ==
  ASSUME \A c \in Conns : /\ Unmet(c)' => \A s \in Sessions : ~Meets(s, c)'
                          /\ \A s, q \in Sessions : Meets(s, c)' /\ Meets(q, c)' => s = q
  PROVE  OneSession'
  BY DEF OneSession, Unmet

\* A reactor's step is its own.
LEMMA OthersKept ==
  ASSUME StepTypes, LocalTypes, CallTypes, NEW r \in Reactors, ReactorStep(r),
         NEW q \in Reactors, q # r
  PROVE  /\ rpc'[q] = rpc[q] /\ batch'[q] = batch[q] /\ cur'[q] = cur[q]
         /\ received'[q] = received[q] /\ proc_begin'[q] = proc_begin[q]
         /\ proc_len'[q] = proc_len[q] /\ call'[q] = call[q]
<1> USE DEF StepTypes, LocalTypes, CallTypes
<1>1. CASE EpollWait(r) \/ NextEvent(r) \/ Lock(r)
  BY <1>1 DEF EpollWait, NextEvent, Lock
<1>2. CASE BufferFull(r) \/ CallRecv(r)
  BY <1>2 DEF BufferFull, CallRecv
<1>3. CASE \E c \in Conns : RecvBytes(r, c)
  BY <1>3 DEF RecvBytes, Returns
<1>4. CASE RecvEnds(r) \/ RecvNothing(r)
  BY <1>4 DEF RecvEnds, RecvNothing, Returns
<1>5. CASE RecvBlocks(r)
  BY <1>5 DEF RecvBlocks
<1>6. CASE OnClose(r) \/ EndOnClose(r) \/ OnRecved(r) \/ EndOnRecved(r)
  BY <1>6 DEF OnClose, EndOnClose, OnRecved, EndOnRecved
<1>7. CASE Again(r)
  BY <1>7 DEF Again
<1> QED
  BY <1>1, <1>2, <1>3, <1>4, <1>5, <1>6, <1>7 DEF ReactorStep

LEMMA OneKept ==
  ASSUME SessionInv, [Next]_vars
  PROVE  OneSession'
<1>0. TypeParts /\ ListenInv /\ OneSession
  BY TypesOfParts DEF SessionInv
<1>t. /\ FdTypes /\ ListenTypes
      /\ asession \in Sessions /\ \A r \in Reactors : cur[r] \in Sessions
  BY <1>0 DEF TypeParts, AppTypes, StepTypes
<1>n. None \notin Conns
  BY SessionAssumption
<1>1. ASSUME \A s \in Sessions, c \in Conns : Meets(s, c)' => Meets(s, c),
             \A c \in Conns : Unmet(c)' => Unmet(c)
      PROVE  OneSession'
  <2>1. \A c \in Conns : /\ Unmet(c) => \A s \in Sessions : ~Meets(s, c)
                         /\ \A s, q \in Sessions : Meets(s, c) /\ Meets(q, c) => s = q
    BY <1>0 DEF OneSession, Unmet
  <2> QED BY <1>1, <2>1, OneIsNext
<1>2. ASSUME UNCHANGED <<fd, entered, listenVars, backlog, leaked>>
      PROVE  OneSession'
  <2>1. \A s \in Sessions, c \in Conns : Meets(s, c)' => Meets(s, c)
    BY <1>2 DEF Meets, listenVars
  <2>2. \A c \in Conns : Unmet(c)' => Unmet(c)
    BY <1>2 DEF Unmet, listenVars
  <2> QED BY <1>1, <2>1, <2>2
<1>3. ASSUME Accept \/ ListenStep PROVE OneSession'
  <2>1. CASE Accept
    <3>1. PICK c \in backlog :
            /\ backlog' = backlog \ {c}
            /\ \/ lpc' = "pop" /\ lfd' = c /\ leaked' = leaked
               \/ lpc' = "accept" /\ lfd' = None /\ leaked' = leaked \cup {c}
      BY <2>1 DEF Accept
    <3>2. lpc = "accept" /\ UNCHANGED <<fd, entered>>
      BY <2>1 DEF Accept, sessVars
    <3>3. \A s \in Sessions, d \in Conns : Meets(s, d)' => Meets(s, d)
      BY <3>1, <3>2 DEF Meets, Given
    <3>4. \A d \in Conns : Unmet(d)' => Unmet(d)
      BY <3>1, <3>2 DEF Unmet
    <3> QED BY <1>1, <3>3, <3>4
  <2>2. CASE Pop
    <3>1. /\ lpc = "pop" /\ lpc' = "fd" /\ UNCHANGED <<fd, entered, leaked, backlog, lfd>>
      BY <2>2 DEF Pop, sessVars, tcpVars, histVars
    <3>2. \A s \in Sessions, c \in Conns : Meets(s, c)' => Meets(s, c)
      BY <3>1 DEF Meets, Given
    <3>3. \A c \in Conns : Unmet(c)' => Unmet(c)
      BY <3>1 DEF Unmet
    <3> QED BY <1>1, <3>2, <3>3
  <2>3. CASE SetFd
    <3>1. /\ lpc = "fd" /\ lpc' = "init" /\ fd' = [fd EXCEPT ![lsession] = lfd]
          /\ UNCHANGED <<entered, leaked, backlog, lfd, lsession>>
      BY <2>3 DEF SetFd, tcpVars, histVars
    <3>2. lfd \in Conns /\ lfd \notin backlog \cup leaked /\ lsession \in Sessions
      BY <1>0, <1>t, <3>1 DEF ListenInv, FdTypes, ListenTypes
    <3>3. \A s \in Sessions : ~Meets(s, lfd)
      BY <1>0, <3>1, <3>2 DEF OneSession
    <3>4. \A s \in Sessions, c \in Conns :
            Meets(s, c)' => Meets(s, c) \/ (s = lsession /\ c = lfd)
      BY <1>t, <3>1 DEF Meets, FdTypes
    <3>5. \A c \in Conns : Unmet(c)' => Unmet(c) /\ c # lfd
      BY <3>1, <3>2 DEF Unmet
    <3>6. \A c \in Conns : /\ Unmet(c) => \A s \in Sessions : ~Meets(s, c)
                           /\ \A s, q \in Sessions : Meets(s, c) /\ Meets(q, c) => s = q
      BY <1>0 DEF OneSession, Unmet
    <3>7. ASSUME NEW c \in Conns
          PROVE  /\ Unmet(c)' => \A s \in Sessions : ~Meets(s, c)'
                 /\ \A s, q \in Sessions : Meets(s, c)' /\ Meets(q, c)' => s = q
      <4>1. CASE c = lfd
        BY <3>3, <3>4, <3>5, <4>1
      <4>2. CASE c # lfd
        BY <3>4, <3>5, <3>6, <4>2
      <4> QED BY <4>1, <4>2
    <3> QED BY <3>7, OneIsNext
  <2>4. CASE InitBuffer \/ SetReactor \/ Count
    <3>1. /\ lpc \in Given /\ lpc' \in Given
          /\ UNCHANGED <<fd, entered, leaked, backlog, lfd, lsession>>
      BY <2>4 DEF InitBuffer, SetReactor, Count, Given, sessVars, tcpVars, histVars
    <3>2. \A s \in Sessions, c \in Conns : Meets(s, c)' => Meets(s, c)
      BY <3>1 DEF Meets
    <3>3. \A c \in Conns : Unmet(c)' => Unmet(c)
      BY <3>1 DEF Unmet, Given
    <3> QED BY <1>1, <3>2, <3>3
  <2>5. CASE OnEnter
    <3>1. /\ lpc \in Given /\ lpc' = "add" /\ entered' = [entered EXCEPT ![lsession] = lfd]
          /\ UNCHANGED <<fd, leaked, backlog, lfd, lsession>>
      BY <2>5 DEF OnEnter, Given, sessVars, tcpVars
    <3>2. \A s \in Sessions : entered'[s] = IF s = lsession THEN lfd ELSE entered[s]
      BY <1>t, <3>1 DEF FdTypes
    <3>3. \A s \in Sessions, c \in Conns : Meets(s, c)' => Meets(s, c)
      BY <3>1, <3>2 DEF Meets
    <3>4. \A c \in Conns : Unmet(c)' => Unmet(c)
      BY <3>1 DEF Unmet
    <3> QED BY <1>1, <3>3, <3>4
  <2>6. CASE AddEvent
    <3>1. lpc' = "accept" /\ UNCHANGED <<fd, entered, leaked, backlog>>
      BY <2>6 DEF AddEvent, sessVars, tcpVars, histVars
    <3>2. \A s \in Sessions, c \in Conns : Meets(s, c)' => Meets(s, c)
      BY <3>1 DEF Meets, Given
    <3>3. \A c \in Conns : Unmet(c)' => Unmet(c)
      BY <3>1 DEF Unmet
    <3> QED BY <1>1, <3>2, <3>3
  <2> QED
    BY <1>3, <2>1, <2>2, <2>3, <2>4, <2>5, <2>6 DEF ListenStep
<1>4. ASSUME NEW s \in Sessions, NEW q, NEW by, Closes(s, q, by)
      PROVE  OneSession'
  <2>1. UNCHANGED <<entered, listenVars, backlog, leaked>>
    BY <1>4 DEF Closes
  <2>2. \A p \in Sessions : fd'[p] = fd[p] \/ fd'[p] = None
    BY <1>4, <1>t DEF Closes, CloseSession, FdTypes
  <2>3. \A p \in Sessions, c \in Conns : Meets(p, c)' => Meets(p, c)
    BY <1>n, <2>1, <2>2 DEF Meets, listenVars
  <2>4. \A c \in Conns : Unmet(c)' => Unmet(c)
    BY <2>1 DEF Unmet, listenVars
  <2> QED BY <1>1, <2>3, <2>4
<1>5. ASSUME NEW c \in Conns, Arrive(c) \/ HalfClose(c) PROVE OneSession'
  BY <1>2, <1>5, ClientFrame DEF sessVars, histVars
<1>6. ASSUME BeginClose PROVE OneSession'
  BY <1>2, <1>6 DEF BeginClose, sessVars, tcpVars, histVars
<1>7. ASSUME Close PROVE OneSession'
  BY <1>t, <1>4, <1>7, CloseFrame
<1>8. ASSUME NEW r \in Reactors, CloseInCallback(r) PROVE OneSession'
  BY <1>t, <1>4, <1>8, CallbackFrame
<1>9. ASSUME NEW r \in Reactors, ReactorStep(r) PROVE OneSession'
  BY <1>2, <1>9, ReactorFrame
<1>10. ASSUME UNCHANGED vars PROVE OneSession'
  BY <1>2, <1>10 DEF vars, sessVars, tcpVars, histVars
<1> QED
  BY <1>3, <1>5, <1>6, <1>7, <1>8, <1>9, <1>10 DEF Next

-----------------------------------------------------------------------------
(***************************************************************************)
(* The connection in the listen thread's hands, and those with epoll.      *)
(***************************************************************************)
Handed ==
  /\ backlog \cap open = {} /\ leaked \subseteq open
  /\ lpc = "accept" <=> lfd = None
  /\ lpc \in {"pop", "fd"} => lfd \in open \ leaked
  /\ lpc = "fd" => fd[lsession] = None
  /\ lpc \in Given => fd[lsession] = IF lfd \in open THEN lfd ELSE None
  /\ lpc \in Given \ {"add"} => entered[lsession] # lfd
  /\ lpc = "add" => entered[lsession] = lfd
WithEpoll(c) ==
  registered[c] # None => fd[registered[c].session] = c /\ entered[registered[c].session] = c

LEMMA ListenIs == ListenInv <=> Handed /\ \A c \in Conns : WithEpoll(c)
  BY DEF ListenInv, Handed, WithEpoll

LEMMA ListenIsNext == ListenInv' <=> Handed' /\ \A c \in Conns : WithEpoll(c)'
  BY DEF ListenInv, Handed, WithEpoll

LEMMA ListenKept ==
  ASSUME SessionInv, [Next]_vars
  PROVE  ListenInv'
<1>0. /\ TypeParts /\ OneSession /\ FreeListExact /\ Handed
      /\ \A c \in Conns : WithEpoll(c)
  BY TypesOfParts, ListenIs DEF SessionInv
<1>t. /\ FdTypes /\ ListenTypes /\ EpollTypes /\ FreeTypes
      /\ asession \in Sessions /\ \A r \in Reactors : cur[r] \in Sessions
  BY <1>0 DEF TypeParts, AppTypes, StepTypes
<1>n. None \notin Conns
  BY SessionAssumption
<1>s. \A c \in Conns : registered[c] # None => registered[c].session \in Sessions
  BY <1>t DEF EpollTypes
<1>2. ASSUME UNCHANGED <<fd, entered, listenVars, open, backlog, leaked, registered>>
      PROVE  ListenInv'
  <2>1. Handed'
    BY <1>0, <1>2 DEF Handed, listenVars
  <2>2. \A c \in Conns : WithEpoll(c)'
    BY <1>0, <1>2 DEF WithEpoll
  <2> QED BY <2>1, <2>2, ListenIsNext
<1>3. ASSUME Accept \/ ListenStep PROVE ListenInv'
  <2>0. ASSUME UNCHANGED <<fd, entered, registered>> PROVE \A c \in Conns : WithEpoll(c)'
    BY <1>0, <2>0 DEF WithEpoll
  <2>1. CASE Accept
    <3>1. PICK c \in backlog :
            /\ backlog' = backlog \ {c} /\ open' = open \cup {c}
            /\ \/ lpc' = "pop" /\ lfd' = c /\ leaked' = leaked
               \/ lpc' = "accept" /\ lfd' = None /\ leaked' = leaked \cup {c}
      BY <2>1 DEF Accept
    <3>2. UNCHANGED <<fd, entered, registered>>
      BY <2>1 DEF Accept, sessVars, epollVars
    <3>3. c \notin open /\ c \notin leaked /\ c # None
      BY <1>0, <1>t, <1>n DEF Handed, FdTypes
    <3>4. Handed'
      BY <1>0, <3>1, <3>3 DEF Handed, Given
    <3> QED BY <2>0, <3>2, <3>4, ListenIsNext
  <2>2. CASE Pop
    <3>1. /\ lpc = "pop" /\ lpc' = "fd" /\ freelist # <<>>
          /\ lsession' = freelist[Len(freelist)]
          /\ UNCHANGED <<fd, entered, open, backlog, leaked, lfd, registered>>
      BY <2>2 DEF Pop, sessVars, tcpVars, histVars, epollVars
    <3>2. lsession' \in Free
      <4>1. Len(freelist) \in 1 .. Len(freelist)
        BY <1>t, <3>1, EmptySeq DEF FreeTypes
      <4> QED BY <3>1, <4>1 DEF Free
    <3>3. fd[lsession'] = None
      <4>1. lsession' \in Sessions
        BY <3>2, <1>t DEF Free, FreeTypes
      <4> QED BY <1>0, <3>2, <4>1 DEF FreeListExact
    <3>4. Handed'
      BY <1>0, <3>1, <3>3 DEF Handed, Given
    <3> QED BY <2>0, <3>1, <3>4, ListenIsNext
  <2>3. CASE SetFd
    <3>1. /\ lpc = "fd" /\ lpc' = "init" /\ fd' = [fd EXCEPT ![lsession] = lfd]
          /\ UNCHANGED <<entered, open, leaked, backlog, lfd, lsession, registered>>
      BY <2>3 DEF SetFd, tcpVars, histVars, epollVars
    <3>2. /\ lfd \in open /\ lfd \in Conns /\ lsession \in Sessions /\ fd[lsession] = None
      BY <1>0, <1>t, <3>1 DEF Handed, FdTypes, ListenTypes
    <3>3. entered[lsession] # lfd
      BY <1>0, <3>1, <3>2, NotMet
    <3>4. \A p \in Sessions : fd'[p] = IF p = lsession THEN lfd ELSE fd[p]
      BY <1>t, <3>1 DEF FdTypes
    <3>5. Handed'
      BY <1>0, <3>1, <3>2, <3>3, <3>4 DEF Handed, Given
    <3>6. \A c \in Conns : WithEpoll(c)'
      BY <1>0, <1>n, <1>s, <3>1, <3>2, <3>4 DEF WithEpoll
    <3> QED BY <3>5, <3>6, ListenIsNext
  <2>4. CASE InitBuffer \/ SetReactor \/ Count
    <3>1. /\ lpc \in Given \ {"add"} /\ lpc' \in Given \ {"add"}
          /\ UNCHANGED <<fd, entered, open, leaked, backlog, lfd, lsession, registered>>
      BY <2>4 DEF InitBuffer, SetReactor, Count, Given, sessVars, tcpVars, histVars, epollVars
    <3>2. Handed'
      BY <1>0, <3>1 DEF Handed, Given
    <3> QED BY <2>0, <3>1, <3>2, ListenIsNext
  <2>5. CASE OnEnter
    <3>1. /\ lpc = "enter" /\ lpc' = "add" /\ entered' = [entered EXCEPT ![lsession] = lfd]
          /\ UNCHANGED <<fd, open, leaked, backlog, lfd, lsession, registered>>
      BY <2>5 DEF OnEnter, sessVars, tcpVars, epollVars
    <3>2. lsession \in Sessions /\ entered[lsession] # lfd
          /\ fd[lsession] = IF lfd \in open THEN lfd ELSE None
      BY <1>0, <1>t, <3>1 DEF Handed, ListenTypes, Given
    <3>3. \A p \in Sessions : entered'[p] = IF p = lsession THEN lfd ELSE entered[p]
      BY <1>t, <3>1 DEF FdTypes
    <3>4. Handed'
      BY <1>0, <3>1, <3>2, <3>3 DEF Handed, Given
    <3>5. \A c \in Conns : WithEpoll(c)'
      BY <1>0, <1>n, <1>s, <3>1, <3>2, <3>3 DEF WithEpoll
    <3> QED BY <3>4, <3>5, ListenIsNext
  <2>6. CASE AddEvent
    <3>1. /\ lpc = "add" /\ lpc' = "accept" /\ lfd' = None
          /\ UNCHANGED <<fd, entered, open, leaked, backlog>>
      BY <2>6 DEF AddEvent, sessVars, tcpVars, histVars
    <3>2. Handed'
      BY <1>0, <3>1 DEF Handed, Given
    <3>3. CASE lfd \in open
      <4> DEFINE w == [reactor |-> lreactor, session |-> lsession]
      <4>1. registered' = [registered EXCEPT ![lfd] = w]
        BY <2>6, <3>3 DEF AddEvent
      <4>2. w.session = lsession
        OBVIOUS
      <4> HIDE DEF w
      <4>3. fd[lsession] = lfd /\ entered[lsession] = lfd
        BY <1>0, <3>1, <3>3 DEF Handed, Given
      <4>4. \A c \in Conns : registered'[c] = IF c = lfd THEN w ELSE registered[c]
        BY <1>t, <4>1 DEF EpollTypes
      <4>5. \A c \in Conns : WithEpoll(c)'
        BY <1>0, <3>1, <4>2, <4>3, <4>4 DEF WithEpoll
      <4> QED BY <3>2, <4>5, ListenIsNext
    <3>4. CASE lfd \notin open
      <4>1. UNCHANGED registered
        BY <2>6, <3>4 DEF AddEvent, epollVars
      <4> QED BY <2>0, <3>1, <3>2, <4>1, ListenIsNext
    <3> QED BY <3>3, <3>4
  <2> QED
    BY <1>3, <2>1, <2>2, <2>3, <2>4, <2>5, <2>6 DEF ListenStep
<1>4. ASSUME NEW s \in Sessions, NEW q, NEW by, Closes(s, q, by)
      PROVE  ListenInv'
  <2>1. UNCHANGED <<entered, listenVars, backlog, leaked>>
    BY <1>4 DEF Closes
  <2>2. CASE ~IsOpen(s)
    <3>1. UNCHANGED <<fd, open, registered>>
      BY <1>4, <2>2 DEF Closes, CloseSession, epollVars
    <3> QED BY <1>2, <2>1, <3>1
  <2>3. CASE IsOpen(s)
    <3> DEFINE k == fd[s]
    <3>1. /\ fd' = [fd EXCEPT ![s] = None] /\ open' = open \ {k}
          /\ registered' = [d \in Conns |-> IF d = k THEN None ELSE registered[d]]
      BY <1>4, <2>3 DEF Closes, CloseSession, Closed
    <3>2. /\ k \in Conns /\ k # None /\ k \notin leaked
          /\ ~(lpc \in {"pop", "fd"} /\ lfd = k)
      BY <1>0, <1>t, <2>3, NotMet DEF IsOpen, FdTypes
    <3>3. \A p \in Sessions : fd'[p] = IF p = s THEN None ELSE fd[p]
      BY <1>t, <3>1 DEF FdTypes
    <3>4. lpc \in Given /\ lfd = k => s = lsession
      BY <1>0, <1>t, <3>2 DEF OneSession, Meets, ListenTypes
    <3>5. Handed'
      <4>1. /\ backlog \cap open' = {} /\ leaked \subseteq open'
            /\ lpc \in {"pop", "fd"} => lfd \in open' \ leaked
        BY <1>0, <3>1, <3>2 DEF Handed
      <4>2. lpc = "fd" => fd'[lsession] = None
        BY <1>0, <1>t, <3>3 DEF Handed, ListenTypes
      <4>3. lpc \in Given => fd'[lsession] = IF lfd \in open' THEN lfd ELSE None
        <5>1. SUFFICES ASSUME lpc \in Given
                       PROVE  fd'[lsession] = IF lfd \in open' THEN lfd ELSE None
          OBVIOUS
        <5>2. fd[lsession] = IF lfd \in open THEN lfd ELSE None
          BY <1>0, <5>1 DEF Handed
        <5>3. CASE s = lsession
          BY <2>3, <3>1, <3>3, <5>2, <5>3 DEF IsOpen
        <5>4. CASE s # lsession
          <6>1. lfd # k
            BY <3>4, <5>1, <5>4
          <6> QED BY <1>t, <3>1, <3>3, <5>2, <5>4, <6>1 DEF ListenTypes
        <5> QED BY <5>3, <5>4
      <4> QED BY <1>0, <2>1, <4>1, <4>2, <4>3 DEF Handed, listenVars
    <3>6. \A c \in Conns : WithEpoll(c)'
      BY <1>0, <1>s, <2>1, <3>1, <3>2, <3>3 DEF WithEpoll
    <3> QED BY <3>5, <3>6, ListenIsNext
  <2> QED BY <2>2, <2>3
<1>5. ASSUME NEW c \in Conns, Arrive(c) \/ HalfClose(c) PROVE ListenInv'
  BY <1>2, <1>5, ClientFrame DEF sessVars, histVars
<1>6. ASSUME BeginClose PROVE ListenInv'
  BY <1>2, <1>6 DEF BeginClose, sessVars, tcpVars, histVars, epollVars
<1>7. ASSUME Close PROVE ListenInv'
  BY <1>t, <1>4, <1>7, CloseFrame
<1>8. ASSUME NEW r \in Reactors, CloseInCallback(r) PROVE ListenInv'
  BY <1>t, <1>4, <1>8, CallbackFrame
<1>9. ASSUME NEW r \in Reactors, ReactorStep(r) PROVE ListenInv'
  BY <1>2, <1>9, ReactorFrame
<1>10. ASSUME UNCHANGED vars PROVE ListenInv'
  BY <1>2, <1>10 DEF vars, sessVars, tcpVars, histVars, epollVars
<1> QED
  BY <1>3, <1>5, <1>6, <1>7, <1>8, <1>9, <1>10 DEF Next

-----------------------------------------------------------------------------
(***************************************************************************)
(* The handlers.                                                           *)
(***************************************************************************)
HandlerOf(r) ==
  /\ proc_begin[r] => rpc[r] \in {"on_recved", "in_recved", "again"}
  /\ proc_len[r] # 0 => rpc[r] = "in_recved"
  /\ rpc[r] \in {"call", "blocked"} => call[r] \in CallType
  /\ rpc[r] = "blocked" => cur[r] \in tainted
CallFor(c, b) == [conn |-> c, pos |-> b.write_pos, room |-> WriteValid(b)]
CallOf(r) ==
  rpc[r] = "call" /\ cur[r] \notin tainted => call[r] = CallFor(fd[cur[r]], recv_buffer[cur[r]])
HoldsOf(r, s) == recv_mutex[s] = r <=> cur[r] = s /\ rpc[r] \in Handling
WorksOf(r, s) == s \notin tainted /\ Working(r, s) => Live(s)

LEMMA HandlerIs ==
  HandlerInv <=> \A r \in Reactors : /\ HandlerOf(r) /\ CallOf(r)
                                     /\ \A s \in Sessions : HoldsOf(r, s) /\ WorksOf(r, s)
  BY DEF HandlerInv, HandlerOf, CallOf, CallFor, HoldsOf, WorksOf

LEMMA HandlerIsNext ==
  HandlerInv' <=> \A r \in Reactors : /\ HandlerOf(r)' /\ CallOf(r)'
                                      /\ \A s \in Sessions : HoldsOf(r, s)' /\ WorksOf(r, s)'
  BY DEF HandlerInv, HandlerOf, CallOf, CallFor, HoldsOf, WorksOf

\* The listen thread works on sessions that are not live, and keeps them apart
\* from those that are.
LEMMA LiveKept ==
  ASSUME SessionInv, Accept \/ ListenStep, NEW s \in Sessions, Live(s)
  PROVE  fd'[s] = fd[s] /\ entered'[s] = entered[s]
<1>0. TypeParts /\ Handed
  BY TypesOfParts, ListenIs DEF SessionInv
<1>t. FdTypes /\ ListenTypes
  BY <1>0 DEF TypeParts
<1>1. CASE SetFd
  <2>1. fd[lsession] = None /\ fd' = [fd EXCEPT ![lsession] = lfd] /\ UNCHANGED entered
    BY <1>0, <1>1 DEF SetFd, Handed, histVars
  <2> QED BY <1>t, <2>1 DEF Live, FdTypes
<1>2. CASE OnEnter
  <2>1. /\ lpc = "enter" /\ entered' = [entered EXCEPT ![lsession] = lfd] /\ UNCHANGED fd
    BY <1>2 DEF OnEnter, sessVars
  <2>2. entered[lsession] # lfd /\ fd[lsession] = IF lfd \in open THEN lfd ELSE None
    BY <1>0, <2>1 DEF Handed, Given
  <2> QED BY <1>t, <2>1, <2>2 DEF Live, FdTypes
<1>3. CASE Accept \/ Pop \/ InitBuffer \/ SetReactor \/ Count \/ AddEvent
  BY <1>3 DEF Accept, Pop, InitBuffer, SetReactor, Count, AddEvent, sessVars, histVars
<1> QED
  BY <1>1, <1>2, <1>3 DEF ListenStep

\* The recv of a handler whose session was not closed under it finds the session's
\* connection: that is open, and no other has its number.
LEMMA ReachedOwn ==
  ASSUME SessionInv, NEW r \in Reactors, InRecv(r), cur[r] \notin tainted
  PROVE  /\ rpc[r] = "call" /\ Live(cur[r]) /\ fd[cur[r]] \in Conns
         /\ call[r] = CallFor(fd[cur[r]], recv_buffer[cur[r]])
         /\ Reached(r) = {fd[cur[r]]}
<1> DEFINE s == cur[r]
           c == fd[s]
<1>0. TypeParts /\ HandlerOf(r) /\ CallOf(r) /\ WorksOf(r, s) /\ s \in Sessions
  BY TypesOfParts, HandlerIs DEF SessionInv, TypeParts, StepTypes
<1>1. rpc[r] = "call"
  BY <1>0 DEF HandlerOf, InRecv
<1>2. Live(s) /\ c \in Conns /\ c # None
  <2>1. Live(s)
    BY <1>0, <1>1 DEF WorksOf, Working
  <2> QED BY <1>0, <2>1 DEF Live, TypeParts, FdTypes
<1>3. call[r] = CallFor(c, recv_buffer[s])
  BY <1>0, <1>1 DEF CallOf
<1>4. call[r].conn = c
  BY <1>3 DEF CallFor
<1>5. c \in open /\ Numbered
  BY <1>0, <1>2, OwnedIs DEF SessionInv
<1> HIDE DEF s, c
<1>6. Reached(r) = {c}
  BY <1>1, <1>2, <1>4, <1>5 DEF Reached, Numbered
<1> QED
  BY <1>1, <1>2, <1>3, <1>6 DEF s, c

\* A recv blocks only with a handler that outlived its session's connection.
LEMMA BlocksTainted ==
  ASSUME SessionInv, NEW r \in Reactors, RecvBlocks(r)
  PROVE  cur[r] \in tainted
<1> SUFFICES ASSUME cur[r] \notin tainted PROVE FALSE
  OBVIOUS
<1> DEFINE s == cur[r]
<1>0. TypeParts /\ OneSession /\ Handed
  BY TypesOfParts, ListenIs DEF SessionInv
<1>1. s \in Sessions /\ lsession \in Sessions
  BY <1>0 DEF TypeParts, StepTypes, ListenTypes
<1>2. Live(s) /\ fd[s] \in Conns /\ Reached(r) = {fd[s]}
  BY ReachedOwn DEF RecvBlocks, InRecv
<1>3. Blocking(fd[s]) \/ fd[s] \in leaked
  BY <1>2 DEF RecvBlocks
<1>4. ~(fd[s] \in leaked \/ (lpc \in {"pop", "fd"} /\ lfd = fd[s]))
  BY <1>0, <1>1, <1>2, NotMet
<1>5. lfd = fd[s] /\ lpc \in {"init", "reactor"}
  BY <1>3, <1>4 DEF Blocking
<1>6. s = lsession
  <2>1. Meets(s, lfd) /\ Meets(lsession, lfd) /\ lfd \in Conns
    BY <1>1, <1>2, <1>5 DEF Meets, Given
  <2> QED BY <1>0, <1>1, <2>1 DEF OneSession
<1>7. entered[s] # fd[s]
  BY <1>0, <1>5, <1>6 DEF Handed, Given
<1> QED
  BY <1>2, <1>7 DEF Live

\* What a step of a reactor's makes of its own locals.
LEMMA HandlerStep ==
  ASSUME SessionInv, NEW r \in Reactors, ReactorStep(r)
  PROVE  /\ HandlerOf(r)' /\ CallOf(r)'
         /\ \A s \in Sessions : HoldsOf(r, s)'
         /\ \A s \in Sessions : s \notin tainted /\ Working(r, s)' => Working(r, s) \/ Live(s)
         /\ \A s \in Sessions : recv_mutex'[s] = recv_mutex[s]
              \/ {recv_mutex[s], recv_mutex'[s]} = {r, None}
<1>0. TypeParts /\ ConnsOwned /\ \A c \in Conns : WithEpoll(c)
  BY TypesOfParts, ListenIs DEF SessionInv
<1>t. StepTypes /\ LocalTypes /\ CallTypes /\ MutexTypes /\ EpollTypes /\ FdTypes
  BY <1>0 DEF TypeParts
<1>h. HandlerOf(r) /\ \A s \in Sessions : HoldsOf(r, s) /\ WorksOf(r, s)
  BY HandlerIs DEF SessionInv
<1>n. r # None /\ UNCHANGED <<tainted, fd>> /\ cur[r] \in Sessions
  BY <1>t, SessionAssumption, ReactorFrame DEF Reactors, StepTypes
<1>c. ASSUME rpc'[r] # "call" PROVE CallOf(r)'
  BY <1>c DEF CallOf
<1>1. ASSUME UNCHANGED <<recv_mutex, cur>>, rpc[r] \in Handling <=> rpc'[r] \in Handling
      PROVE  /\ \A s \in Sessions : HoldsOf(r, s)'
             /\ \A s \in Sessions : recv_mutex'[s] = recv_mutex[s]
                  \/ {recv_mutex[s], recv_mutex'[s]} = {r, None}
  BY <1>h, <1>1 DEF HoldsOf
<1>2. CASE EpollWait(r)
  <2>1. /\ rpc[r] = "wait" /\ rpc'[r] = "batch"
        /\ batch'[r] = {registered[c].session : c \in Mine(r)}
        /\ UNCHANGED <<recv_mutex, cur, proc_begin, proc_len, call>>
    BY <1>t, <1>2 DEF EpollWait, sessVars, StepTypes
  <2>2. ~proc_begin[r] /\ proc_len[r] = 0
    BY <1>h, <2>1 DEF HandlerOf
  <2>3. HandlerOf(r)' /\ CallOf(r)'
    BY <1>c, <1>n, <2>1, <2>2 DEF HandlerOf
  <2>4. \A s \in batch'[r] : Live(s)
    <3> SUFFICES ASSUME NEW s \in batch'[r] PROVE Live(s)
      OBVIOUS
    <3>1. PICK c \in ready : s = registered[c].session
      BY <2>1 DEF Mine
    <3>2. c \in Conns /\ registered[c] # None /\ c # None
      BY <1>0, <1>t, <3>1, SessionAssumption DEF ConnsOwned, EpollTypes
    <3> QED BY <1>0, <3>1, <3>2 DEF WithEpoll, Live
  <2>5. \A s \in Sessions : Working(r, s)' => Live(s)
    BY <2>1, <2>2, <2>4 DEF Working
  <2> QED BY <1>1, <2>1, <2>3, <2>5 DEF Handling
<1>3. CASE NextEvent(r)
  <2>1. /\ rpc[r] = "batch" /\ UNCHANGED <<recv_mutex, proc_begin, proc_len, call>>
        /\ \/ rpc'[r] = "wait" /\ UNCHANGED <<batch, cur>>
           \/ /\ rpc'[r] = "lock" /\ cur'[r] \in batch[r]
              /\ batch'[r] = batch[r] \ {cur'[r]}
    BY <1>t, <1>3 DEF NextEvent, sessVars, StepTypes
  <2>2. ~proc_begin[r] /\ proc_len[r] = 0
    BY <1>h, <2>1 DEF HandlerOf
  <2>3. HandlerOf(r)' /\ CallOf(r)'
    BY <1>c, <1>n, <2>1, <2>2 DEF HandlerOf
  <2>4. \A s \in Sessions : Working(r, s)' => Working(r, s)
    BY <2>1, <2>2 DEF Working
  <2>5. \A s \in Sessions : HoldsOf(r, s)'
    BY <1>h, <2>1 DEF HoldsOf, Handling
  <2> QED BY <2>1, <2>3, <2>4, <2>5
<1>4. CASE Lock(r)
  <2>1. /\ rpc[r] = "lock" /\ rpc'[r] = "recv" /\ recv_mutex[cur[r]] = None
        /\ \A s \in Sessions : recv_mutex'[s] = IF s = cur[r] THEN r ELSE recv_mutex[s]
        /\ UNCHANGED <<batch, cur, proc_begin, proc_len, call>>
    BY <1>t, <1>4 DEF Lock, MutexTypes, StepTypes
  <2>2. ~proc_begin[r] /\ proc_len[r] = 0
    BY <1>h, <2>1 DEF HandlerOf
  <2>3. HandlerOf(r)' /\ CallOf(r)'
    BY <1>c, <1>n, <2>1, <2>2 DEF HandlerOf
  <2>4. \A s \in Sessions : Working(r, s)' => Working(r, s)
    BY <2>1, <2>2 DEF Working
  <2>5. \A s \in Sessions : HoldsOf(r, s)'
    BY <1>h, <2>1 DEF HoldsOf, Handling
  <2> QED BY <2>1, <2>3, <2>4, <2>5
<1>5. CASE BufferFull(r)
  <2>1. /\ rpc[r] = "recv" /\ rpc'[r] \in {"on_recved", "again"}
        /\ UNCHANGED <<recv_mutex, batch, cur, proc_len, call>>
    BY <1>t, <1>5 DEF BufferFull, AfterLoop, StepTypes
  <2>2. proc_len[r] = 0
    BY <1>h, <2>1 DEF HandlerOf
  <2>3. HandlerOf(r)' /\ CallOf(r)'
    BY <1>c, <1>n, <2>1, <2>2 DEF HandlerOf
  <2>4. \A s \in Sessions : Working(r, s)' => Working(r, s)
    BY <2>1 DEF Working
  <2> QED BY <1>1, <2>1, <2>3, <2>4 DEF Handling
<1>6. CASE CallRecv(r)
  <2> DEFINE b == Room(recv_buffer[cur[r]])
  <2>1. /\ rpc[r] = "recv" /\ rpc'[r] = "call" /\ call'[r] = CallFor(fd[cur[r]], b)
        /\ recv_buffer' = [recv_buffer EXCEPT ![cur[r]] = b]
        /\ UNCHANGED <<recv_mutex, batch, cur, proc_begin, proc_len>>
    BY <1>t, <1>6 DEF CallRecv, StepTypes, CallTypes, CallFor
  <2>2. proc_len[r] = 0 /\ ~proc_begin[r]
    BY <1>h, <2>1 DEF HandlerOf
  <2>3. /\ b.write_pos \in 0 .. data_len /\ WriteValid(b) \in 0 .. data_len
        /\ fd[cur[r]] \in Conns \cup {None} /\ recv_buffer'[cur[r]] = b
    <3>1. recv_buffer[cur[r]] \in BufferType /\ recv_buffer \in [Sessions -> BufferType]
      BY <1>0, <1>n DEF TypeParts, BufTypes
    <3>2. b \in BufferType /\ WriteValid(b) \in 0 .. data_len
      BY <3>1, RoomKeeps
    <3> HIDE DEF b
    <3> QED BY <1>t, <1>n, <2>1, <3>1, <3>2 DEF FdTypes, BufferType
  <2> HIDE DEF b
  <2>4. call'[r] \in CallType
    BY <2>1, <2>3 DEF CallFor, CallType
  <2>5. HandlerOf(r)'
    BY <2>1, <2>2, <2>4 DEF HandlerOf
  <2>6. CallOf(r)'
    BY <1>n, <2>1, <2>3 DEF CallOf
  <2>7. \A s \in Sessions : Working(r, s)' => Working(r, s)
    BY <2>1, <2>2 DEF Working
  <2> QED BY <1>1, <2>1, <2>5, <2>6, <2>7 DEF Handling
<1>7. CASE (\E c \in Conns : RecvBytes(r, c)) \/ RecvEnds(r) \/ RecvNothing(r)
  <2>1. /\ rpc[r] \in {"call", "blocked"} /\ rpc'[r] \in {"recv", "on_close", "on_recved", "again"}
        /\ rpc'[r] \in {"on_recved", "again"} => rpc[r] = "call"
        /\ UNCHANGED <<recv_mutex, batch, cur, proc_begin, proc_len>>
    BY <1>t, <1>7 DEF RecvBytes, RecvEnds, RecvNothing, Returns, InRecv, AfterLoop, StepTypes,
                      sessVars
  <2>2. /\ proc_len[r] = 0 /\ ~proc_begin[r]
        /\ rpc[r] = "blocked" => cur[r] \in tainted
    BY <1>h, <2>1 DEF HandlerOf
  <2>3. HandlerOf(r)' /\ CallOf(r)'
    BY <1>c, <1>n, <2>1, <2>2 DEF HandlerOf
  <2>4. \A s \in Sessions : s \notin tainted /\ Working(r, s)' => Working(r, s)
    BY <2>1, <2>2 DEF Working
  <2> QED BY <1>1, <2>1, <2>3, <2>4 DEF Handling
<1>8. CASE RecvBlocks(r)
  <2>1. /\ rpc[r] = "call" /\ rpc'[r] = "blocked"
        /\ UNCHANGED <<recv_mutex, batch, cur, proc_begin, proc_len>>
    BY <1>t, <1>8 DEF RecvBlocks, StepTypes, sessVars
  <2>2. proc_len[r] = 0 /\ ~proc_begin[r] /\ call[r] \in CallType /\ cur[r] \in tainted
    BY <1>h, <1>8, <2>1, BlocksTainted DEF HandlerOf
  <2>3. call'[r] \in CallType
    <3>1. PICK c \in Reached(r) : call' = [call EXCEPT ![r].conn = c]
      BY <1>8 DEF RecvBlocks
    <3>2. c \in Conns
      BY <1>t, <2>1, <3>1 DEF Reached, FdTypes
    <3>3. call'[r] = [call[r] EXCEPT !.conn = c]
      BY <1>t, <3>1 DEF CallTypes
    <3> QED BY <2>2, <3>2, <3>3 DEF CallType
  <2>4. HandlerOf(r)' /\ CallOf(r)'
    BY <1>c, <1>n, <2>1, <2>2, <2>3 DEF HandlerOf
  <2>5. \A s \in Sessions : Working(r, s)' => Working(r, s)
    BY <2>1, <2>2 DEF Working
  <2> QED BY <1>1, <2>1, <2>4, <2>5 DEF Handling
<1>10. CASE OnClose(r) \/ EndOnClose(r)
  <2>1. /\ \/ rpc[r] = "on_close" /\ rpc'[r] = "in_close"
           \/ rpc[r] = "in_close" /\ rpc'[r] = "again"
        /\ UNCHANGED <<recv_mutex, batch, cur, proc_begin, proc_len, call>>
    BY <1>t, <1>10 DEF OnClose, EndOnClose, StepTypes, sessVars
  <2>2. proc_len[r] = 0 /\ ~proc_begin[r]
    BY <1>h, <2>1 DEF HandlerOf
  <2>3. HandlerOf(r)' /\ CallOf(r)'
    BY <1>c, <1>n, <2>1, <2>2 DEF HandlerOf
  <2>4. \A s \in Sessions : Working(r, s)' => Working(r, s)
    BY <2>1, <2>2 DEF Working
  <2> QED BY <1>1, <2>1, <2>3, <2>4 DEF Handling
<1>11. CASE OnRecved(r)
  <2>1. /\ rpc[r] = "on_recved" /\ rpc'[r] = "in_recved"
        /\ UNCHANGED <<recv_mutex, batch, cur, proc_begin, call>>
    BY <1>t, <1>11 DEF OnRecved, StepTypes, sessVars
  <2>2. HandlerOf(r)' /\ CallOf(r)'
    BY <1>c, <1>h, <1>n, <2>1 DEF HandlerOf
  <2>3. \A s \in Sessions : Working(r, s)' => Working(r, s)
    BY <2>1 DEF Working
  <2> QED BY <1>1, <2>1, <2>2, <2>3 DEF Handling
<1>12. CASE EndOnRecved(r)
  <2>1. /\ rpc[r] = "in_recved" /\ rpc'[r] = "again" /\ proc_len'[r] = 0
        /\ UNCHANGED <<recv_mutex, batch, cur, proc_begin, call>>
    BY <1>t, <1>12 DEF EndOnRecved, StepTypes, LocalTypes
  <2>2. HandlerOf(r)' /\ CallOf(r)'
    BY <1>c, <1>h, <1>n, <2>1 DEF HandlerOf
  <2>3. \A s \in Sessions : Working(r, s)' => Working(r, s)
    BY <2>1 DEF Working
  <2> QED BY <1>1, <2>1, <2>2, <2>3 DEF Handling
<1>13. CASE Again(r)
  <2>1. /\ rpc[r] = "again" /\ proc_begin'[r] = FALSE
        /\ UNCHANGED <<batch, proc_len, call>>
        /\ \/ /\ proc_begin[r] /\ rpc'[r] = "recv" /\ UNCHANGED <<recv_mutex, cur>>
           \/ /\ rpc'[r] = "batch"
              /\ \A s \in Sessions : recv_mutex'[s] = IF s = cur[r] THEN None ELSE recv_mutex[s]
    BY <1>t, <1>13 DEF Again, ReceiveMore, StepTypes, LocalTypes, MutexTypes
  <2>2. proc_len[r] = 0
    BY <1>h, <2>1 DEF HandlerOf
  <2>3. HandlerOf(r)' /\ CallOf(r)'
    BY <1>c, <1>n, <2>1, <2>2 DEF HandlerOf
  <2>4. \A s \in Sessions : Working(r, s)' => Working(r, s)
    BY <2>1 DEF Working
  <2>5. \A s \in Sessions : HoldsOf(r, s)'
    BY <1>h, <1>n, <2>1 DEF HoldsOf, Handling
  <2>6. recv_mutex[cur[r]] = r
    BY <1>h, <1>n, <2>1 DEF HoldsOf, Handling
  <2> QED BY <2>1, <2>3, <2>4, <2>5, <2>6
<1> QED
  BY <1>2, <1>3, <1>4, <1>5, <1>6, <1>7, <1>8, <1>10, <1>11, <1>12, <1>13
     DEF ReactorStep

\* A handler writes to the buffer of the session whose receive mutex it holds.
LEMMA BufferOwn ==
  ASSUME SessionInv, NEW r \in Reactors, ReactorStep(r)
  PROVE  \A s : recv_mutex[s] # r => recv_buffer'[s] = recv_buffer[s]
<1>1. TypeParts /\ cur[r] \in Sessions /\ HoldsOf(r, cur[r])
  BY TypesOfParts, HandlerIs DEF SessionInv, TypeParts, StepTypes
<1>2. CASE UNCHANGED recv_buffer
  BY <1>2
<1>3. ASSUME rpc[r] \in Handling, \E b : recv_buffer' = [recv_buffer EXCEPT ![cur[r]] = b]
      PROVE  \A s : recv_mutex[s] # r => recv_buffer'[s] = recv_buffer[s]
  <2> SUFFICES ASSUME NEW s, recv_mutex[s] # r PROVE recv_buffer'[s] = recv_buffer[s]
    OBVIOUS
  <2>1. s # cur[r]
    BY <1>1, <1>3 DEF HoldsOf
  <2> QED BY <1>3, <2>1
<1>4. CASE EpollWait(r) \/ NextEvent(r) \/ Lock(r) \/ RecvEnds(r) \/ RecvNothing(r)
  BY <1>2, <1>4 DEF EpollWait, NextEvent, Lock, RecvEnds, RecvNothing, sessVars
<1>5. CASE RecvBlocks(r) \/ OnClose(r) \/ EndOnClose(r) \/ OnRecved(r) \/ Again(r)
  BY <1>2, <1>5 DEF RecvBlocks, OnClose, EndOnClose, OnRecved, Again, sessVars
<1>6. CASE BufferFull(r) \/ CallRecv(r) \/ EndOnRecved(r)
  BY <1>3, <1>6 DEF BufferFull, CallRecv, EndOnRecved, Handling
<1>7. CASE \E c \in Conns : RecvBytes(r, c)
  BY <1>3, <1>7 DEF RecvBytes, InRecv, Handling
<1> QED
  BY <1>4, <1>5, <1>6, <1>7 DEF ReactorStep

LEMMA HandlerKept ==
  ASSUME SessionInv, [Next]_vars
  PROVE  HandlerInv'
<1>0. /\ TypeParts
      /\ \A r \in Reactors : /\ HandlerOf(r) /\ CallOf(r)
                            /\ \A s \in Sessions : HoldsOf(r, s) /\ WorksOf(r, s)
  BY TypesOfParts, HandlerIs DEF SessionInv
<1>t. /\ FdTypes /\ StepTypes /\ LocalTypes /\ CallTypes /\ MutexTypes
      /\ asession \in Sessions /\ \A r \in Reactors : cur[r] \in Sessions
  BY <1>0 DEF TypeParts, AppTypes, StepTypes
<1>n. None \notin Reactors
  BY SessionAssumption DEF Reactors
<1>1. ASSUME UNCHANGED <<recv_mutex, reactVars>>, tainted \subseteq tainted',
             \A s \in Sessions : Live(s) => /\ Live(s)' /\ fd'[s] = fd[s]
                                            /\ recv_buffer'[s] = recv_buffer[s]
                                         \/ \A r \in Reactors : s \notin tainted' => ~Working(r, s)
      PROVE  HandlerInv'
  <2>1. \A r \in Reactors : HandlerOf(r)'
    BY <1>0, <1>1 DEF HandlerOf, reactVars
  <2>2. \A r \in Reactors, s \in Sessions : HoldsOf(r, s)'
    BY <1>0, <1>1 DEF HoldsOf, reactVars
  <2>3. \A r \in Reactors, s \in Sessions : Working(r, s)' <=> Working(r, s)
    BY <1>1 DEF Working, reactVars
  <2>4. \A r \in Reactors, s \in Sessions : WorksOf(r, s)'
    BY <1>0, <1>1, <2>3 DEF WorksOf
  <2>5. \A r \in Reactors : CallOf(r)'
    <3> SUFFICES ASSUME NEW r \in Reactors, rpc[r] = "call", cur[r] \notin tainted'
                 PROVE  call[r] = CallFor(fd'[cur[r]], recv_buffer'[cur[r]])
      BY <1>1 DEF CallOf, reactVars
    <3>1. Working(r, cur[r]) /\ cur[r] \in Sessions /\ cur[r] \notin tainted
      BY <1>t, <1>1 DEF Working
    <3>2. Live(cur[r])
      BY <1>0, <3>1 DEF WorksOf
    <3>3. fd'[cur[r]] = fd[cur[r]] /\ recv_buffer'[cur[r]] = recv_buffer[cur[r]]
      BY <1>1, <3>1, <3>2
    <3> QED BY <1>0, <3>1, <3>3 DEF CallOf
  <2> QED BY <2>1, <2>2, <2>4, <2>5, HandlerIsNext
<1>2. ASSUME UNCHANGED <<recv_mutex, reactVars, tainted, fd, entered, recv_buffer>>
      PROVE  HandlerInv'
  <2>1. \A s \in Sessions : Live(s) => Live(s)'
    BY <1>2 DEF Live
  <2> QED BY <1>1, <1>2, <2>1
<1>3. ASSUME Accept \/ ListenStep PROVE HandlerInv'
  <2>1. ASSUME NEW s \in Sessions, Live(s)
        PROVE  Live(s)' /\ fd'[s] = fd[s] /\ recv_buffer'[s] = recv_buffer[s]
    <3>1. Live(s)' /\ fd'[s] = fd[s]
      BY <1>3, <2>1, LiveKept DEF Live
    <3>2. CASE InitBuffer
      <4>1. ~Live(lsession)
        BY <3>2, ListenIs DEF InitBuffer, SessionInv, Handed, Live, Given
      <4>2. s # lsession
        BY <2>1, <4>1
      <4> QED BY <1>0, <3>1, <3>2, <4>2 DEF InitBuffer, TypeParts, BufTypes
    <3>3. CASE Accept \/ Pop \/ SetFd \/ SetReactor \/ Count \/ OnEnter \/ AddEvent
      BY <3>1, <3>3 DEF Accept, Pop, SetFd, SetReactor, Count, OnEnter, AddEvent, sessVars
    <3> QED BY <1>3, <3>2, <3>3 DEF ListenStep
  <2> QED BY <1>1, <1>3, <2>1, ListenFrame
<1>4. ASSUME NEW s \in Sessions, NEW q, NEW by, Closes(s, q, by)
      PROVE  HandlerInv'
  <2>1. UNCHANGED <<recv_mutex, reactVars, entered, recv_buffer>>
    BY <1>4 DEF Closes
  <2>2. CASE ~IsOpen(s)
    <3>1. UNCHANGED <<fd, tainted>>
      BY <1>4, <2>2 DEF Closes, CloseSession
    <3> QED BY <1>2, <2>1, <3>1
  <2>3. CASE IsOpen(s)
    <3>1. /\ fd' = [fd EXCEPT ![s] = None]
          /\ tainted' = IF UnderHandler(s, by) THEN tainted \cup {s} ELSE tainted
      BY <1>4, <2>3 DEF Closes, CloseSession
    <3>2. \A p \in Sessions : p # s /\ Live(p) => Live(p)' /\ fd'[p] = fd[p]
      BY <1>t, <2>1, <3>1 DEF Live, FdTypes
    <3>3. ASSUME s \notin tainted', NEW r \in Reactors PROVE ~Working(r, s)
      <4>1. s \notin tainted /\ ~UnderHandler(s, by)
        BY <3>1, <3>3
      <4>2. /\ s \notin batch[r] /\ ~(rpc[r] = "lock" /\ cur[r] = s)
            /\ recv_mutex[s] # None => recv_mutex[s] = by /\ rpc[by] = "in_close"
        BY <4>1 DEF UnderHandler
      <4>3. HandlerOf(r) /\ HoldsOf(r, s)
        BY <1>0
      <4>4. ASSUME cur[r] = s, rpc[r] \in Handling PROVE rpc[r] = "in_close" /\ ~proc_begin[r]
        <5>1. recv_mutex[s] = r /\ r # None
          BY <1>n, <4>3, <4>4 DEF HoldsOf
        <5>2. rpc[r] = "in_close"
          BY <4>2, <5>1
        <5> QED BY <4>3, <5>2 DEF HandlerOf
      <4> QED BY <4>2, <4>3, <4>4 DEF Working, Handling, HandlerOf
    <3> QED BY <1>1, <2>1, <3>1, <3>2, <3>3
  <2> QED BY <2>2, <2>3
<1>5. ASSUME NEW c \in Conns, Arrive(c) \/ HalfClose(c) PROVE HandlerInv'
  BY <1>2, <1>5, ClientFrame DEF sessVars, histVars
<1>6. ASSUME BeginClose PROVE HandlerInv'
  BY <1>2, <1>6 DEF BeginClose, sessVars, histVars
<1>7. ASSUME Close PROVE HandlerInv'
  BY <1>t, <1>4, <1>7, CloseFrame
<1>8. ASSUME NEW r \in Reactors, CloseInCallback(r) PROVE HandlerInv'
  BY <1>t, <1>4, <1>8, CallbackFrame
<1>9. ASSUME NEW r \in Reactors, ReactorStep(r) PROVE HandlerInv'
  <2>1. /\ UNCHANGED <<fd, entered, tainted>> /\ \A s \in Sessions : Live(s)' <=> Live(s)
    BY <1>9, ReactorFrame DEF Live
  <2>2. /\ HandlerOf(r)' /\ CallOf(r)' /\ \A s \in Sessions : HoldsOf(r, s)'
        /\ \A s \in Sessions : s \notin tainted /\ Working(r, s)' => Working(r, s) \/ Live(s)
        /\ \A s \in Sessions : recv_mutex'[s] = recv_mutex[s]
             \/ {recv_mutex[s], recv_mutex'[s]} = {r, None}
    BY <1>9, HandlerStep
  <2>3. \A s \in Sessions : WorksOf(r, s)'
    BY <1>0, <2>1, <2>2 DEF WorksOf
  <2>4. ASSUME NEW q \in Reactors, q # r
        PROVE  HandlerOf(q)' /\ CallOf(q)' /\ \A s \in Sessions : HoldsOf(q, s)' /\ WorksOf(q, s)'
    <3>1. /\ rpc'[q] = rpc[q] /\ batch'[q] = batch[q] /\ cur'[q] = cur[q]
          /\ proc_begin'[q] = proc_begin[q] /\ proc_len'[q] = proc_len[q] /\ call'[q] = call[q]
      BY <1>t, <1>9, <2>4, OthersKept
    <3>2. HandlerOf(q)'
      BY <1>0, <2>1, <3>1 DEF HandlerOf
    <3>3. \A s \in Sessions : recv_mutex'[s] = q <=> recv_mutex[s] = q
      BY <1>n, <2>2, <2>4
    <3>4. \A s \in Sessions : HoldsOf(q, s)'
      BY <1>0, <3>1, <3>3 DEF HoldsOf
    <3>5. \A s \in Sessions : WorksOf(q, s)'
      BY <1>0, <2>1, <3>1 DEF WorksOf, Working
    <3>6. CallOf(q)'
      <4> SUFFICES ASSUME rpc[q] = "call", cur[q] \notin tainted
                   PROVE  call[q] = CallFor(fd[cur[q]], recv_buffer'[cur[q]])
        BY <2>1, <3>1 DEF CallOf
      <4>1. recv_mutex[cur[q]] = q
        BY <1>0, <1>t DEF HoldsOf, Handling
      <4>2. recv_mutex[cur[q]] # r
        BY <2>4, <4>1
      <4>3. recv_buffer'[cur[q]] = recv_buffer[cur[q]]
        BY <1>9, <4>2, BufferOwn
      <4> QED BY <1>0, <4>3 DEF CallOf
    <3> QED BY <3>2, <3>4, <3>5, <3>6
  <2> QED BY <2>2, <2>3, <2>4, HandlerIsNext
<1>10. ASSUME UNCHANGED vars PROVE HandlerInv'
  BY <1>2, <1>10 DEF vars, sessVars, histVars
<1> QED
  BY <1>3, <1>5, <1>6, <1>7, <1>8, <1>9, <1>10 DEF Next

-----------------------------------------------------------------------------
(***************************************************************************)
(* The bytes, from a connection through the receive buffer to the logic.   *)
(***************************************************************************)

\* A prefix, byte by byte, and one that grows by the bytes that come next.
LEMMA PrefixIs ==
  ASSUME NEW s \in Seq(Bytes), NEW t \in Seq(Bytes)
  PROVE  IsPrefixOf(s, t) <=> /\ Len(s) <= Len(t)
                              /\ \A i \in 1 .. Len(s) : s[i] = t[i]
<1>1. Len(s) \in Nat /\ Len(t) \in Nat
  OBVIOUS
<1>2. SUFFICES ASSUME Len(s) <= Len(t)
               PROVE  s = SubSeq(t, 1, Len(s)) <=> \A i \in 1 .. Len(s) : s[i] = t[i]
  BY DEF IsPrefixOf
<1>3. \A i \in 1 .. Len(s) : t[i] \in Bytes
  BY <1>1, <1>2, ElementOfSeq
<1> DEFINE u == SubSeq(t, 1, Len(s))
<1>4. u \in Seq(Bytes) /\ Len(u) = Len(s) /\ \A i \in 1 .. Len(s) : u[i] = t[i]
  <2>1. 1 \in Int /\ Len(s) \in Int
    BY <1>1
  <2>2. /\ u \in Seq(Bytes) /\ Len(u) = IF 1 <= Len(s) THEN Len(s) - 1 + 1 ELSE 0
        /\ \A i \in 1 .. Len(s) - 1 + 1 : u[i] = t[1 + i - 1]
    BY <1>3, <2>1, SubSeqProperties
  <2> HIDE DEF u
  <2> QED BY <1>1, <2>2
<1> HIDE DEF u
<1>5. (\A i \in 1 .. Len(s) : s[i] = t[i]) => s = u
  BY <1>4, SeqEqual
<1> QED
  BY <1>4, <1>5 DEF u

LEMMA PrefixExtends ==
  ASSUME NEW s \in Seq(Bytes), NEW t \in Seq(Bytes), NEW w \in Seq(Bytes),
         NEW n \in 0 .. Len(w), IsPrefixOf(s, t), Len(s) + n <= Len(t),
         \A i \in 1 .. n : w[i] = t[Len(s) + i]
  PROVE  LET u == s \o SubSeq(w, 1, n)
         IN  u \in Seq(Bytes) /\ Len(u) = Len(s) + n /\ IsPrefixOf(u, t)
<1> DEFINE v == SubSeq(w, 1, n)
           u == s \o v
<1>1. Len(s) \in Nat /\ Len(t) \in Nat /\ Len(w) \in Nat /\ n \in Nat
  OBVIOUS
<1>2. v \in Seq(Bytes) /\ Len(v) = n /\ \A i \in 1 .. n : v[i] = w[i]
  <2>1. 1 \in Int /\ n \in Int /\ \A i \in 1 .. n : w[i] \in Bytes
    BY <1>1, ElementOfSeq
  <2>2. /\ v \in Seq(Bytes) /\ Len(v) = IF 1 <= n THEN n - 1 + 1 ELSE 0
        /\ \A i \in 1 .. n - 1 + 1 : v[i] = w[1 + i - 1]
    BY <2>1, SubSeqProperties
  <2> HIDE DEF v
  <2> QED BY <1>1, <2>2
<1> HIDE DEF v
<1>3. /\ u \in Seq(Bytes) /\ Len(u) = Len(s) + n
      /\ \A i \in 1 .. Len(s) + n : u[i] = IF i <= Len(s) THEN s[i] ELSE v[i - Len(s)]
  BY <1>2, ConcatProperties
<1> HIDE DEF u
<1>4. \A i \in 1 .. Len(s) : s[i] = t[i]
  BY PrefixIs
<1>5. ASSUME NEW i \in 1 .. Len(u) PROVE u[i] = t[i]
  <2>1. CASE i <= Len(s)
    BY <1>1, <1>3, <1>4, <2>1, SMTT(60)
  <2>2. CASE i > Len(s)
    <3>1. i - Len(s) \in 1 .. n /\ Len(s) + (i - Len(s)) = i /\ i \in 1 .. Len(s) + n
      BY <1>1, <1>3, <2>2
    <3>2. u[i] = v[i - Len(s)]
      BY <1>1, <1>3, <2>2, <3>1
    <3> QED BY <1>2, <3>1, <3>2
  <2> QED BY <1>1, <1>3, <2>1, <2>2
<1>6. IsPrefixOf(u, t)
  BY <1>3, <1>5, PrefixIs
<1> QED
  BY <1>3, <1>6 DEF u, v

\* FlowInv by connection and session.
CalmOf(c) ==
  /\ taken[c] <= arrived[c] /\ arrived[c] <= Len(Stream[c])
  /\ c \in backlog \/ (lpc \in {"pop", "fd"} /\ lfd = c) => Fresh(c)
FlowsAt(s, c) ==
  /\ Carries(recv_buffer[s], Stream[c], taken[c])
  /\ InUse(s) <= ReadValid(recv_buffer[s])
  /\ Len(consumed[c]) + ReadValid(recv_buffer[s]) = taken[c] + InUse(s)
SetUp(s) ==
  /\ lsession = s /\ lpc \in Given \ {"add"} => Fresh(lfd)
  /\ lsession = s /\ lpc \in {"reactor", "count", "enter"} => recv_buffer[s] = EmptyBuffer
FlowOf(s) == Live(s) /\ fd[s] \notin robbed => FlowsAt(s, fd[s])
UsedAt(c) == IsPrefixOf(consumed[c], Stream[c])
StreamOf(s) == entered[s] # None => entered[s] \in robbed \/ UsedAt(entered[s])

Flow ==
  /\ \A c \in Conns : CalmOf(c)
  /\ \A s \in Sessions : s \notin tainted => FlowOf(s) /\ SetUp(s) /\ StreamOf(s)
  /\ robbed # {} => tainted # {}

LEMMA FlowIs == FlowInv /\ StreamIntactUnlessTainted <=> Flow
  BY DEF FlowInv, StreamIntactUnlessTainted, Flow, CalmOf, FlowOf, FlowsAt, SetUp,
     StreamOf, UsedAt

LEMMA FlowIsNext == FlowInv' /\ StreamIntactUnlessTainted' <=> Flow'
  BY DEF FlowInv, StreamIntactUnlessTainted, Flow, CalmOf, FlowOf, FlowsAt, SetUp,
     StreamOf, UsedAt

LEMMA FlowSame ==
  ASSUME NEW s, NEW c, FlowsAt(s, c), recv_buffer'[s] = recv_buffer[s],
         taken'[c] = taken[c], consumed'[c] = consumed[c], InUse(s)' = InUse(s)
  PROVE  FlowsAt(s, c)'
  BY DEF FlowsAt, Carries, ReadValid

\* The session the listen thread sets up is not live.
LEMMA SetUpNotLive ==
  ASSUME SessionInv, lpc \in Given \ {"add"}
  PROVE  ~Live(lsession) /\ entered[lsession] # lfd
         /\ fd[lsession] = IF lfd \in open THEN lfd ELSE None
  BY ListenIs DEF SessionInv, Handed, Live, Given

\* A handler outside on_recved has no bytes in use.
LEMMA InUseIs ==
  ASSUME SessionInv, NEW r \in Reactors
  PROVE  /\ \A s \in Sessions : recv_mutex[s] = r => cur[r] = s /\ rpc[r] \in Handling
         /\ rpc[r] # "in_recved" => proc_len[r] = 0
         /\ rpc[r] \in Handling => recv_mutex[cur[r]] = r /\ InUse(cur[r]) = proc_len[r]
<1>1. TypeParts /\ HandlerOf(r) /\ \A s \in Sessions : HoldsOf(r, s)
  BY TypesOfParts, HandlerIs DEF SessionInv
<1>2. cur[r] \in Sessions /\ r # None
  BY <1>1, SessionAssumption DEF TypeParts, StepTypes, Reactors
<1> QED
  BY <1>1, <1>2 DEF HandlerOf, HoldsOf, InUse

\* ... and a session that is not live, nor tainted, none either.
LEMMA NotLiveNotInUse ==
  ASSUME SessionInv, NEW s \in Sessions, s \notin tainted, ~Live(s)
  PROVE  InUse(s) = 0
<1>1. CASE recv_mutex[s] = None
  BY <1>1 DEF InUse
<1>2. CASE recv_mutex[s] # None
  <2>1. TypeParts /\ \A r \in Reactors : WorksOf(r, s)
    BY TypesOfParts, HandlerIs DEF SessionInv
  <2>2. PICK r \in Reactors : recv_mutex[s] = r
    BY <1>2, <2>1 DEF TypeParts, MutexTypes
  <2>3. cur[r] = s /\ (rpc[r] # "in_recved" => proc_len[r] = 0)
    BY <2>2, InUseIs
  <2>4. rpc[r] # "in_recved"
    BY <2>1, <2>3 DEF WorksOf, Working
  <2> QED BY <1>2, <2>2, <2>3, <2>4 DEF InUse
<1> QED
  BY <1>1, <1>2

\* A step that leaves the bytes where they are.
LEMMA FlowStill ==
  ASSUME Flow,
         UNCHANGED <<fd, entered, recv_buffer, taken, consumed, listenVars, backlog, robbed>>,
         tainted \subseteq tainted',
         \A c \in Conns : arrived[c] <= arrived'[c] /\ arrived'[c] <= Len(Stream[c]),
         \A c \in Conns : taken[c] \in Nat /\ arrived[c] \in Nat /\ arrived'[c] \in Nat,
         \A s \in Sessions : InUse(s)' = InUse(s)
  PROVE  Flow'
<1>1. \A c \in Conns : CalmOf(c)'
  <2> SUFFICES ASSUME NEW c \in Conns PROVE CalmOf(c)'
    OBVIOUS
  <2>1. CalmOf(c)
    BY DEF Flow
  <2>2. taken'[c] <= arrived'[c]
    BY <2>1 DEF CalmOf
  <2> QED BY <2>1, <2>2 DEF CalmOf, Fresh, listenVars
<1>2. ASSUME NEW s \in Sessions, s \notin tainted'
      PROVE  FlowOf(s)' /\ SetUp(s)' /\ StreamOf(s)'
  <2>1. FlowOf(s) /\ SetUp(s) /\ StreamOf(s)
    BY <1>2 DEF Flow
  <2>2. FlowOf(s)'
    <3>1. Live(s)' <=> Live(s)
      BY DEF Live
    <3>2. Live(s) /\ fd[s] \notin robbed => FlowsAt(s, fd[s])'
      <4>1. SUFFICES ASSUME Live(s), fd[s] \notin robbed PROVE FlowsAt(s, fd[s])'
        OBVIOUS
      <4> DEFINE c == fd[s]
      <4>2. FlowsAt(s, c)
        BY <2>1, <4>1 DEF FlowOf
      <4> QED BY <4>2 DEF FlowsAt, Carries, ReadValid
    <3> QED BY <3>1, <3>2 DEF FlowOf
  <2>3. SetUp(s)'
    BY <2>1 DEF SetUp, Fresh, listenVars
  <2>4. StreamOf(s)'
    BY <2>1 DEF StreamOf, UsedAt
  <2> QED BY <2>2, <2>3, <2>4
<1>3. robbed' # {} => tainted' # {}
  BY DEF Flow
<1> QED
  BY <1>1, <1>2, <1>3 DEF Flow

\* A step of a handler on session s, with connection c: no other session's bytes
\* are concerned, unless that is robbed of the connection's.
LEMMA FlowTouched ==
  ASSUME SessionInv, NEW s \in Sessions, NEW c,
         UNCHANGED <<fd, entered, listenVars, backlog, arrived, tainted>>,
         \A p \in Sessions : p # s => recv_buffer'[p] = recv_buffer[p] /\ InUse(p)' = InUse(p),
         \A d \in Conns : d # c => taken'[d] = taken[d] /\ consumed'[d] = consumed[d],
         robbed \subseteq robbed', robbed' # {} => tainted # {},
         c \in Conns => /\ taken'[c] <= arrived[c]
                        /\ Meets(s, c) \/ (c \in robbed' /\ consumed'[c] = consumed[c]),
         s \notin tainted => Live(s) /\ (fd[s] \notin robbed => FlowsAt(s, fd[s])' /\ UsedAt(fd[s])')
  PROVE  Flow'
<1>0. Flow /\ OneSession /\ TypeParts
  BY FlowIs, TypesOfParts DEF SessionInv
<1>t. FdTypes /\ ListenTypes
  BY <1>0 DEF TypeParts
<1>r. ASSUME NEW d \in Conns, d # c \/ ~Meets(s, c)
      PROVE  /\ Fresh(d) => Fresh(d)'
             /\ d \in robbed' \/ (taken'[d] = taken[d] /\ consumed'[d] = consumed[d])
             /\ consumed'[d] = consumed[d]
  BY <1>r DEF Fresh
<1>1. ASSUME NEW d \in Conns, d \in backlog \/ (lpc \in {"pop", "fd"} /\ lfd = d)
      PROVE  d # c \/ ~Meets(s, c)
  BY <1>0, <1>1 DEF OneSession
<1>2. ASSUME NEW p \in Sessions, p # s, NEW d \in Conns, Meets(p, d) PROVE d # c \/ ~Meets(s, c)
  BY <1>0, <1>2 DEF OneSession
<1>3. ASSUME NEW d \in Conns PROVE CalmOf(d)'
  <2>1. CalmOf(d)
    BY <1>0 DEF Flow
  <2>2. taken'[d] <= arrived[d]
    BY <2>1 DEF CalmOf
  <2>3. d \in backlog \/ (lpc \in {"pop", "fd"} /\ lfd = d) => Fresh(d)'
    BY <1>1, <1>r, <2>1 DEF CalmOf
  <2> QED BY <2>1, <2>2, <2>3 DEF CalmOf, listenVars
<1>4. ASSUME NEW p \in Sessions, p \notin tainted, p # s
      PROVE  FlowOf(p)' /\ SetUp(p)' /\ StreamOf(p)'
  <2>1. FlowOf(p) /\ SetUp(p) /\ StreamOf(p)
    BY <1>0, <1>4 DEF Flow
  <2>2. FlowOf(p)'
    <3>1. Live(p)' <=> Live(p)
      BY DEF Live
    <3>2. Live(p) /\ fd[p] \notin robbed' => FlowsAt(p, fd[p])'
      <4>1. SUFFICES ASSUME Live(p), fd[p] \notin robbed' PROVE FlowsAt(p, fd[p])'
        OBVIOUS
      <4> DEFINE d == fd[p]
      <4>2. FlowsAt(p, d)
        BY <2>1, <4>1 DEF FlowOf
      <4>3. d \in Conns /\ (d # c \/ ~Meets(s, c))
        BY <1>2, <1>4, <1>t, <4>1 DEF Live, FdTypes, Meets
      <4>4. taken'[d] = taken[d] /\ consumed'[d] = consumed[d]
        BY <1>r, <4>1, <4>3
      <4>5. recv_buffer'[p] = recv_buffer[p] /\ InUse(p)' = InUse(p) /\ fd' = fd
        BY <1>4
      <4> QED BY <4>2, <4>4, <4>5 DEF FlowsAt, Carries, ReadValid
    <3> QED BY <3>1, <3>2 DEF FlowOf
  <2>3. SetUp(p)'
    <3>1. ASSUME lsession = p, lpc \in Given \ {"add"} PROVE Fresh(lfd)'
      <4>1. Fresh(lfd)
        BY <2>1, <3>1 DEF SetUp
      <4>2. lfd # None
        BY <3>1, ListenIs DEF SessionInv, Handed, Given
      <4>3. lfd \in Conns /\ (lfd # c \/ ~Meets(s, c))
        BY <1>2, <1>4, <1>t, <3>1, <4>2 DEF ListenTypes, Meets, Given
      <4>4. lfd' = lfd
        BY DEF listenVars
      <4>5. consumed'[lfd] = <<>> /\ (lfd \in robbed' \/ taken'[lfd] = 0)
        BY <1>r, <4>1, <4>3 DEF Fresh
      <4> QED BY <4>4, <4>5 DEF Fresh
    <3> QED BY <1>4, <2>1, <3>1 DEF SetUp, listenVars
  <2>4. StreamOf(p)'
    <3>1. SUFFICES ASSUME entered[p] # None, entered[p] \notin robbed'
                   PROVE  IsPrefixOf(consumed'[entered[p]], Stream[entered[p]])
      BY DEF StreamOf, UsedAt
    <3>2. entered[p] \in Conns /\ (entered[p] # c \/ ~Meets(s, c))
      BY <1>2, <1>4, <1>t, <3>1 DEF FdTypes, Meets
    <3>3. consumed'[entered[p]] = consumed[entered[p]]
      BY <1>r, <3>2
    <3> QED BY <2>1, <3>1, <3>3 DEF StreamOf, UsedAt
  <2> QED BY <2>2, <2>3, <2>4
<1>5. ASSUME s \notin tainted PROVE FlowOf(s)' /\ SetUp(s)' /\ StreamOf(s)'
  <2>1. lsession = s => lpc \notin Given \ {"add"}
    BY <1>5, SetUpNotLive
  <2>2. SetUp(s)'
    BY <2>1 DEF SetUp, Given, listenVars
  <2>3. Live(s) /\ entered[s] = fd[s] /\ UNCHANGED <<fd, entered>>
    BY <1>5 DEF Live
  <2>4. FlowOf(s)'
    BY <1>5, <2>3 DEF FlowOf
  <2>5. entered[s] \in robbed' \/ UsedAt(entered[s])'
    BY <1>5, <2>3
  <2>6. StreamOf(s)'
    BY <2>3, <2>5 DEF StreamOf, UsedAt
  <2> QED BY <2>2, <2>4, <2>6
<1> QED
  BY <1>3, <1>4, <1>5 DEF Flow

\* A step of the listen thread: what it sets up is no session's yet.
LEMMA ListenFlowKept ==
  ASSUME SessionInv, Accept \/ ListenStep
  PROVE  Flow'
<1>0. Flow /\ OneSession /\ Handed /\ TypeParts
  BY FlowIs, ListenIs, TypesOfParts DEF SessionInv
<1>t. FdTypes /\ ListenTypes /\ TcpTypes /\ TakenTypes /\ BufTypes
  BY <1>0 DEF TypeParts
<1>1. UNCHANGED <<recv_mutex, reactVars, appVars, arrived, taken, fin, consumed, tainted,
                  robbed>>
      /\ \A s : InUse(s)' = InUse(s)
  BY ListenFrame DEF InUse, reactVars
<1>r. robbed' # {} => tainted' # {}
  BY <1>0, <1>1 DEF Flow
<1>2. ASSUME NEW s \in Sessions, s \notin tainted, Live(s),
             UNCHANGED <<fd[s], entered[s]>>, recv_buffer'[s] = recv_buffer[s]
      PROVE  FlowOf(s)'
  <2> SUFFICES ASSUME fd[s] \notin robbed PROVE FlowsAt(s, fd[s])'
    BY <1>1, <1>2 DEF FlowOf
  <2> DEFINE c == fd[s]
  <2>1. FlowsAt(s, c)
    BY <1>0, <1>2 DEF Flow, FlowOf
  <2>2. recv_buffer'[s] = recv_buffer[s] /\ InUse(s)' = InUse(s) /\ fd'[s] = fd[s]
        /\ UNCHANGED <<taken, consumed>>
    BY <1>1, <1>2
  <2>3. FlowsAt(s, fd[s])'
    BY <2>1, <2>2 DEF FlowsAt, Carries, ReadValid
  <2> QED BY <2>3 DEF FlowOf
<1>3. ASSUME \A s \in Sessions : recv_buffer'[s] = recv_buffer[s] \/ ~Live(s),
             \A s \in Sessions : Live(s)' => Live(s),
             \A s \in Sessions : UNCHANGED entered[s],
             \A s \in Sessions : s \notin tainted => SetUp(s)',
             \A c \in Conns : CalmOf(c)'
      PROVE  Flow'
  <2>1. ASSUME NEW s \in Sessions, s \notin tainted' PROVE FlowOf(s)' /\ SetUp(s)' /\ StreamOf(s)'
    <3>1. StreamOf(s) /\ s \notin tainted
      BY <1>0, <1>1, <2>1 DEF Flow
    <3>2. StreamOf(s)'
      <4>1. entered'[s] = entered[s] /\ UNCHANGED <<consumed, robbed>>
        BY <1>1, <1>3
      <4> QED BY <3>1, <4>1 DEF StreamOf, UsedAt
    <3>3. CASE Live(s)
      <4>1. fd'[s] = fd[s] /\ entered'[s] = entered[s]
        BY <3>3, LiveKept
      <4> QED BY <1>2, <1>3, <3>1, <3>2, <3>3, <4>1
    <3>4. CASE ~Live(s)
      BY <1>3, <3>1, <3>2, <3>4 DEF FlowOf
    <3> QED BY <3>3, <3>4
  <2> QED BY <1>3, <1>r, <2>1 DEF Flow
<1>4. \A c \in Conns : CalmOf(c)
  BY <1>0 DEF Flow
<1>5. \A s \in Sessions : s \notin tainted => SetUp(s)
  BY <1>0 DEF Flow
<1>6. CASE Accept
  <2>1. PICK c \in backlog :
          /\ backlog' = backlog \ {c}
          /\ \/ lpc' = "pop" /\ lfd' = c
             \/ lpc' = "accept" /\ lfd' = None
    BY <1>6 DEF Accept
  <2>2. UNCHANGED <<fd, entered, recv_buffer>>
    BY <1>6 DEF Accept, sessVars
  <2>3. \A d \in Conns : CalmOf(d)'
    BY <1>1, <1>4, <2>1 DEF CalmOf, Fresh
  <2>4. \A s \in Sessions : SetUp(s)'
    BY <2>1 DEF SetUp, Given
  <2> QED BY <1>3, <2>2, <2>3, <2>4 DEF Live
<1>7. CASE Pop
  <2>1. /\ lpc = "pop" /\ lpc' = "fd" /\ UNCHANGED <<fd, entered, recv_buffer, backlog, lfd>>
    BY <1>7 DEF Pop, sessVars, tcpVars, histVars
  <2>3. \A d \in Conns : CalmOf(d)'
    BY <1>1, <1>4, <2>1 DEF CalmOf, Fresh
  <2>4. \A s \in Sessions : SetUp(s)'
    BY <2>1 DEF SetUp, Given
  <2> QED BY <1>3, <2>1, <2>3, <2>4 DEF Live
<1>8. CASE SetFd
  <2>1. /\ lpc = "fd" /\ lpc' = "init" /\ fd' = [fd EXCEPT ![lsession] = lfd]
        /\ UNCHANGED <<entered, recv_buffer, backlog, lfd, lsession>>
    BY <1>8 DEF SetFd, tcpVars, histVars
  <2>2. lfd \in Conns
    BY <1>0, <1>t, <2>1 DEF Handed, FdTypes
  <2>3. entered[lsession] # lfd /\ Fresh(lfd)
    BY <1>0, <1>4, <1>t, <2>1, <2>2, NotMet DEF CalmOf, ListenTypes
  <2>4. \A s \in Sessions : Live(s)' => Live(s)
    BY <1>t, <2>1, <2>3 DEF Live, FdTypes
  <2>5. \A d \in Conns : CalmOf(d)'
    BY <1>1, <1>4, <2>1 DEF CalmOf, Fresh
  <2>6. \A s \in Sessions : SetUp(s)'
    BY <1>1, <2>1, <2>3 DEF SetUp, Fresh
  <2> QED BY <1>3, <2>1, <2>4, <2>5, <2>6
<1>9. CASE InitBuffer
  <2>1. /\ lpc = "init" /\ lpc' = "reactor"
        /\ recv_buffer' = [recv_buffer EXCEPT ![lsession] = EmptyBuffer]
        /\ UNCHANGED <<fd, entered, backlog, lfd, lsession>>
    BY <1>9 DEF InitBuffer, InitializedBuffer, tcpVars, histVars
  <2>2. ~Live(lsession)
    BY <2>1, SetUpNotLive DEF Given
  <2>3. \A s \in Sessions : recv_buffer'[s] = IF s = lsession THEN EmptyBuffer ELSE recv_buffer[s]
    BY <1>t, <2>1 DEF BufTypes
  <2>4. \A d \in Conns : CalmOf(d)'
    BY <1>1, <1>4, <2>1 DEF CalmOf, Fresh
  <2>5. \A s \in Sessions : s \notin tainted => SetUp(s)'
    BY <1>1, <1>5, <2>1, <2>3 DEF SetUp, Fresh, Given
  <2> QED BY <1>3, <2>1, <2>2, <2>3, <2>4, <2>5 DEF Live
<1>10. CASE SetReactor \/ Count
  <2>1. /\ lpc \in {"reactor", "count"} /\ lpc' \in {"count", "enter"}
        /\ UNCHANGED <<fd, entered, recv_buffer, backlog, lfd, lsession>>
    BY <1>10 DEF SetReactor, Count, sessVars, tcpVars, histVars
  <2>2. \A d \in Conns : CalmOf(d)'
    BY <1>1, <1>4, <2>1 DEF CalmOf, Fresh
  <2>3. \A s \in Sessions : s \notin tainted => SetUp(s)'
    BY <1>1, <1>5, <2>1 DEF SetUp, Fresh, Given
  <2> QED BY <1>3, <2>1, <2>2, <2>3 DEF Live
<1>11. CASE OnEnter
  <2>1. /\ lpc = "enter" /\ lpc' = "add" /\ entered' = [entered EXCEPT ![lsession] = lfd]
        /\ UNCHANGED <<fd, recv_buffer, backlog, lfd, lsession>>
    BY <1>11 DEF OnEnter, sessVars, tcpVars
  <2>2. ~Live(lsession) /\ fd[lsession] = IF lfd \in open THEN lfd ELSE None
    BY <2>1, SetUpNotLive DEF Given
  <2>3. \A d \in Conns : CalmOf(d)'
    BY <1>1, <1>4, <2>1 DEF CalmOf, Fresh
  <2>4. \A s \in Sessions : entered'[s] = IF s = lsession THEN lfd ELSE entered[s]
    BY <1>t, <2>1 DEF FdTypes
  <2>5. ASSUME NEW s \in Sessions, s \notin tainted'
        PROVE  FlowOf(s)' /\ SetUp(s)' /\ StreamOf(s)'
    <3>0. s \notin tainted
      BY <1>1, <2>5
    <3>1. SetUp(s)'
      BY <2>1 DEF SetUp
    <3>2. CASE s # lsession
      <4>1. entered'[s] = entered[s] /\ UNCHANGED <<consumed, robbed>>
        BY <1>1, <2>4, <3>2
      <4>2. StreamOf(s)'
        BY <1>0, <3>0, <4>1 DEF Flow, StreamOf, UsedAt
      <4>3. FlowOf(s)'
        <5>1. CASE Live(s)
          BY <1>2, <2>1, <3>0, <4>1, <5>1
        <5>2. CASE ~Live(s)
          BY <2>1, <4>1, <5>2 DEF FlowOf, Live
        <5> QED BY <5>1, <5>2
      <4> QED BY <3>1, <4>2, <4>3
    <3>3. CASE s = lsession
      <4>1. SetUp(s) /\ Fresh(lfd) /\ recv_buffer[s] = EmptyBuffer
        BY <1>5, <2>1, <3>0, <3>3 DEF SetUp, Given
      <4>2. InUse(s) = 0
        BY <2>2, <3>0, <3>3, NotLiveNotInUse
      <4>3. lfd \in Conns
        BY <1>0, <1>t, <2>1 DEF Handed, ListenTypes
      <4>4. StreamOf(s)'
        <5>1. consumed'[lfd] = <<>> /\ entered'[s] = lfd
          BY <1>1, <2>4, <3>3, <4>1 DEF Fresh
        <5>2. <<>> \in Seq(Bytes) /\ Stream[lfd] \in Seq(Bytes)
          BY <4>3, SessionAssumption
        <5>3. IsPrefixOf(<<>>, Stream[lfd])
          <6>1. SubSeq(Stream[lfd], 1, 0) = <<>>
            BY SubSeqEmpty
          <6>2. Len(<<>>) = 0 /\ 0 <= Len(Stream[lfd])
            BY <5>2
          <6> QED BY <6>1, <6>2 DEF IsPrefixOf
        <5> QED BY <5>1, <5>3 DEF StreamOf, UsedAt
      <4>5. FlowOf(s)'
        <5>1. SUFFICES ASSUME Live(s)', fd'[s] \notin robbed PROVE FlowsAt(s, fd[s])'
          BY <1>1 DEF FlowOf
        <5>2. fd[s] = lfd
          BY <2>1, <2>2, <3>3, <5>1 DEF Live
        <5> DEFINE b == EmptyBuffer
        <5>3. ReadValid(b) = 0 /\ Carries(b, Stream[lfd], 0)
          BY EmptyFields
        <5> HIDE DEF b
        <5>4. /\ recv_buffer'[s] = b /\ taken'[lfd] = 0 /\ consumed'[lfd] = <<>>
              /\ InUse(s)' = 0 /\ fd'[s] = lfd
          <6>1. fd' = fd /\ lfd \notin robbed /\ UNCHANGED <<consumed, taken>>
            BY <1>1, <2>1, <5>1, <5>2
          <6>2. consumed[lfd] = <<>> /\ taken[lfd] = 0
            BY <4>1, <6>1 DEF Fresh
          <6> QED BY <1>1, <2>1, <4>1, <4>2, <5>2, <6>1, <6>2 DEF b
        <5> QED BY <5>3, <5>4 DEF FlowsAt, Carries, ReadValid
      <4> QED BY <3>1, <4>4, <4>5
    <3> QED BY <3>2, <3>3
  <2> QED BY <1>r, <2>3, <2>5 DEF Flow
<1>12. CASE AddEvent
  <2>1. lpc' = "accept" /\ UNCHANGED <<fd, entered, recv_buffer, backlog>>
    BY <1>12 DEF AddEvent, sessVars, tcpVars, histVars
  <2>2. \A d \in Conns : CalmOf(d)'
    BY <1>1, <1>4, <2>1 DEF CalmOf, Fresh
  <2>3. \A s \in Sessions : SetUp(s)'
    BY <2>1 DEF SetUp, Given
  <2> QED BY <1>3, <2>1, <2>2, <2>3 DEF Live
<1> QED
  BY <1>6, <1>7, <1>8, <1>9, <1>10, <1>11, <1>12 DEF ListenStep

\* A step of a reactor.
LEMMA ReactorFlowKept ==
  ASSUME SessionInv, NEW r \in Reactors, ReactorStep(r)
  PROVE  Flow'
<1>s. PICK s : s = cur[r]
  OBVIOUS
<1>b. PICK b : b = recv_buffer[s]
  OBVIOUS
<1>0. Flow /\ FlowInv /\ OneSession /\ TypeParts /\ TypeOK
  BY FlowIs, TypesOfParts DEF SessionInv
<1>t. FdTypes /\ StepTypes /\ LocalTypes /\ CallTypes /\ BufTypes /\ TcpTypes /\ TakenTypes
      /\ MutexTypes
  BY <1>0 DEF TypeParts
<1>1. UNCHANGED <<fd, entered, listenVars, backlog, arrived, tainted>>
  BY ReactorFrame
<1>2. /\ s \in Sessions /\ b \in BufferType /\ Room(b) \in BufferType
      /\ WriteValid(Room(b)) \in 0 .. data_len /\ ReadValid(Room(b)) = ReadValid(b)
      /\ ReadValid(b) \in Int /\ r # None
  <2>1. s \in Sessions /\ b \in BufferType /\ r # None
    BY <1>t, <1>s, <1>b, SessionAssumption DEF StepTypes, BufTypes, Reactors
  <2>2. ReadValid(b) \in Int
    BY <2>1, BufferAssumption DEF BufferType, ReadValid
  <2> QED BY <2>1, <2>2, RoomKeeps
<1>3. /\ \A p \in Sessions : recv_mutex[p] = r => p = s
      /\ rpc[r] # "in_recved" => proc_len[r] = 0
      /\ rpc[r] \in Handling => recv_mutex[s] = r /\ InUse(s) = proc_len[r]
  BY <1>s, InUseIs
<1>4. s \notin tainted /\ rpc[r] \in {"recv", "call", "on_recved", "in_recved"} =>
        /\ Live(s) /\ fd[s] \in Conns /\ entered[s] = fd[s]
        /\ fd[s] \notin robbed => FlowsAt(s, fd[s]) /\ UsedAt(fd[s])
  <2>1. SUFFICES ASSUME s \notin tainted, rpc[r] \in {"recv", "call", "on_recved", "in_recved"}
                 PROVE  /\ Live(s) /\ fd[s] \in Conns /\ entered[s] = fd[s]
                        /\ fd[s] \notin robbed => FlowsAt(s, fd[s]) /\ UsedAt(fd[s])
    OBVIOUS
  <2>2. WorksOf(r, s)
    BY <1>2, HandlerIs DEF SessionInv
  <2>3. Live(s)
    BY <1>s, <2>1, <2>2 DEF WorksOf, Working
  <2>4. FlowOf(s) /\ StreamOf(s)
    BY <1>0, <1>2, <2>1 DEF Flow
  <2> QED BY <1>t, <1>2, <2>3, <2>4 DEF Live, FlowOf, StreamOf, FdTypes
<1>a. \A c \in Conns : /\ taken[c] \in Nat /\ arrived[c] \in Nat
                       /\ arrived[c] <= arrived[c] /\ arrived[c] <= Len(Stream[c])
  BY <1>0, <1>t DEF TcpTypes, TakenTypes, FlowInv
<1>r. robbed # {} => tainted # {}
  BY <1>0 DEF Flow
<1>5. ASSUME UNCHANGED <<recv_buffer, taken, consumed, robbed>>, \A p \in Sessions : InUse(p)' = InUse(p)
      PROVE  Flow'
  BY <1>0, <1>1, <1>5, <1>a, FlowStill
<1>6. ASSUME rpc[r] # "in_recved", UNCHANGED proc_len
      PROVE  \A p \in Sessions : InUse(p)' = InUse(p)
  <2> TAKE p \in Sessions
  <2>1. proc_len[r] = 0
    BY <1>3, <1>6
  <2>2. recv_mutex'[p] = recv_mutex[p] \/ {recv_mutex[p], recv_mutex'[p]} = {r, None}
    BY HandlerStep
  <2>3. proc_len' = proc_len
    BY <1>6
  <2> QED BY <1>2, <2>1, <2>2, <2>3 DEF InUse
<1>7. ASSUME rpc[r] = "recv", UNCHANGED <<recv_mutex, proc_len, taken, consumed, robbed>>,
             recv_buffer' = [recv_buffer EXCEPT ![cur[r]] = Room(b)]
      PROVE  Flow'
  <2>1. \A p \in Sessions : /\ recv_buffer'[p] = IF p = s THEN Room(b) ELSE recv_buffer[p]
                            /\ InUse(p)' = InUse(p)
    BY <1>t, <1>6, <1>7, <1>s, <1>b DEF BufTypes
  <2>2. ASSUME s \notin tainted, fd[s] \notin robbed PROVE FlowsAt(s, fd[s])' /\ UsedAt(fd[s])'
    <3> DEFINE c == fd[s]
               bb == Room(b)
    <3>1. c \in Conns /\ FlowsAt(s, c) /\ UsedAt(c)
      BY <1>4, <1>7, <2>2
    <3>2. Carries(b, Stream[c], taken[c])
      BY <3>1, <1>s, <1>b DEF FlowsAt
    <3>3. Carries(bb, Stream[c], taken[c])
      BY <1>2, <1>a, <3>1, <3>2, RoomKeeps
    <3>4. ReadValid(bb) = ReadValid(b) /\ InUse(s) <= ReadValid(b)
          /\ Len(consumed[c]) + ReadValid(b) = taken[c] + InUse(s)
      BY <1>2, <3>1, <1>s, <1>b DEF FlowsAt
    <3>5. /\ recv_buffer'[s] = bb /\ InUse(s)' = InUse(s) /\ fd' = fd /\ taken' = taken
          /\ consumed' = consumed /\ entered' = entered
      BY <1>1, <1>2, <1>7, <2>1
    <3> HIDE DEF bb
    <3>6. FlowsAt(s, fd[s])'
      BY <3>3, <3>4, <3>5 DEF FlowsAt, Carries, ReadValid
    <3>7. UsedAt(fd[s])'
      BY <3>1, <3>5 DEF UsedAt
    <3> QED BY <3>6, <3>7
  <2>4. s \notin tainted => Live(s)
    BY <1>4, <1>7
  <2> DEFINE none == None
  <2>3. none \notin Conns
    BY SessionAssumption
  <2> HIDE DEF none
  <2> QED BY <1>1, <1>2, <1>7, <1>r, <2>1, <2>2, <2>3, <2>4, FlowTouched
<1>8. ASSUME NEW c \in Conns, RecvBytes(r, c) PROVE Flow'
  <2> DEFINE pos == call[r].pos
             room == call[r].room
             m == Next_(c, room)
             bytes == BytesNext(c, room)
             new == Received(b, pos, bytes, m)
  <2>0. /\ pos \in 0 .. data_len /\ room \in 0 .. data_len /\ rpc[r] # "in_recved"
        /\ UNCHANGED <<recv_mutex, proc_len, consumed>>
        /\ c \in Reached(r) /\ InRecv(r)
        /\ robbed' = IF fd[s] = c THEN robbed ELSE robbed \cup {c}
    <3>1. InRecv(r) => call[r] \in CallType
      BY HandlerIs DEF SessionInv, HandlerOf, InRecv
    <3> QED BY <1>8, <1>s, <3>1 DEF RecvBytes, InRecv, CallType
  <2>1. /\ m \in 0 .. room /\ taken[c] + m <= arrived[c] /\ arrived[c] <= Len(Stream[c])
        /\ recv_buffer' = [recv_buffer EXCEPT ![s] = new]
        /\ taken' = [taken EXCEPT ![c] = @ + m]
    BY <1>0, <1>8, <2>0, ReceiveSteps, <1>s, <1>b
  <2> HIDE DEF new
  <2>2. \A p \in Sessions : /\ recv_buffer'[p] = IF p = s THEN new ELSE recv_buffer[p]
                            /\ InUse(p)' = InUse(p)
    BY <1>t, <1>6, <2>0, <2>1 DEF BufTypes
  <2>3. \A d \in Conns : /\ taken'[d] = IF d = c THEN taken[c] + m ELSE taken[d]
                         /\ consumed'[d] = consumed[d]
    BY <1>t, <2>0, <2>1 DEF TakenTypes
  <2>6. s \notin tainted => /\ rpc[r] = "call" /\ c = fd[s] /\ Live(s)
                            /\ pos = b.write_pos /\ room = WriteValid(b)
    <3> SUFFICES ASSUME s \notin tainted
                 PROVE  /\ rpc[r] = "call" /\ c = fd[s] /\ Live(s)
                        /\ pos = b.write_pos /\ room = WriteValid(b)
      OBVIOUS
    <3>1. /\ rpc[r] = "call" /\ Live(s) /\ Reached(r) = {fd[s]}
          /\ call[r] = CallFor(fd[s], b)
      BY <1>s, <1>b, <2>0, ReachedOwn
    <3>2. pos = b.write_pos /\ room = WriteValid(b)
      BY <3>1 DEF CallFor
    <3> QED BY <2>0, <3>1, <3>2
  <2>4. ASSUME s \notin tainted, fd[s] \notin robbed PROVE FlowsAt(s, fd[s])' /\ UsedAt(fd[s])'
    <3>1. /\ rpc[r] = "call" /\ c = fd[s] /\ pos = b.write_pos /\ room = WriteValid(b)
          /\ FlowsAt(s, c) /\ UsedAt(c)
      BY <1>4, <2>4, <2>6
    <3> DEFINE n == taken[c]
    <3>2. Carries(b, Stream[c], n)
      BY <3>1, <1>s, <1>b DEF FlowsAt
    <3>4. /\ n \in Nat /\ m \in 0 .. WriteValid(b) /\ n + m <= Len(Stream[c])
          /\ Stream[c] \in Seq(Bytes)
          /\ new = Received(b, b.write_pos, SubSeq(Stream[c], n + 1, n + m), m)
      <4>1. taken[c] + m <= Len(Stream[c])
        <5>1. m \in Nat /\ taken[c] \in Nat /\ arrived[c] \in Nat /\ Len(Stream[c]) \in Nat
          BY <1>a, <1>8, <2>0, <2>1, SessionAssumption
        <5> QED BY <2>1, <5>1
      <4>2. Stream[c] \in Seq(Bytes)
        BY SessionAssumption
      <4> QED BY <1>a, <2>1, <3>1, <4>1, <4>2 DEF new, BytesNext
    <3> HIDE DEF n, m, pos, room
    <3>5. Carries(new, Stream[c], n + m) /\ ReadValid(new) = ReadValid(b) + m
      BY <1>2, <3>2, <3>4, ReceivedCarries
    <3>6. /\ InUse(s) <= ReadValid(b)
          /\ Len(consumed[c]) + ReadValid(b) = n + InUse(s)
      BY <3>1, <1>s, <1>b DEF FlowsAt, n
    <3>7. /\ recv_buffer'[s] = new /\ InUse(s)' = InUse(s) /\ fd'[s] = c /\ taken'[c] = n + m
          /\ consumed' = consumed
      BY <1>1, <1>2, <2>0, <2>2, <2>3, <3>1 DEF n
    <3>8. /\ InUse(s) <= ReadValid(new)
          /\ Len(consumed[c]) + ReadValid(new) = n + m + InUse(s)
      <4>1. m \in Nat /\ ReadValid(b) \in Int /\ n \in Nat /\ Len(consumed[c]) \in Nat
        <5>1. m \in Nat
          BY <2>0, <2>1
        <5>2. consumed[c] \in Seq(Bytes)
          BY <1>t DEF TakenTypes
        <5> QED BY <1>2, <3>4, <5>1, <5>2
      <4>2. InUse(s) = proc_len[r] /\ proc_len[r] = 0
        BY <1>3, <3>1 DEF Handling
      <4> QED BY <3>5, <3>6, <4>1, <4>2
    <3>9. FlowsAt(s, fd[s])'
      BY <3>5, <3>7, <3>8 DEF FlowsAt, Carries, ReadValid
    <3>10. UsedAt(fd[s])'
      BY <3>1, <3>7 DEF UsedAt
    <3> QED BY <3>9, <3>10
  <2>5. /\ taken'[c] <= arrived[c] /\ robbed \subseteq robbed'
        /\ robbed' # {} => tainted # {}
        /\ Meets(s, c) \/ (c \in robbed' /\ consumed'[c] = consumed[c])
    <3>1. taken'[c] <= arrived[c]
      BY <2>1, <2>3
    <3> QED BY <1>r, <2>0, <2>6, <3>1 DEF Meets
  <2> QED BY <1>1, <1>2, <1>8, <2>2, <2>3, <2>4, <2>5, <2>6, FlowTouched
<1>9. CASE EpollWait(r) \/ NextEvent(r) \/ Lock(r)
  <2>1. rpc[r] # "in_recved" /\ UNCHANGED <<proc_len, recv_buffer, taken, consumed, robbed>>
    BY <1>9 DEF EpollWait, NextEvent, Lock, sessVars, tcpVars, histVars
  <2> QED BY <1>5, <1>6, <2>1
<1>10. CASE OnClose(r) \/ EndOnClose(r) \/ Again(r)
  <2>1. rpc[r] # "in_recved" /\ UNCHANGED <<proc_len, recv_buffer, taken, consumed, robbed>>
    BY <1>10 DEF OnClose, EndOnClose, Again, sessVars, tcpVars, histVars
  <2> QED BY <1>5, <1>6, <2>1
<1>11. CASE BufferFull(r) \/ CallRecv(r)
  <2>1. /\ rpc[r] = "recv" /\ UNCHANGED <<recv_mutex, proc_len, taken, consumed, robbed>>
        /\ recv_buffer' = [recv_buffer EXCEPT ![cur[r]] = Room(b)]
    BY <1>11, <1>s, <1>b DEF BufferFull, CallRecv, tcpVars, histVars
  <2> QED BY <1>7, <2>1
<1>12. CASE RecvEnds(r) \/ RecvNothing(r) \/ RecvBlocks(r)
  <2>1. rpc[r] # "in_recved" /\ UNCHANGED <<proc_len, recv_buffer, taken, consumed, robbed>>
    BY <1>12 DEF RecvEnds, RecvNothing, RecvBlocks, InRecv, sessVars, tcpVars, histVars
  <2> QED BY <1>5, <1>6, <2>1
<1>14. CASE OnRecved(r)
  <2> DEFINE shown == Content(b)
             c == entered[s]
  <2>1. /\ rpc[r] = "on_recved" /\ UNCHANGED <<recv_buffer, recv_mutex, taken, robbed>>
    BY <1>14 DEF OnRecved, sessVars, tcpVars
  <2>2. PICK n \in 0 .. Len(shown) :
          /\ proc_len' = [proc_len EXCEPT ![r] = n]
          /\ consumed' = IF c = None THEN consumed
                         ELSE [consumed EXCEPT ![c] = @ \o SubSeq(shown, 1, n)]
    BY <1>14, <1>s, <1>b DEF OnRecved
  <2>3. \A p \in Sessions : p # s => recv_buffer'[p] = recv_buffer[p] /\ InUse(p)' = InUse(p)
    BY <1>t, <1>3, <2>1, <2>2 DEF InUse, LocalTypes, MutexTypes
  <2>4. \A d \in Conns : d # c => taken'[d] = taken[d] /\ consumed'[d] = consumed[d]
    BY <1>t, <2>1, <2>2 DEF TakenTypes
  <2>5. c \in Conns => Meets(s, c) /\ taken'[c] <= arrived[c]
    BY <1>0, <2>1 DEF Meets, FlowInv
  <2>6. ASSUME s \notin tainted, fd[s] \notin robbed PROVE FlowsAt(s, fd[s])' /\ UsedAt(fd[s])'
    <3>1. /\ fd[s] = c /\ c \in Conns /\ FlowsAt(s, c) /\ UsedAt(c) /\ c # None
      BY <1>4, <2>1, <2>6, SessionAssumption
    <3>2. InUse(s) = 0 /\ InUse(s)' = n
      BY <1>t, <1>2, <1>3, <2>1, <2>2 DEF Handling, InUse, LocalTypes
    <3>3. /\ Carries(b, Stream[c], taken[c])
          /\ Len(consumed[c]) + ReadValid(b) = taken[c]
      BY <1>2, <1>a, <3>1, <3>2, <1>s, <1>b DEF FlowsAt
    <3>4. /\ shown \in Seq(Bytes) /\ Len(shown) = ReadValid(b)
          /\ \A i \in 1 .. Len(shown) : shown[i] = b.data[b.read_pos + i - 1]
      BY <1>2, <3>3, ContentFields DEF Carries
    <3>5. /\ consumed[c] \in Seq(Bytes) /\ Stream[c] \in Seq(Bytes) /\ n \in Nat
          /\ taken[c] \in Nat /\ taken[c] <= Len(Stream[c]) /\ n <= ReadValid(b)
          /\ Len(consumed[c]) \in Nat /\ Len(Stream[c]) \in Nat
      <4>1. consumed[c] \in Seq(Bytes) /\ Stream[c] \in Seq(Bytes)
        BY <1>t, <3>1, SessionAssumption DEF TakenTypes
      <4>2. taken[c] <= arrived[c] /\ arrived[c] <= Len(Stream[c])
            /\ taken[c] \in Nat /\ arrived[c] \in Nat
        BY <1>0, <1>a, <3>1 DEF FlowInv
      <4>3. Len(consumed[c]) \in Nat /\ Len(Stream[c]) \in Nat
        BY <4>1
      <4> QED BY <1>2, <3>4, <4>1, <4>2, <4>3
    <3>6. IsPrefixOf(consumed[c], Stream[c])
      BY <3>1 DEF UsedAt
    <3> DEFINE k == Len(consumed[c])
    <3>7. \A i \in 1 .. n : shown[i] = Stream[c][k + i]
      <4> SUFFICES ASSUME NEW i \in 1 .. n PROVE shown[i] = Stream[c][k + i]
        OBVIOUS
      <4>1. i \in 1 .. ReadValid(b) /\ taken[c] - ReadValid(b) + i = k + i
        BY <1>2, <3>3, <3>5, SMTT(60)
      <4>2. b.data[b.read_pos + i - 1] = Stream[c][taken[c] - ReadValid(b) + i]
        BY <3>3, <4>1 DEF Carries
      <4> QED BY <3>4, <4>1, <4>2
    <3>8. n \in 0 .. Len(shown) /\ k + n <= Len(Stream[c])
      BY <1>2, <3>3, <3>4, <3>5
    <3> DEFINE used == consumed[c] \o SubSeq(shown, 1, n)
    <3>9. used \in Seq(Bytes) /\ Len(used) = k + n /\ IsPrefixOf(used, Stream[c])
      <4> HIDE DEF shown
      <4> QED BY <3>4, <3>5, <3>6, <3>7, <3>8, PrefixExtends
    <3>10. consumed'[c] = used
      BY <1>t, <2>2, <3>1 DEF TakenTypes
    <3> HIDE DEF used, shown
    <3>11. UsedAt(fd[s])'
      <4>1. fd'[s] = c
        BY <1>1, <3>1
      <4> QED BY <3>9, <3>10, <4>1 DEF UsedAt
    <3>12. FlowsAt(s, fd[s])'
      <4>1. /\ fd'[s] = c /\ recv_buffer'[s] = b /\ taken'[c] = taken[c] /\ InUse(s)' = n
            /\ consumed'[c] = used
        BY <1>1, <2>1, <3>1, <3>2, <3>10, <1>s, <1>b
      <4>2. n <= ReadValid(b) /\ Len(used) + ReadValid(b) = taken[c] + n
        BY <1>2, <3>3, <3>5, <3>9, SMTT(60)
      <4> QED BY <3>3, <4>1, <4>2 DEF FlowsAt, Carries, ReadValid
    <3> QED BY <3>11, <3>12
  <2>7. s \notin tainted => Live(s)
    BY <1>4, <2>1
  <2> HIDE DEF c
  <2> QED BY <1>1, <1>2, <1>r, <2>1, <2>3, <2>4, <2>5, <2>6, <2>7, FlowTouched
<1>15. CASE EndOnRecved(r)
  <2> DEFINE n == proc_len[r]
             new == AddReadPos(b, n)
  <2>1. /\ rpc[r] = "in_recved" /\ UNCHANGED <<recv_mutex, taken, consumed, robbed>>
        /\ recv_buffer' = [recv_buffer EXCEPT ![s] = new]
        /\ proc_len' = [proc_len EXCEPT ![r] = 0]
    BY <1>15, <1>s, <1>b DEF EndOnRecved, Passed, tcpVars, histVars
  <2> HIDE DEF new
  <2>2. \A p \in Sessions : p # s => recv_buffer'[p] = recv_buffer[p] /\ InUse(p)' = InUse(p)
    BY <1>t, <1>3, <2>1 DEF InUse, LocalTypes, MutexTypes, BufTypes
  <2>3. ASSUME s \notin tainted, fd[s] \notin robbed PROVE FlowsAt(s, fd[s])' /\ UsedAt(fd[s])'
    <3> DEFINE c == fd[s]
    <3>1. c \in Conns /\ FlowsAt(s, c) /\ UsedAt(c)
      BY <1>4, <2>1, <2>3
    <3>2. InUse(s) = n /\ InUse(s)' = 0
      BY <1>t, <1>2, <1>3, <2>1 DEF Handling, InUse, LocalTypes
    <3>3. /\ Carries(b, Stream[c], taken[c]) /\ n <= ReadValid(b)
          /\ Len(consumed[c]) + ReadValid(b) = taken[c] + n
      BY <3>1, <3>2, <1>s, <1>b DEF FlowsAt
    <3>4. n \in 0 .. ReadValid(b) /\ n \in Nat
      BY <1>t, <1>2, <3>3, BufferAssumption DEF LocalTypes
    <3>5. Carries(new, Stream[c], taken[c]) /\ ReadValid(new) = ReadValid(b) - n
      BY <1>2, <1>a, <3>1, <3>3, <3>4, ReadCarries DEF new
    <3>6. /\ fd'[s] = c /\ recv_buffer'[s] = new /\ taken' = taken /\ consumed' = consumed
          /\ entered' = entered
      BY <1>1, <1>2, <1>t, <2>1 DEF BufTypes
    <3>7. 0 <= ReadValid(new) /\ Len(consumed[c]) + ReadValid(new) = taken[c] + 0
      <4>1. Len(consumed[c]) \in Nat /\ taken[c] \in Nat
        <5>1. consumed[c] \in Seq(Bytes)
          BY <1>t, <3>1 DEF TakenTypes
        <5> QED BY <1>a, <3>1, <5>1
      <4> QED BY <1>2, <3>3, <3>4, <3>5, <4>1, SMTT(60)
    <3>8. FlowsAt(s, fd[s])'
      BY <3>2, <3>5, <3>6, <3>7 DEF FlowsAt, Carries, ReadValid
    <3>9. UsedAt(fd[s])'
      BY <3>1, <3>6 DEF UsedAt
    <3> QED BY <3>8, <3>9
  <2>5. s \notin tainted => Live(s)
    BY <1>4, <2>1
  <2> DEFINE none == None
  <2>4. none \notin Conns
    BY SessionAssumption
  <2> HIDE DEF none
  <2> QED BY <1>1, <1>2, <1>r, <2>1, <2>2, <2>3, <2>4, <2>5, FlowTouched
<1> QED
  BY <1>8, <1>9, <1>10, <1>11, <1>12, <1>14, <1>15 DEF ReactorStep

LEMMA FlowKept ==
  ASSUME SessionInv, [Next]_vars
  PROVE  FlowInv' /\ StreamIntactUnlessTainted'
<1>0. Flow /\ TypeParts
  BY FlowIs, TypesOfParts DEF SessionInv
<1>t. /\ FdTypes /\ TcpTypes /\ TakenTypes
      /\ asession \in Sessions /\ \A r \in Reactors : cur[r] \in Sessions
  BY <1>0 DEF TypeParts, AppTypes, StepTypes
<1> SUFFICES Flow'
  BY FlowIsNext
<1>a. \A c \in Conns : /\ taken[c] \in Nat /\ arrived[c] \in Nat
                       /\ arrived[c] <= arrived[c] /\ arrived[c] <= Len(Stream[c])
  BY <1>t DEF TcpTypes, TakenTypes, SessionInv, FlowInv
<1>1. ASSUME UNCHANGED <<fd, entered, recv_buffer, recv_mutex, taken, consumed, listenVars,
                         backlog, proc_len, tainted, arrived, robbed>>
      PROVE  Flow'
  <2>1. \A s \in Sessions : InUse(s)' = InUse(s)
    BY <1>1 DEF InUse
  <2> QED BY <1>0, <1>1, <1>a, <2>1, FlowStill
<1>2. ASSUME NEW s \in Sessions, NEW q, NEW by, Closes(s, q, by)
      PROVE  Flow'
  <2>1. UNCHANGED <<recv_buffer, recv_mutex, proc_len, listenVars, backlog, arrived, taken,
                    entered, consumed, robbed>>
    BY <1>2 DEF Closes, reactVars
  <2>2. CASE ~IsOpen(s)
    <3>1. UNCHANGED <<fd, tainted>>
      BY <1>2, <2>2 DEF Closes, CloseSession
    <3> QED BY <1>1, <2>1, <3>1
  <2>3. CASE IsOpen(s)
    <3>1. fd' = [fd EXCEPT ![s] = None] /\ tainted \subseteq tainted'
      BY <1>2, <2>3 DEF Closes, CloseSession
    <3>2. \A c \in Conns : CalmOf(c)'
      BY <1>0, <2>1 DEF Flow, CalmOf, Fresh, listenVars
    <3>3. ASSUME NEW p \in Sessions, p \notin tainted'
          PROVE  FlowOf(p)' /\ SetUp(p)' /\ StreamOf(p)'
      <4>1. FlowOf(p) /\ SetUp(p) /\ StreamOf(p)
        BY <1>0, <3>1, <3>3 DEF Flow
      <4>2. SetUp(p)' /\ StreamOf(p)'
        BY <2>1, <4>1 DEF SetUp, StreamOf, UsedAt, Fresh, listenVars
      <4>3. CASE p = s
        BY <1>t, <3>1, <4>2, <4>3 DEF FlowOf, Live, FdTypes
      <4>4. CASE p # s
        <5>1. fd'[p] = fd[p]
          BY <1>t, <3>1, <4>4 DEF FdTypes
        <5>2. Live(p) /\ fd[p] \notin robbed => FlowsAt(p, fd[p])'
          <6>1. SUFFICES ASSUME Live(p), fd[p] \notin robbed PROVE FlowsAt(p, fd[p])'
            OBVIOUS
          <6> DEFINE c == fd[p]
          <6>2. FlowsAt(p, c)
            BY <4>1, <6>1 DEF FlowOf
          <6>3. InUse(p)' = InUse(p) /\ fd'[p] = fd[p]
            BY <2>1, <5>1 DEF InUse
          <6> QED BY <2>1, <6>2, <6>3 DEF FlowsAt, Carries, ReadValid
        <5>3. Live(p)' <=> Live(p)
          BY <2>1, <5>1 DEF Live
        <5>4. FlowOf(p)'
          BY <2>1, <5>1, <5>2, <5>3 DEF FlowOf
        <5> QED BY <4>2, <5>4
      <4> QED BY <4>3, <4>4
    <3>4. robbed' # {} => tainted' # {}
      BY <1>0, <2>1, <3>1 DEF Flow
    <3> QED BY <3>2, <3>3, <3>4 DEF Flow
  <2> QED BY <2>2, <2>3
<1>3. ASSUME NEW c \in Conns, Arrive(c) \/ HalfClose(c) PROVE Flow'
  <2>1. UNCHANGED <<fd, entered, recv_buffer, recv_mutex, taken, consumed, listenVars,
                    backlog, proc_len, tainted, robbed>>
    BY <1>3, ClientFrame DEF sessVars, histVars, reactVars
  <2>2. \A d \in Conns : /\ arrived[d] <= arrived'[d] /\ arrived'[d] <= Len(Stream[d])
                         /\ arrived'[d] \in Nat
    <3>1. CASE Arrive(c)
      <4>1. /\ arrived[c] < Len(Stream[c]) /\ Len(Stream[c]) \in Nat
            /\ \A d \in Conns : arrived'[d] = IF d = c THEN arrived[c] + 1 ELSE arrived[d]
        <5>1. Stream[c] \in Seq(Bytes)
          BY SessionAssumption
        <5>2. Len(Stream[c]) \in Nat
          BY <5>1
        <5> QED BY <1>t, <3>1, <5>2 DEF Arrive, TcpTypes
      <4> QED BY <1>a, <4>1
    <3>2. CASE HalfClose(c)
      <4>1. UNCHANGED arrived
        BY <3>2 DEF HalfClose
      <4> QED BY <1>a, <4>1
    <3> QED BY <1>3, <3>1, <3>2
  <2>3. \A s \in Sessions : InUse(s)' = InUse(s)
    BY <2>1 DEF InUse
  <2> QED BY <1>0, <1>a, <2>1, <2>2, <2>3, FlowStill
<1>4. ASSUME BeginClose PROVE Flow'
  BY <1>1, <1>4 DEF BeginClose, sessVars, reactVars, tcpVars, histVars
<1>5. ASSUME Close PROVE Flow'
  BY <1>t, <1>2, <1>5, CloseFrame
<1>6. ASSUME NEW r \in Reactors, CloseInCallback(r) PROVE Flow'
  BY <1>t, <1>2, <1>6, CallbackFrame
<1>7. ASSUME UNCHANGED vars PROVE Flow'
  BY <1>1, <1>7 DEF vars, sessVars, reactVars, tcpVars, histVars
<1> QED
  BY <1>3, <1>4, <1>5, <1>6, <1>7, ListenFlowKept, ReactorFlowKept DEF Next

-----------------------------------------------------------------------------
(***************************************************************************)
(* The theorems.                                                           *)
(***************************************************************************)

\* The list of Init: all sessions, each once.
LEMMA FreeAtStart ==
  ASSUME NEW list, list = [i \in 1 .. max_num |-> i - 1]
  PROVE  /\ list \in Seq(Sessions) /\ Len(list) = max_num /\ FreeOf(list) = Sessions
         /\ Cardinality(Sessions) = max_num
<1>1. max_num \in Nat \ {0}
  BY SessionAssumption
<1>2. \A i \in 1 .. max_num : i - 1 \in Sessions
  BY <1>1 DEF Sessions
<1>3. list \in Seq(Sessions) /\ Len(list) = max_num
  BY <1>1, <1>2
<1>4. ASSUME NEW s \in Sessions PROVE s \in FreeOf(list)
  <2>1. s + 1 \in 1 .. max_num /\ (s + 1) - 1 = s
    BY <1>1 DEF Sessions
  <2>2. list[s + 1] = s
    BY <2>1
  <2> QED BY <1>3, <2>1, <2>2 DEF FreeOf
<1>5. \A i \in 1 .. max_num : list[i] \in Sessions
  BY <1>2
<1>6. FreeOf(list) = Sessions
  BY <1>3, <1>4, <1>5 DEF FreeOf
<1>7. Cardinality(Sessions) = max_num
  <2>1. 0 \in Int /\ max_num - 1 \in Int /\ 0 <= max_num - 1
    BY <1>1
  <2>2. Cardinality(0 .. max_num - 1) = IF 0 > max_num - 1 THEN 0 ELSE (max_num - 1) - 0 + 1
    BY <2>1, FS_Interval, Zenon
  <2> QED BY <1>1, <2>1, <2>2 DEF Sessions
<1> QED
  BY <1>3, <1>6, <1>7

LEMMA SessionInit == Init => SessionInv
<1> SUFFICES ASSUME Init PROVE SessionInv
  OBVIOUS
<1>0. /\ max_num \in Nat \ {0} /\ reactor_num \in Nat \ {0} /\ None \notin Conns
      /\ None \notin Reactors /\ 0 \in Sessions /\ 0 \in Reactors /\ data_len \in Nat
      /\ EmptyBuffer \in BufferType
  BY SessionAssumption, BufferAssumption, EmptyFields DEF Sessions, Reactors
<1>1. /\ freelist \in Seq(Sessions) /\ Len(freelist) = max_num /\ FreeOf(freelist) = Sessions
      /\ Cardinality(Sessions) = max_num
  BY FreeAtStart DEF Init
<1>2. /\ fd = [s \in Sessions |-> None] /\ entered = [s \in Sessions |-> None]
      /\ lpc = "accept" /\ lfd = None /\ backlog = Conns /\ open = {} /\ leaked = {}
      /\ registered = [c \in Conns |-> None] /\ ready = {} /\ tainted = {}
      /\ rpc = [r \in Reactors |-> "wait"] /\ batch = [r \in Reactors |-> {}]
      /\ proc_begin = [r \in Reactors |-> FALSE] /\ proc_len = [r \in Reactors |-> 0]
      /\ recv_mutex = [s \in Sessions |-> None]
      /\ arrived = [c \in Conns |-> 0] /\ taken = [c \in Conns |-> 0]
      /\ consumed = [c \in Conns |-> <<>>] /\ robbed = {}
  BY DEF Init
<1>3. TypeOK
  <2>1. BufTypes /\ MutexTypes /\ FdTypes
    BY <1>0 DEF Init, BufTypes, MutexTypes, FdTypes
  <2>2. FreeTypes
    BY <1>0, <1>1 DEF Init, FreeTypes
  <2>3. ListenTypes /\ StepTypes
    BY <1>0 DEF Init, ListenTypes, StepTypes
  <2>4. LocalTypes /\ CallTypes
    BY <1>0 DEF Init, LocalTypes, CallTypes
  <2>5. AppTypes /\ TcpTypes /\ NumberTypes
    BY <1>0 DEF Init, AppTypes, TcpTypes, NumberTypes
  <2>6. TakenTypes /\ EpollTypes
    <3>1. <<>> \in Seq(Bytes)
      OBVIOUS
    <3> QED BY <1>2, <3>1 DEF TakenTypes, EpollTypes
  <2> QED
    BY <2>1, <2>2, <2>3, <2>4, <2>5, <2>6, TypesOfParts DEF TypeParts
<1>4. FreeListExact
  <2>1. freelist_num = max_num
    BY DEF Init
  <2> QED BY <1>0, <1>1, <1>2, <2>1, FreeExactIs
<1>5. ConnsOwned
  BY <1>2, OwnedIs DEF Places, Numbered
<1>6. OneSession
  BY <1>0, <1>2 DEF OneSession, Meets, Given
<1>7. ListenInv
  BY <1>2 DEF ListenInv, Given
<1>8. HandlerInv
  BY <1>0, <1>2 DEF HandlerInv, Working, Handling
<1>9. FlowInv /\ StreamIntactUnlessTainted
  <2>1. \A c \in Conns : CalmOf(c)
    <3>1. \A c \in Conns : Stream[c] \in Seq(Bytes)
      BY SessionAssumption
    <3>2. \A c \in Conns : 0 <= Len(Stream[c])
      BY <3>1
    <3> QED BY <1>2, <3>2 DEF CalmOf, Fresh
  <2>2. \A s \in Sessions : FlowOf(s) /\ SetUp(s) /\ StreamOf(s)
    BY <1>2 DEF FlowOf, SetUp, StreamOf, Live, Given
  <2> QED BY <1>2, <2>1, <2>2, FlowIs DEF Flow
<1> QED
  BY <1>3, <1>4, <1>5, <1>6, <1>7, <1>8, <1>9 DEF SessionInv

LEMMA SessionStep == SessionInv /\ [Next]_vars => SessionInv'
  BY TypeKept, FreeKept, OwnedKept, OneKept, ListenKept, HandlerKept, FlowKept DEF SessionInv

\* SessionInv is inductive: it holds initially and every step of the clients, the
\* listen thread, the reactors, the callbacks and server_close keeps it.
THEOREM SessionInvariance == Spec => []SessionInv
<1> QED
  BY SessionInit, SessionStep, PTL DEF Spec

\* Closing a session twice, from two threads at once, or while it is being set up,
\* never puts it on the free list twice or while it has a connection.
THEOREM FreeListStaysExact == Spec => []FreeListExact
<1>1. SessionInv => FreeListExact
  BY DEF SessionInv
<1> QED
  BY <1>1, SessionInvariance, PTL

\* Every open descriptor belongs to one session, is in the listen thread's hands or
\* was forgotten for want of a session; server_close closes no other's.
THEOREM ConnsStayOwned == Spec => []ConnsOwned
<1>1. SessionInv => ConnsOwned
  BY DEF SessionInv
<1> QED
  BY <1>1, SessionInvariance, PTL

\* The logic is shown a connection's bytes in order and without gaps, on every
\* session that was never closed under a receive handler, unless the handler of one
\* that was received from the connection by the number of its descriptor.
THEOREM StreamsIntact == Spec => []StreamIntactUnlessTainted
<1>1. SessionInv => StreamIntactUnlessTainted
  BY DEF SessionInv
<1> QED
  BY <1>1, SessionInvariance, PTL

-----------------------------------------------------------------------------
(***************************************************************************)
(* The server implements ServerInterface.                                  *)
(***************************************************************************)
LEMMA ServingFields ==
  /\ \A s \in Sessions : Serving[s] = IF lpc = "fd" /\ lsession = s THEN lfd ELSE fd[s]
  /\ \A s \in Sessions :
       s \in Promised <=> /\ s \notin tainted /\ fd[s] # None /\ entered[s] = fd[s]
                         /\ fd[s] \notin robbed
  BY DEF Serving, Promised, Live

LEMMA ServingFieldsNext ==
  /\ \A s \in Sessions :
       Serving'[s] = IF lpc' = "fd" /\ lsession' = s THEN lfd' ELSE fd'[s]
  /\ \A s \in Sessions :
       s \in Promised' <=> /\ s \notin tainted' /\ fd'[s] # None /\ entered'[s] = fd'[s]
                          /\ fd'[s] \notin robbed'
  BY DEF Serving, Promised, Live

LEMMA ServingSame ==
  ASSUME \A s \in Sessions : Serving'[s] = Serving[s]
  PROVE  Serving' = Serving
  BY DEF Serving

LEMMA ServingSet ==
  ASSUME NEW s \in Sessions, NEW x, Serving'[s] = x,
         \A q \in Sessions : q # s => Serving'[q] = Serving[q]
  PROVE  Serving' = [Serving EXCEPT ![s] = x]
  BY DEF Serving

LEMMA PromisedSame ==
  ASSUME \A s \in Sessions : s \in Promised' <=> s \in Promised
  PROVE  Promised' = Promised
  BY DEF Promised

\* A step that the logic sees nothing of.
LEMMA InterfaceStutter ==
  ASSUME UNCHANGED <<fd, entered, consumed, tainted, robbed, backlog>>,
         UNCHANGED <<lpc, lfd, lsession>> \/ {lpc, lpc'} \cap {"pop", "fd"} = {}
  PROVE  UNCHANGED Interface!vars
<1>1. Unaccepted' = Unaccepted
  BY DEF Unaccepted
<1>2. Serving' = Serving
  BY ServingFields, ServingFieldsNext, ServingSame
<1>3. Promised' = Promised
  BY DEF Promised, Live
<1> QED
  BY <1>1, <1>2, <1>3 DEF Interface!vars

LEMMA InterfaceInit == Init => Interface!Init
<1> SUFFICES ASSUME Init PROVE Interface!Init
  OBVIOUS
<1>1. /\ fd = [s \in Sessions |-> None] /\ lpc = "accept" /\ backlog = Conns
      /\ entered = [s \in Sessions |-> None] /\ consumed = [c \in Conns |-> <<>>]
      /\ tainted = {}
  BY DEF Init
<1>2. Unaccepted = Conns /\ Promised = {}
  BY <1>1 DEF Unaccepted, Promised, Live
<1>3. Serving = [s \in Sessions |-> None]
  BY <1>1 DEF Serving
<1> QED
  BY <1>1, <1>2, <1>3 DEF Interface!Init

\* A connection the listen thread accepts still waits until there is a session.
LEMMA AcceptRefines ==
  ASSUME SessionInv, Accept
  PROVE  [Interface!Next]_(Interface!vars)
<1>1. PICK c \in backlog :
        /\ backlog' = backlog \ {c}
        /\ IF freelist_num > 0 THEN lpc' = "pop" /\ lfd' = c ELSE lpc' = lpc
  BY DEF Accept
<1>2. /\ lpc = "accept" /\ backlog \subseteq Conns
      /\ UNCHANGED <<fd, entered, consumed, tainted, robbed, lsession>>
  BY DEF Accept, sessVars, SessionInv, TypeOK
<1>3. Serving' = Serving /\ Promised' = Promised
  <2>1. lpc' # "fd"
    BY <1>1, <1>2
  <2> QED
    BY <1>2, <2>1, ServingFields, ServingFieldsNext, ServingSame, PromisedSame
<1>4. CASE freelist_num > 0
  <2>1. Unaccepted' = Unaccepted
    BY <1>1, <1>2, <1>4 DEF Unaccepted
  <2> QED
    BY <1>2, <1>3, <2>1 DEF Interface!vars
<1>5. CASE ~(freelist_num > 0)
  <2>1. Unaccepted' = Unaccepted \ {c} /\ c \in Unaccepted /\ c \in Conns
    BY <1>1, <1>2, <1>5 DEF Unaccepted
  <2>2. Interface!Refuse(c)
    BY <1>2, <1>3, <2>1 DEF Interface!Refuse
  <2> QED
    BY <2>1, <2>2 DEF Interface!Next
<1> QED
  BY <1>4, <1>5

\* The session on top of the free list has no client: that is FreeListExact.
LEMMA PopRefines ==
  ASSUME SessionInv, Pop
  PROVE  [Interface!Next]_(Interface!vars)
<1>1. /\ lpc = "pop" /\ lpc' = "fd" /\ lfd' = lfd /\ lsession' = freelist[Len(freelist)]
      /\ freelist # <<>>
      /\ UNCHANGED <<fd, entered, consumed, tainted, robbed, backlog>>
  BY DEF Pop, sessVars, tcpVars, histVars
<1>2. lfd \in Conns /\ lfd \notin backlog
  BY <1>1 DEF SessionInv, ListenInv, TypeOK
<1>3. /\ lsession' \in Sessions /\ fd[lsession'] = None
  <2>1. freelist \in Seq(Sessions)
    BY DEF SessionInv, TypeOK
  <2>2. Len(freelist) \in 1 .. Len(freelist)
    BY <1>1, <2>1
  <2>3. freelist[Len(freelist)] \in Sessions /\ freelist[Len(freelist)] \in Free
    BY <2>1, <2>2 DEF Free
  <2> QED
    BY <1>1, <2>3 DEF SessionInv, FreeListExact
<1> DEFINE s == lsession'
<1>4. Unaccepted' = Unaccepted \ {lfd} /\ lfd \in Unaccepted
  BY <1>1, <1>2 DEF Unaccepted
<1>5. /\ Serving[s] = None /\ Serving' = [Serving EXCEPT ![s] = lfd]
  BY <1>1, <1>3, ServingFields, ServingFieldsNext, ServingSet
<1>6. Promised' = Promised /\ s \notin Promised
  BY <1>1, <1>3, ServingFields, ServingFieldsNext, PromisedSame
<1>7. Interface!Admit(s, lfd)
  BY <1>1, <1>4, <1>5, <1>6 DEF Interface!Admit
<1> QED
  BY <1>2, <1>3, <1>7 DEF Interface!Next

LEMMA SetFdRefines ==
  ASSUME SessionInv, SetFd
  PROVE  UNCHANGED Interface!vars
<1>1. /\ lpc = "fd" /\ lpc' = "init" /\ fd' = [fd EXCEPT ![lsession] = lfd]
      /\ UNCHANGED <<lfd, lsession, entered, consumed, tainted, robbed, backlog>>
  BY DEF SetFd, tcpVars, histVars
<1>2. /\ lfd \in Conns /\ lsession \in Sessions /\ fd[lsession] = None
      /\ fd \in [Sessions -> Conns \cup {None}]
  BY <1>1 DEF SessionInv, ListenInv, TypeOK
<1>3. entered[lsession] # lfd
  BY <1>1, <1>2, NotMet DEF SessionInv
<1>4. Unaccepted' = Unaccepted
  BY <1>1 DEF Unaccepted
<1>5. Serving' = Serving
  BY <1>1, <1>2, ServingFields, ServingFieldsNext, ServingSame
<1>6. Promised' = Promised
  BY <1>1, <1>2, <1>3, ServingFields, ServingFieldsNext, PromisedSame
<1> QED
  BY <1>1, <1>4, <1>5, <1>6 DEF Interface!vars

\* The client announced is that of the session, and of no other, unless the session
\* was closed since or, after a close under a handler, the client robbed.
LEMMA OnEnterRefines ==
  ASSUME SessionInv, OnEnter
  PROVE  [Interface!Next]_(Interface!vars)
<1> DEFINE s == lsession
           c == lfd
<1>1. /\ lpc = "enter" /\ lpc' = "add" /\ entered' = [entered EXCEPT ![s] = c]
      /\ UNCHANGED <<lfd, lsession, fd, consumed, tainted, robbed, backlog>>
  BY DEF OnEnter, sessVars, tcpVars
<1>2. /\ s \in Sessions /\ c \in Conns /\ c # None
      /\ entered \in [Sessions -> Conns \cup {None}]
      /\ fd[s] \in {c, None}
  BY <1>1, SessionAssumption DEF SessionInv, ListenInv, TypeOK, Given
<1>3. Meets(s, c)
  BY <1>1 DEF Meets, Given
<1>4. /\ c \notin backlog
      /\ \A q \in Sessions \ {s} : fd[q] # c /\ entered[q] # c
  <2>1. OneSession
    BY DEF SessionInv
  <2> QED
    BY <1>2, <1>3, <2>1 DEF OneSession, Meets
<1>5. ~Live(s)
  BY <1>1, SetUpNotLive DEF Given
<1> HIDE DEF s, c
<1>6. /\ Unaccepted' = Unaccepted /\ c \notin Unaccepted
  BY <1>1, <1>4 DEF Unaccepted
<1>7. Serving' = Serving /\ \A q \in Sessions : Serving[q] = fd[q]
  BY <1>1, ServingFields, ServingFieldsNext, ServingSame
<1>8. s \notin Promised
  BY <1>2, <1>5 DEF Promised
<1>9. \A q \in Sessions : q # s => (q \in Promised' <=> q \in Promised)
  BY <1>1, <1>2, ServingFields, ServingFieldsNext
<1>10. \/ Serving[s] = c /\ consumed[c] = <<>> /\ Promised' = Promised \cup {s}
       \/ (Serving[s] # c \/ tainted' # {}) /\ Promised' = Promised
  <2>1. CASE s \in Promised'
    <3>1. s \notin tainted /\ fd[s] = c
      BY <1>1, <1>2, <2>1, ServingFieldsNext
    <3>2. consumed[c] = <<>>
      <4>1. FlowInv /\ s \in Sessions \ tainted /\ lpc \in Given \ {"add"}
        BY <1>1, <1>2, <3>1 DEF SessionInv, Given
      <4> QED
        BY <4>1 DEF FlowInv, Fresh, s, c
    <3>3. Promised' = Promised \cup {s}
      <4>1. Promised' \subseteq Sessions /\ Promised \subseteq Sessions
        BY DEF Promised
      <4> QED
        BY <1>9, <2>1, <4>1
    <3> QED
      BY <1>2, <1>7, <3>1, <3>2, <3>3
  <2>2. CASE s \notin Promised'
    <3>1. Promised' = Promised
      BY <1>8, <1>9, <2>2, PromisedSame
    <3>2. CASE fd[s] = c
      <4>1. s \in tainted \/ c \in robbed
        BY <1>1, <1>2, <2>2, <3>2, ServingFieldsNext
      <4>2. robbed # {} => tainted # {}
        BY DEF SessionInv, StreamIntactUnlessTainted
      <4> QED BY <1>1, <3>1, <4>1, <4>2
    <3>3. CASE fd[s] # c
      BY <1>2, <1>7, <3>1, <3>3
    <3> QED BY <3>2, <3>3
  <2> QED
    BY <2>1, <2>2
<1>11. Interface!Enter(s, c)
  BY <1>1, <1>4, <1>6, <1>7, <1>8, <1>10 DEF Interface!Enter, Interface!MayBeLate
<1> QED
  BY <1>2, <1>11 DEF Interface!Next

\* server_close ends the promise, or comes to a session there was none for.
LEMMA CloseRefines ==
  ASSUME SessionInv, NEW s \in Sessions, NEW r, NEW by, Closes(s, r, by)
  PROVE  [Interface!Next]_(Interface!vars)
<1>1. UNCHANGED <<lpc, lfd, lsession, entered, consumed, robbed, backlog>>
  BY DEF Closes, listenVars
<1>2. CASE ~IsOpen(s)
  <2>1. UNCHANGED <<fd, tainted>>
    BY <1>2 DEF Closes, CloseSession
  <2> QED
    BY <1>1, <2>1, InterfaceStutter
<1>3. CASE IsOpen(s)
  <2>1. /\ fd' = [fd EXCEPT ![s] = None] /\ fd[s] # None
        /\ tainted' \in {tainted, tainted \cup {s}}
    BY <1>3 DEF Closes, CloseSession, IsOpen
  <2>2. ~(lpc = "fd" /\ lsession = s) /\ fd \in [Sessions -> Conns \cup {None}]
    BY <2>1 DEF SessionInv, ListenInv, TypeOK
  <2>3. Unaccepted' = Unaccepted
    BY <1>1 DEF Unaccepted
  <2>4. Serving' = [Serving EXCEPT ![s] = None] /\ Serving[s] # None
    BY <1>1, <2>1, <2>2, ServingFields, ServingFieldsNext, ServingSet
  <2>8. Interface!Gone(s)
    BY <1>1, <2>1, <2>3, <2>4 DEF Interface!Gone, Interface!MayBeLate
  <2>5. Promised' = Promised \ {s}
    <3>1. \A q \in Sessions : q \in Promised' <=> q \in Promised /\ q # s
      BY <1>1, <2>1, <2>2, ServingFields, ServingFieldsNext
    <3>2. Promised' \subseteq Sessions /\ Promised \subseteq Sessions
      BY DEF Promised
    <3> QED
      BY <3>1, <3>2
  <2>6. CASE s \in Promised
    <3>1. Interface!Close(s)
      BY <2>5, <2>6, <2>8 DEF Interface!Close
    <3> QED
      BY <3>1 DEF Interface!Next
  <2>7. CASE s \notin Promised
    <3>1. Promised' = Promised
      BY <2>5, <2>7
    <3>2. Interface!Leave(s)
      BY <2>7, <2>8, <3>1 DEF Interface!Leave
    <3> QED
      BY <3>2 DEF Interface!Next
  <2> QED
    BY <2>6, <2>7
<1> QED
  BY <1>2, <1>3

\* What the logic uses comes after what it used before, and is the next of the
\* stream on a session whose promise holds.
LEMMA OnRecvedRefines ==
  ASSUME SessionInv, SessionInv', NEW r \in Reactors, OnRecved(r)
  PROVE  [Interface!Next]_(Interface!vars)
<1> DEFINE s == cur[r]
           c == entered[s]
           shown == Content(recv_buffer[s])
<1>1. UNCHANGED <<fd, entered, tainted, robbed, backlog, lpc, lfd, lsession>>
  BY DEF OnRecved, sessVars, tcpVars, listenVars
<1>2. /\ s \in Sessions /\ c \in Conns \cup {None} /\ recv_buffer[s] \in BufferType
      /\ consumed \in [Conns -> Seq(Bytes)] /\ consumed' \in [Conns -> Seq(Bytes)]
  BY DEF SessionInv, TypeOK
<1>3. CASE c = None
  <2>1. consumed' = consumed
    BY <1>3 DEF OnRecved
  <2> QED
    BY <1>1, <2>1, InterfaceStutter
<1>4. CASE c # None
  <2>1. PICK n \in 0 .. Len(shown) :
          consumed' = [consumed EXCEPT ![c] = @ \o SubSeq(shown, 1, n)]
    BY <1>4 DEF OnRecved
  <2>2. c \in Conns
    BY <1>2, <1>4
  <2> DEFINE before == consumed[c]
             after == consumed'[c]
  <2>3. /\ after = before \o SubSeq(shown, 1, n)
        /\ \A d \in Conns \ {c} : consumed'[d] = consumed[d]
    BY <1>2, <2>1, <2>2
  <2>4. before \in Seq(Bytes) /\ after \in Seq(Bytes)
    BY <1>2, <2>2
  <2>5. SubSeq(shown, 1, n) \in Seq(Bytes)
    <3>1. shown \in Seq(Bytes)
      BY <1>2, ContentFields
    <3> HIDE DEF shown
    <3> QED BY <2>1, <3>1
  <2> HIDE DEF s, c, shown, before, after
  <2>6. before = SubSeq(after, 1, Len(before)) /\ Len(before) <= Len(after)
    BY <2>3, <2>4, <2>5
  <2>7. ASSUME s \in Promised
        PROVE  \E k \in Len(before) .. Len(Stream[c]) : after = SubSeq(Stream[c], 1, k)
    <3>1. /\ entered'[s] = c /\ s \notin tainted' /\ c \notin robbed'
      BY <1>1, <2>7 DEF Promised, Live, c
    <3>2. IsPrefixOf(after, Stream[c])
      BY <1>2, <1>4, <3>1 DEF SessionInv, StreamIntactUnlessTainted, after
    <3>3. Stream[c] \in Seq(Bytes)
      BY <2>2, SessionAssumption
    <3>4. Len(after) \in Len(before) .. Len(Stream[c])
      BY <2>4, <2>6, <3>2, <3>3 DEF IsPrefixOf
    <3> QED
      BY <3>2, <3>4 DEF IsPrefixOf
  <2>8. Unaccepted' = Unaccepted /\ Serving' = Serving /\ Promised' = Promised
    BY <1>1, ServingFields, ServingFieldsNext, ServingSame, PromisedSame DEF Unaccepted
  <2>9. Interface!Use(s)
    BY <1>1, <1>2, <1>4, <2>3, <2>6, <2>7, <2>8 DEF Interface!Use, c, before, after
  <2> QED
    BY <1>2, <2>9 DEF Interface!Next
<1> QED
  BY <1>3, <1>4

\* A handler whose session was closed under it may receive what was for another; any
\* other receives what is its own.
LEMMA RecvBytesRefines ==
  ASSUME SessionInv, NEW r \in Reactors, NEW c \in Conns, RecvBytes(r, c)
  PROVE  [Interface!Next]_(Interface!vars)
<1> DEFINE s == cur[r]
<1>1. /\ UNCHANGED <<fd, entered, consumed, tainted, backlog, lpc, lfd, lsession>>
      /\ robbed' = IF fd[s] = c THEN robbed ELSE robbed \cup {c}
      /\ InRecv(r) /\ c \in Reached(r)
  BY DEF RecvBytes, listenVars
<1>2. CASE fd[s] = c
  BY <1>1, <1>2, InterfaceStutter
<1>3. CASE fd[s] # c
  <2>1. tainted # {}
    BY <1>1, <1>3, ReachedOwn
  <2>2. \A q \in Sessions : q \in Promised' <=> q \in Promised /\ fd[q] # c
    BY <1>1, <1>3, ServingFields, ServingFieldsNext
  <2>3. Unaccepted' = Unaccepted /\ Serving' = Serving
    BY <1>1, ServingFields, ServingFieldsNext, ServingSame DEF Unaccepted
  <2>4. CASE \E p \in Promised : fd[p] = c
    <3>1. PICK p \in Promised : fd[p] = c
      BY <2>4
    <3>2. p \in Sessions /\ fd[p] # None
      BY <3>1 DEF Promised, Live
    <3>3. \A q \in Sessions : fd[q] = c => q = p
      BY <3>1, <3>2 DEF SessionInv, ConnsOwned
    <3>4. Promised \subseteq Sessions /\ Promised' \subseteq Sessions
      BY DEF Promised
    <3>5. Promised' = Promised \ {p}
      BY <2>2, <3>1, <3>3, <3>4
    <3>6. Interface!Rob(p)
      BY <1>1, <2>1, <2>3, <3>1, <3>5 DEF Interface!Rob
    <3> QED BY <3>2, <3>6 DEF Interface!Next
  <2>5. CASE ~\E p \in Promised : fd[p] = c
    <3>1. Promised' = Promised
      BY <2>2, <2>5, PromisedSame
    <3> QED BY <1>1, <2>3, <3>1 DEF Interface!vars
  <2> QED BY <2>4, <2>5
<1> QED
  BY <1>2, <1>3

LEMMA StepRefines ==
  ASSUME SessionInv, SessionInv', [Next]_vars
  PROVE  [Interface!Next]_(Interface!vars)
<1>1. ASSUME NEW c \in Conns, Arrive(c) \/ HalfClose(c)
      PROVE  UNCHANGED Interface!vars
  BY <1>1, ClientFrame, InterfaceStutter DEF sessVars, listenVars, histVars
<1>2. CASE InitBuffer \/ SetReactor \/ Count \/ AddEvent
  BY <1>2, InterfaceStutter
     DEF InitBuffer, SetReactor, Count, AddEvent, sessVars, tcpVars, histVars
<1>3. CASE BeginClose
  BY <1>3, InterfaceStutter DEF BeginClose, sessVars, listenVars, tcpVars, histVars
<1>4. CASE Close
  <2>1. asession \in Sessions
    BY DEF SessionInv, TypeOK
  <2> QED
    BY <1>4, <2>1, CloseFrame, CloseRefines
<1>5. ASSUME NEW r \in Reactors, CloseInCallback(r)
      PROVE  [Interface!Next]_(Interface!vars)
  <2>1. cur[r] \in Sessions
    BY DEF SessionInv, TypeOK
  <2> QED
    BY <1>5, <2>1, CallbackFrame, CloseRefines
<1>6. ASSUME NEW r \in Reactors, ReactorStep(r)
      PROVE  [Interface!Next]_(Interface!vars)
  <2>1. UNCHANGED <<fd, entered, tainted, backlog, listenVars>>
    BY <1>6, ReactorFrame
  <2>2. \/ OnRecved(r) \/ \E c \in Conns : RecvBytes(r, c)
        \/ UNCHANGED <<consumed, robbed>>
    <3>1. CASE EpollWait(r) \/ NextEvent(r) \/ Lock(r) \/ BufferFull(r) \/ CallRecv(r)
      BY <3>1 DEF EpollWait, NextEvent, Lock, BufferFull, CallRecv, histVars
    <3>2. CASE \/ RecvEnds(r) \/ RecvNothing(r) \/ RecvBlocks(r)
               \/ OnClose(r) \/ EndOnClose(r) \/ EndOnRecved(r) \/ Again(r)
      BY <3>2 DEF RecvEnds, RecvNothing, RecvBlocks, OnClose, EndOnClose, EndOnRecved, Again,
                  histVars
    <3> QED BY <1>6, <3>1, <3>2 DEF ReactorStep
  <2> QED
    BY <2>1, <2>2, OnRecvedRefines, RecvBytesRefines, InterfaceStutter DEF listenVars
<1>7. CASE UNCHANGED vars
  BY <1>7, InterfaceStutter DEF vars, sessVars, listenVars, tcpVars, histVars
<1> QED
  BY <1>1, <1>2, <1>3, <1>4, <1>5, <1>6, <1>7, AcceptRefines, PopRefines, SetFdRefines,
     OnEnterRefines DEF Next, ListenStep

\* The epoll server keeps the promise of ServerInterface: for any number of threads,
\* sessions, descriptor numbers and clients, and wherever server_close is called, each
\* of its steps is one the interface allows or one the logic sees nothing of; a client
\* is cut short only after some session was closed under a handler.
THEOREM RefinesInterface == Spec => ImplementsInterface
<1> QED
  BY InterfaceInit, SessionInvariance, StepRefines, PTL
     DEF Spec, ImplementsInterface, Interface!Spec
=============================================================================
