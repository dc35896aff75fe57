---------------------------- MODULE ServerProofs ----------------------------
(***************************************************************************)
(* Theorems on EpollServer, for every set of senders and of calls, every   *)
(* size of the buffers and any number of connections.                      *)
(***************************************************************************)
EXTENDS EpollServer, TLAPS

-----------------------------------------------------------------------------
(***************************************************************************)
(* The send buffer, whose read position never moves.                       *)
(***************************************************************************)

\* The bytes it holds.
Held(b) == {b.data[i] : i \in 0 .. b.write_pos - 1}

Zeros(b) == \A i \in Cells : i >= b.write_pos => b.data[i] = Zero

LEMMA HeldBytes ==
  ASSUME NEW b \in BufferType, b.read_pos = 0
  PROVE  /\ BytesOf(Content(b)) = Held(b)
         /\ Content(b) \in Seq(Bytes)
         /\ Len(Content(b)) = ReadValid(b) /\ ReadValid(b) = b.write_pos
<1> USE BufferAssumption
<1>1. /\ b.data \in [Cells -> Bytes] /\ b.write_pos \in 0 .. data_len /\ data_len \in Nat
      /\ ReadValid(b) = b.write_pos
  BY DEF BufferType, ReadValid
<1>2. /\ Content(b) = [i \in 1 .. b.write_pos |-> b.data[i - 1]]
  BY <1>1 DEF Content
<1>3. \A i \in 1 .. b.write_pos : i - 1 \in Cells /\ b.data[i - 1] \in Bytes
  BY <1>1 DEF Cells
<1>4. Content(b) \in Seq(Bytes) /\ Len(Content(b)) = b.write_pos
  BY <1>1, <1>2, <1>3
<1>5. ASSUME NEW x PROVE x \in BytesOf(Content(b)) <=> x \in Held(b)
  <2>1. x \in BytesOf(Content(b)) <=> \E i \in 1 .. b.write_pos : x = b.data[i - 1]
    <3>1. \A i \in 1 .. b.write_pos : Content(b)[i] = b.data[i - 1]
      BY <1>2
    <3> QED BY <1>4, <3>1 DEF BytesOf
  <2>2. x \in Held(b) <=> \E i \in 0 .. b.write_pos - 1 : x = b.data[i]
    BY DEF Held
  <2>3. ASSUME NEW i \in 1 .. b.write_pos, x = b.data[i - 1]
        PROVE  \E j \in 0 .. b.write_pos - 1 : x = b.data[j]
    <3>1. i - 1 \in 0 .. b.write_pos - 1
      BY <1>1
    <3> QED BY <2>3, <3>1
  <2>4. ASSUME NEW i \in 0 .. b.write_pos - 1, x = b.data[i]
        PROVE  \E j \in 1 .. b.write_pos : x = b.data[j - 1]
    <3>1. i + 1 \in 1 .. b.write_pos /\ (i + 1) - 1 = i
      BY <1>1
    <3> QED BY <2>4, <3>1
  <2> QED BY <2>1, <2>2, <2>3, <2>4
<1> QED
  BY <1>1, <1>4, <1>5

LEMMA EmptyHeld ==
  /\ EmptyBuffer \in BufferType /\ EmptyBuffer.read_pos = 0
  /\ Held(EmptyBuffer) = {} /\ Zeros(EmptyBuffer)
<1> USE BufferAssumption
<1>1. [i \in Cells |-> Zero] \in [Cells -> Bytes]
  OBVIOUS
<1>2. /\ EmptyBuffer \in BufferType /\ EmptyBuffer.read_pos = 0
      /\ EmptyBuffer.write_pos = 0 /\ EmptyBuffer.data = [i \in Cells |-> Zero]
  BY <1>1 DEF EmptyBuffer, BufferType
<1> QED
  BY <1>2 DEF Held, Zeros

\* What was sent is counted on the write position: the buffer holds what it held and,
\* where it did not hold anything, zeros.
LEMMA SentHeld ==
  ASSUME NEW b \in BufferType, b.read_pos = 0, NEW n \in Int
  PROVE  /\ Sent(b, n) \in BufferType /\ Sent(b, n).read_pos = 0
         /\ Held(b) \subseteq Held(Sent(b, n))
         /\ Zeros(b) => Zeros(Sent(b, n)) /\ Held(Sent(b, n)) \subseteq Held(b) \cup {Zero}
<1> USE BufferAssumption
<1>1. /\ b.data \in [Cells -> Bytes] /\ b.write_pos \in 0 .. data_len /\ data_len \in Nat
  BY DEF BufferType
<1>2. PICK c : c = Sent(b, n)
  OBVIOUS
<1>3. /\ c \in BufferType /\ c.read_pos = 0 /\ c.data = b.data
      /\ c.write_pos \in b.write_pos .. data_len
  BY <1>1, <1>2 DEF Sent, AddWritePos, BufferType
<1>4. ASSUME NEW x \in Held(b) PROVE x \in Held(c)
  <2>1. PICK i \in 0 .. b.write_pos - 1 : x = b.data[i]
    BY <1>4 DEF Held
  <2>2. i \in 0 .. c.write_pos - 1
    BY <1>1, <1>3
  <2> QED BY <1>3, <2>1, <2>2 DEF Held
<1>5. ASSUME Zeros(b) PROVE Zeros(c)
  BY <1>1, <1>3, <1>5 DEF Zeros, Cells
<1>6. ASSUME Zeros(b), NEW x \in Held(c) PROVE x \in Held(b) \cup {Zero}
  <2>1. PICK i \in 0 .. c.write_pos - 1 : x = b.data[i]
    BY <1>3 DEF Held
  <2>2. CASE i < b.write_pos
    <3>1. i \in 0 .. b.write_pos - 1
      BY <1>1, <1>3, <2>2
    <3> QED BY <2>1, <3>1 DEF Held
  <2>3. CASE i >= b.write_pos
    <3>1. i \in Cells
      BY <1>1, <1>3 DEF Cells
    <3> QED BY <1>6, <2>1, <2>3, <3>1 DEF Zeros
  <2> QED BY <1>1, <1>3, <2>2, <2>3
<1> QED
  BY <1>2, <1>3, <1>4, <1>5, <1>6

\* buffer_write adds all of the bytes or leaves the buffer as it is.
LEMMA WriteHeld ==
  ASSUME NEW b \in BufferType, b.read_pos = 0, NEW s \in Seq(Bytes)
  PROVE  /\ Write(b, s) \in BufferType /\ Write(b, s).read_pos = 0
         /\ ~WriteOk(b, s) => Write(b, s) = b
         /\ WriteOk(b, s) => Held(Write(b, s)) = Held(b) \cup BytesOf(s)
         /\ Zeros(b) => Zeros(Write(b, s))
<1> USE BufferAssumption
<1>1. /\ b.data \in [Cells -> Bytes] /\ b.write_pos \in 0 .. data_len /\ data_len \in Nat
      /\ Len(s) \in Nat /\ \A i \in 1 .. Len(s) : s[i] \in Bytes
  BY DEF BufferType
<1>2. WriteOk(b, s) <=> b.write_pos + Len(s) <= data_len
  BY <1>1 DEF WriteOk, WriteValid, ReadValid
<1>3. CASE ~WriteOk(b, s)
  BY <1>3 DEF Write
<1>4. CASE WriteOk(b, s)
  <2> DEFINE over == [i \in Cells |-> IF i >= b.write_pos /\ i < b.write_pos + Len(s)
                                      THEN s[i - b.write_pos + 1] ELSE b.data[i]]
  <2>1. Write(b, s) = AddWritePos(Fill(b, s), Len(s))
    BY <1>1, <1>2, <1>4 DEF Write, WriteValid
  <2>2. Fill(b, s) = [b EXCEPT !.data = over]
    BY DEF Fill
  <2>3. over \in [Cells -> Bytes]
    <3>1. ASSUME NEW i \in Cells, i >= b.write_pos, i < b.write_pos + Len(s)
          PROVE  i - b.write_pos + 1 \in 1 .. Len(s)
      BY <1>1, <3>1 DEF Cells
    <3> QED BY <1>1, <3>1
  <2>4. PICK d : d = over
    OBVIOUS
  <2>5. PICK c : c = Write(b, s)
    OBVIOUS
  <2>6. /\ c \in BufferType /\ c.read_pos = 0 /\ c.data = d
        /\ c.write_pos = b.write_pos + Len(s)
    <3>1. d \in [Cells -> Bytes] /\ Fill(b, s) = [b EXCEPT !.data = d]
      BY <2>2, <2>3, <2>4
    <3> HIDE DEF over
    <3>2. PICK f : f = [data |-> d, read_pos |-> 0, write_pos |-> b.write_pos]
      OBVIOUS
    <3>3. b = [data |-> b.data, read_pos |-> 0, write_pos |-> b.write_pos]
      BY DEF BufferType
    <3>4. Fill(b, s) = f
      BY <3>1, <3>2, <3>3
    <3>5. c = [data |-> d, read_pos |-> 0, write_pos |-> b.write_pos + Len(s)]
      BY <1>1, <1>2, <1>4, <2>1, <2>5, <3>2, <3>4 DEF AddWritePos
    <3> QED BY <1>1, <1>2, <1>4, <3>1, <3>5 DEF BufferType
  <2>7. \A i \in Cells : /\ i < b.write_pos => d[i] = b.data[i]
                         /\ i >= b.write_pos + Len(s) => d[i] = b.data[i]
                         /\ i >= b.write_pos /\ i < b.write_pos + Len(s) =>
                              d[i] = s[i - b.write_pos + 1]
    BY <1>1, <2>4 DEF Cells
  <2> HIDE DEF over
  <2>8. ASSUME NEW x \in Held(c) PROVE x \in Held(b) \cup BytesOf(s)
    <3>1. PICK i \in 0 .. c.write_pos - 1 : x = d[i]
      BY <2>6 DEF Held
    <3>2. i \in Cells
      BY <1>1, <1>2, <1>4, <2>6 DEF Cells
    <3>3. CASE i < b.write_pos
      <4>1. i \in 0 .. b.write_pos - 1
        BY <1>1, <3>3, <2>6
      <4> QED BY <2>7, <3>1, <3>2, <3>3, <4>1 DEF Held
    <3>4. CASE i >= b.write_pos
      <4>1. i - b.write_pos + 1 \in 1 .. Len(s) /\ i < b.write_pos + Len(s)
        BY <1>1, <3>4, <2>6
      <4> QED BY <2>7, <3>1, <3>2, <3>4, <4>1 DEF BytesOf
    <3> QED BY <1>1, <2>6, <3>3, <3>4
  <2>9. ASSUME NEW x \in Held(b) PROVE x \in Held(c)
    <3>1. PICK i \in 0 .. b.write_pos - 1 : x = b.data[i]
      BY <2>9 DEF Held
    <3>2. i \in 0 .. c.write_pos - 1 /\ i \in Cells /\ i < b.write_pos
      BY <1>1, <2>6 DEF Cells
    <3> QED BY <2>6, <2>7, <3>1, <3>2 DEF Held
  <2>10. ASSUME NEW x \in BytesOf(s) PROVE x \in Held(c)
    <3>1. PICK i \in 1 .. Len(s) : x = s[i]
      BY <2>10 DEF BytesOf
    <3> DEFINE j == b.write_pos + i - 1
    <3>2. /\ j \in 0 .. c.write_pos - 1 /\ j \in Cells /\ j >= b.write_pos
          /\ j < b.write_pos + Len(s) /\ j - b.write_pos + 1 = i
      BY <1>1, <1>2, <1>4, <2>6 DEF Cells
    <3> HIDE DEF j
    <3> QED BY <2>6, <2>7, <3>1, <3>2 DEF Held
  <2>11. ASSUME Zeros(b) PROVE Zeros(c)
    BY <1>1, <2>6, <2>7, <2>11 DEF Zeros, Cells
  <2> QED BY <1>4, <2>5, <2>6, <2>8, <2>9, <2>10, <2>11
<1> QED
  BY <1>3, <1>4

-----------------------------------------------------------------------------
(***************************************************************************)
(* What steps have in common.                                              *)
(***************************************************************************)

LEMMA JoinedBytes ==
  ASSUME NEW s \in Seq(Bytes), NEW t \in Seq(Bytes)
  PROVE  s \o t \in Seq(Bytes) /\ BytesOf(s \o t) = BytesOf(s) \cup BytesOf(t)
<1>1. PICK u : u = s \o t
  OBVIOUS
<1>2. /\ u \in Seq(Bytes) /\ Len(u) = Len(s) + Len(t) /\ Len(s) \in Nat /\ Len(t) \in Nat
      /\ \A i \in 1 .. Len(s) : u[i] = s[i]
      /\ \A i \in 1 .. Len(t) : u[Len(s) + i] = t[i]
  BY <1>1
<1>3. ASSUME NEW x \in BytesOf(u) PROVE x \in BytesOf(s) \cup BytesOf(t)
  <2>1. PICK i \in 1 .. Len(s) + Len(t) : x = u[i]
    BY <1>2, <1>3 DEF BytesOf
  <2>2. CASE i <= Len(s)
    <3>1. i \in 1 .. Len(s)
      BY <1>2, <2>2
    <3> QED BY <1>2, <2>1, <3>1 DEF BytesOf
  <2>3. CASE i > Len(s)
    <3>1. i - Len(s) \in 1 .. Len(t) /\ Len(s) + (i - Len(s)) = i
      BY <1>2, <2>3
    <3> QED BY <1>2, <2>1, <3>1 DEF BytesOf
  <2> QED BY <1>2, <2>2, <2>3
<1>4. ASSUME NEW x \in BytesOf(s) PROVE x \in BytesOf(u)
  <2>1. PICK i \in 1 .. Len(s) : x = s[i]
    BY <1>4 DEF BytesOf
  <2>2. i \in 1 .. Len(u)
    BY <1>2
  <2> QED BY <1>2, <2>1, <2>2 DEF BytesOf
<1>5. ASSUME NEW x \in BytesOf(t) PROVE x \in BytesOf(u)
  <2>1. PICK i \in 1 .. Len(t) : x = t[i]
    BY <1>5 DEF BytesOf
  <2>2. Len(s) + i \in 1 .. Len(u)
    BY <1>2
  <2> QED BY <1>2, <2>1, <2>2 DEF BytesOf
<1> QED
  BY <1>1, <1>2, <1>3, <1>4, <1>5

\* The socket takes a first part of what it is given, or fails when it is broken.
LEMMA Sending ==
  ASSUME ServerTypeOK, CallInv, NEW s \in Seq(Bytes), SocketSend(s)
  PROVE  /\ Taken(s) \in -1 .. Len(s) /\ (Taken(s) = -1 <=> dead)
         /\ wire' \in Seq(Bytes) /\ Len(wire') <= MaxWire
         /\ kernel' \in 0 .. KernelSize /\ nospace' \in BOOLEAN
         /\ BytesOf(wire') = BytesOf(wire) \cup {s[i] : i \in 1 .. Taken(s)}
         /\ UNCHANGED <<edge, dead>>
<1> USE SendAssumption
<1>1. /\ wire \in Seq(Bytes) /\ Len(wire) \in 0 .. MaxWire /\ kernel \in 0 .. KernelSize
      /\ dead \in BOOLEAN /\ nospace \in BOOLEAN /\ Len(s) \in Nat
  BY DEF ServerTypeOK, TypeOK, CallInv
<1> DEFINE n == IF dead THEN 0 ELSE Taken(s)
<1>2. /\ Taken(s) \in -1 .. Len(s) /\ (Taken(s) = -1 <=> dead)
      /\ n \in 0 .. Len(s)
      /\ n > 0 => n <= KernelSize - kernel /\ n <= MaxWire - Len(wire)
  BY <1>1 DEF Taken, Least
<1>3. /\ wire' = wire \o SubSeq(s, 1, n) /\ kernel' = kernel + n
      /\ nospace' \in BOOLEAN /\ UNCHANGED <<edge, dead>>
  BY <1>1 DEF SocketSend
<1>4. 1 .. n = 1 .. Taken(s)
  BY <1>2
<1> HIDE DEF n
<1>5. PICK t : t = SubSeq(s, 1, n)
  OBVIOUS
<1>6. t \in Seq(Bytes) /\ Len(t) = n /\ \A i \in 1 .. n : t[i] = s[i]
  BY <1>1, <1>2, <1>5
<1>7. wire' \in Seq(Bytes) /\ Len(wire') = Len(wire) + n
  BY <1>1, <1>3, <1>5, <1>6
<1>8. BytesOf(t) = {s[i] : i \in 1 .. n}
  BY <1>6 DEF BytesOf
<1>9. BytesOf(wire') = BytesOf(wire) \cup BytesOf(t)
  BY <1>1, <1>3, <1>5, <1>6, JoinedBytes
<1>11. Len(wire') <= MaxWire /\ kernel' \in 0 .. KernelSize
  BY <1>1, <1>2, <1>3, <1>7
<1>12. BytesOf(wire') = BytesOf(wire) \cup {s[i] : i \in 1 .. Taken(s)}
  BY <1>4, <1>8, <1>9
<1> QED
  BY <1>2, <1>3, <1>7, <1>11, <1>12

\* What is at work on a session is not there while the listen thread sets it up.
LEMMA FreshAtWork ==
  ASSUME FreshInv, UNCHANGED serverVars, rpc # "wait" \/ edge \/ \E s \in Senders : pc[s] # "idle"
  PROVE  FreshInv'
  BY DEF FreshInv, Busy, SettingUp, serverVars

LEMMA FreshFrame ==
  ASSUME FreshInv, UNCHANGED <<serverVars, rpc, pc, edge, wire, accepted, send_buffer>>
  PROVE  FreshInv'
  BY DEF FreshInv, Busy, SettingUp, serverVars

LEMMA LifeFrame ==
  ASSUME LifeInv, UNCHANGED serverVars, dead => dead'
  PROVE  LifeInv'
  BY DEF LifeInv, SettingUp, serverVars

LEMMA CallFrame ==
  ASSUME CallInv, UNCHANGED <<pc, data, send_len, send_buffer, wire>>
  PROVE  CallInv'
  BY DEF CallInv

\* The bytes are accounted for as before when none moves.
LEMMA BytesFrame ==
  ASSUME BytesInv, UNCHANGED <<fd, entered, send_buffer, wire, accepted>>,
         crossed => crossed', dead => dead',
         \A s \in Senders : Gone(s)' = Gone(s) /\ (send_len'[s] = -1 => send_len[s] = -1)
  PROVE  BytesInv'
<1> SUFFICES ASSUME ~crossed', fd' = entered' PROVE BytesInv'
  BY DEF BytesInv
<1>1. ~crossed /\ fd = entered
  OBVIOUS
<1>2. NothingAcceptedIsLost'
  BY <1>1 DEF BytesInv, NothingAcceptedIsLost
<1>3. \A s \in Senders : Gone(s)' \subseteq BytesOf(wire') /\ (send_len'[s] = -1 => dead')
  BY <1>1 DEF BytesInv
<1>4. AllGone' = AllGone
  BY DEF AllGone
<1>5. BytesOf(wire') \subseteq BytesOf(accepted') \cup AllGone' \cup {Zero}
  BY <1>1, <1>4 DEF BytesInv
<1>6. BytesOf(Content(send_buffer')) \subseteq
        BytesOf(accepted') \cup {Zero} \cup (IF dead' THEN {Junk} ELSE {})
  BY <1>1 DEF BytesInv
<1>7. \A i \in Cells : i >= send_buffer'.write_pos => send_buffer'.data[i] = Zero
  BY <1>1 DEF BytesInv
<1> QED
  BY <1>2, <1>3, <1>5, <1>6, <1>7 DEF BytesInv

\* The state, as the lemmas on buffers and sequences want it.
LEMMA StateIs ==
  ASSUME ServerTypeOK, CallInv
  PROVE  /\ send_buffer \in BufferType /\ send_buffer.read_pos = 0
         /\ BytesOf(Content(send_buffer)) = Held(send_buffer)
         /\ Content(send_buffer) \in Seq(Bytes)
         /\ wire \in Seq(Bytes) /\ accepted \in Seq(Bytes) /\ dead \in BOOLEAN
         /\ \A s \in Senders : data[s] \in Seq(Bytes)
  BY HeldBytes DEF ServerTypeOK, TypeOK, CallInv

\* epollserver_send_olddata: what it sends was in the buffer, which loses nothing.
LEMMA OldData ==
  ASSUME ServerTypeOK, CallInv, SendOldData
  PROVE  /\ send_buffer' \in BufferType /\ send_buffer'.read_pos = 0
         /\ wire' \in Seq(Bytes) /\ Len(wire') <= MaxWire
         /\ kernel' \in 0 .. KernelSize /\ nospace' \in BOOLEAN /\ writeable' \in BOOLEAN
         /\ UNCHANGED <<edge, dead>>
         /\ BytesOf(wire) \subseteq BytesOf(wire')
         /\ BytesOf(wire') \subseteq BytesOf(wire) \cup (IF dead THEN {} ELSE Held(send_buffer))
         /\ Held(send_buffer) \subseteq Held(send_buffer')
         /\ Zeros(send_buffer) => /\ Zeros(send_buffer')
                                  /\ Held(send_buffer') \subseteq Held(send_buffer) \cup {Zero}
<1>1. /\ send_buffer \in BufferType /\ send_buffer.read_pos = 0
      /\ wire \in Seq(Bytes) /\ Len(wire) <= MaxWire
      /\ kernel \in 0 .. KernelSize /\ nospace \in BOOLEAN /\ writeable \in BOOLEAN
  BY DEF ServerTypeOK, TypeOK, CallInv
<1>2. CASE UNCHANGED <<send_buffer, writeable, sockVars>>
  BY <1>1, <1>2 DEF sockVars
<1>3. CASE ~UNCHANGED <<send_buffer, writeable, sockVars>>
  <2> DEFINE c == Content(send_buffer)
  <2>1. /\ SocketSend(c) /\ send_buffer' = Sent(send_buffer, Taken(c)) /\ writeable' = TRUE
    BY <1>3 DEF SendOldData
  <2>2. c \in Seq(Bytes) /\ BytesOf(c) = Held(send_buffer)
    BY StateIs
  <2> HIDE DEF c
  <2>3. /\ Taken(c) \in -1 .. Len(c) /\ (Taken(c) = -1 <=> dead)
        /\ wire' \in Seq(Bytes) /\ Len(wire') <= MaxWire
        /\ kernel' \in 0 .. KernelSize /\ nospace' \in BOOLEAN
        /\ BytesOf(wire') = BytesOf(wire) \cup {c[i] : i \in 1 .. Taken(c)}
        /\ UNCHANGED <<edge, dead>>
    BY <2>1, <2>2, Sending
  <2>4. {c[i] : i \in 1 .. Taken(c)} \subseteq (IF dead THEN {} ELSE Held(send_buffer))
    <3>1. CASE dead
      <4>1. 1 .. Taken(c) = {}
        BY <2>3, <3>1
      <4> QED BY <4>1
    <3>2. CASE ~dead
      <4>1. Taken(c) \in Int /\ Taken(c) <= Len(c) /\ Len(c) \in Nat
        BY <2>2, <2>3
      <4>2. 1 .. Taken(c) \subseteq 1 .. Len(c)
        BY <4>1
      <4> QED BY <2>2, <3>2, <4>2 DEF BytesOf
    <3> QED BY <3>1, <3>2
  <2>5. Taken(c) \in Int
    BY <2>2, <2>3
  <2>6. /\ send_buffer' \in BufferType /\ send_buffer'.read_pos = 0
        /\ Held(send_buffer) \subseteq Held(send_buffer')
        /\ Zeros(send_buffer) => /\ Zeros(send_buffer')
                                 /\ Held(send_buffer') \subseteq Held(send_buffer) \cup {Zero}
    BY <1>1, <2>1, <2>5, SentHeld
  <2> QED BY <2>1, <2>3, <2>4, <2>6
<1> QED
  BY <1>2, <1>3

\* BytesInv by the buffer's bytes, and the same of the next state.
BytesAre(lost, wired, took, held, gone) ==
  /\ lost \/ took \subseteq wired \cup held
  /\ \A s \in Senders : Gone(s) \subseteq wired /\ (send_len[s] = -1 => lost)
  /\ wired \subseteq took \cup gone \cup {Zero}
  /\ held \subseteq took \cup {Zero} \cup (IF lost THEN {Junk} ELSE {})

LEMMA BytesIs ==
  ASSUME ServerTypeOK, CallInv, BytesInv, ~crossed, fd = entered
  PROVE  /\ BytesAre(dead, BytesOf(wire), BytesOf(accepted), Held(send_buffer), AllGone)
         /\ Zeros(send_buffer)
<1>1. BytesOf(Content(send_buffer)) = Held(send_buffer)
  BY StateIs
<1>2. Zeros(send_buffer)
  BY DEF BytesInv, Zeros
<1>3. /\ ~dead => BytesOf(accepted) \subseteq BytesOf(wire) \cup BytesOf(Content(send_buffer))
      /\ \A s \in Senders : Gone(s) \subseteq BytesOf(wire) /\ (send_len[s] = -1 => dead)
      /\ BytesOf(wire) \subseteq BytesOf(accepted) \cup AllGone \cup {Zero}
      /\ BytesOf(Content(send_buffer)) \subseteq
           BytesOf(accepted) \cup {Zero} \cup (IF dead THEN {Junk} ELSE {})
  BY DEF BytesInv, NothingAcceptedIsLost
<1> QED
  BY <1>1, <1>2, <1>3 DEF BytesAre

LEMMA BytesIsNext ==
  ASSUME send_buffer' \in BufferType, send_buffer'.read_pos = 0, Zeros(send_buffer'),
         dead' \/ BytesOf(accepted') \subseteq BytesOf(wire') \cup Held(send_buffer'),
         \A s \in Senders : Gone(s)' \subseteq BytesOf(wire') /\ (send_len'[s] = -1 => dead'),
         BytesOf(wire') \subseteq BytesOf(accepted') \cup AllGone' \cup {Zero},
         Held(send_buffer') \subseteq
           BytesOf(accepted') \cup {Zero} \cup (IF dead' THEN {Junk} ELSE {})
  PROVE  BytesInv'
<1>1. BytesOf(Content(send_buffer')) = Held(send_buffer')
  BY HeldBytes
<1>2. NothingAcceptedIsLost'
  BY <1>1 DEF NothingAcceptedIsLost
<1>3. \A i \in Cells : i >= send_buffer'.write_pos => send_buffer'.data[i] = Zero
  BY DEF Zeros
<1>4. BytesOf(Content(send_buffer')) \subseteq
        BytesOf(accepted') \cup {Zero} \cup (IF dead' THEN {Junk} ELSE {})
  BY <1>1
<1> QED
  BY <1>2, <1>3, <1>4 DEF BytesInv

LEMMA OldDataBytes ==
  ASSUME ServerTypeOK, CallInv, BytesInv, SendOldData,
         UNCHANGED <<data, send_len, accepted, serverVars>>
  PROVE  BytesInv'
<1> SUFFICES ASSUME ~crossed', fd' = entered' PROVE BytesInv'
  BY DEF BytesInv
<1>1. ~crossed /\ fd = entered
  BY DEF serverVars
<1>2. /\ BytesAre(dead, BytesOf(wire), BytesOf(accepted), Held(send_buffer), AllGone)
      /\ Zeros(send_buffer)
  BY <1>1, BytesIs
<1>3. /\ send_buffer' \in BufferType /\ send_buffer'.read_pos = 0
      /\ dead' = dead /\ accepted' = accepted
      /\ BytesOf(wire) \subseteq BytesOf(wire')
      /\ BytesOf(wire') \subseteq BytesOf(wire) \cup (IF dead THEN {} ELSE Held(send_buffer))
      /\ Held(send_buffer) \subseteq Held(send_buffer')
      /\ Zeros(send_buffer')
      /\ Held(send_buffer') \subseteq Held(send_buffer) \cup {Zero}
  BY <1>2, OldData
<1>4. AllGone' = AllGone /\ \A s \in Senders : Gone(s)' = Gone(s)
  BY DEF Gone, AllGone
<1>5. \A s \in Senders : Gone(s)' \subseteq BytesOf(wire') /\ (send_len'[s] = -1 => dead')
  BY <1>2, <1>3, <1>4 DEF BytesAre
<1>6. BytesOf(wire') \subseteq BytesOf(accepted') \cup AllGone' \cup {Zero}
  BY <1>2, <1>3, <1>4 DEF BytesAre
<1>7. dead' \/ BytesOf(accepted') \subseteq BytesOf(wire') \cup Held(send_buffer')
  BY <1>2, <1>3 DEF BytesAre
<1>8. Held(send_buffer') \subseteq
        BytesOf(accepted') \cup {Zero} \cup (IF dead' THEN {Junk} ELSE {})
  BY <1>2, <1>3 DEF BytesAre
<1> QED
  BY <1>3, <1>5, <1>6, <1>7, <1>8, BytesIsNext

\* What the kernel did not take of a call's data, and the rest of the data.
LEMMA RestBytes ==
  ASSUME NEW d \in Seq(Bytes), NEW n \in -1 .. Len(d)
  PROVE  /\ Rest(d, n) \in Seq(Bytes)
         /\ n = -1 => BytesOf(Rest(d, n)) = {Junk} \cup BytesOf(d)
         /\ n >= 0 => /\ BytesOf(Rest(d, n)) \subseteq BytesOf(d)
                      /\ BytesOf(d) \subseteq {d[i] : i \in 1 .. n} \cup BytesOf(Rest(d, n))
<1> USE SendAssumption
<1>1. Len(d) \in Nat /\ \A i \in 1 .. Len(d) : d[i] \in Bytes
  OBVIOUS
<1>2. PICK r : r = Rest(d, n)
  OBVIOUS
<1>3. CASE n = -1
  <2>1. /\ r = <<Junk>> \o d /\ r \in Seq(Bytes) /\ Len(r) = Len(d) + 1 /\ r[1] = Junk
        /\ \A i \in 1 .. Len(d) : r[i + 1] = d[i]
    BY <1>1, <1>2, <1>3 DEF Rest
  <2>2. ASSUME NEW x \in BytesOf(r) PROVE x \in {Junk} \cup BytesOf(d)
    <3>1. PICK i \in 1 .. Len(d) + 1 : x = r[i]
      BY <2>1, <2>2 DEF BytesOf
    <3>2. CASE i # 1
      <4>1. i - 1 \in 1 .. Len(d) /\ (i - 1) + 1 = i
        BY <1>1, <3>2
      <4> QED BY <2>1, <3>1, <4>1 DEF BytesOf
    <3> QED BY <2>1, <3>1, <3>2
  <2>3. ASSUME NEW x \in {Junk} \cup BytesOf(d) PROVE x \in BytesOf(r)
    <3>1. CASE x = Junk
      <4>1. 1 \in 1 .. Len(r)
        BY <1>1, <2>1
      <4> QED BY <2>1, <3>1, <4>1 DEF BytesOf
    <3>2. CASE x # Junk
      <4>1. PICK i \in 1 .. Len(d) : x = d[i]
        BY <2>3, <3>2 DEF BytesOf
      <4>2. i + 1 \in 1 .. Len(r)
        BY <1>1, <2>1
      <4> QED BY <2>1, <4>1, <4>2 DEF BytesOf
    <3> QED BY <3>1, <3>2
  <2> QED BY <1>2, <1>3, <2>1, <2>2, <2>3
<1>4. CASE n >= 0
  <2>1. /\ r = SubSeq(d, n + 1, Len(d)) /\ r \in Seq(Bytes) /\ Len(r) = Len(d) - n
        /\ \A i \in 1 .. Len(r) : r[i] = d[n + i]
    BY <1>1, <1>2, <1>4 DEF Rest
  <2>2. ASSUME NEW x \in BytesOf(r) PROVE x \in BytesOf(d)
    <3>1. PICK i \in 1 .. Len(r) : x = r[i]
      BY <2>2 DEF BytesOf
    <3>2. n + i \in 1 .. Len(d)
      BY <1>1, <1>4, <2>1
    <3> QED BY <2>1, <3>1, <3>2 DEF BytesOf
  <2>3. ASSUME NEW x \in BytesOf(d) PROVE x \in {d[i] : i \in 1 .. n} \cup BytesOf(r)
    <3>1. PICK i \in 1 .. Len(d) : x = d[i]
      BY <2>3 DEF BytesOf
    <3>2. CASE i <= n
      <4>1. i \in 1 .. n
        BY <1>1, <1>4, <3>2
      <4> QED BY <3>1, <4>1
    <3>3. CASE i > n
      <4>1. i - n \in 1 .. Len(r) /\ n + (i - n) = i
        BY <1>1, <1>4, <2>1, <3>3
      <4> QED BY <2>1, <3>1, <4>1 DEF BytesOf
    <3> QED BY <1>1, <1>4, <3>2, <3>3
  <2> QED BY <1>2, <1>4, <2>1, <2>2, <2>3
<1> QED
  BY <1>1, <1>3, <1>4

-----------------------------------------------------------------------------
(***************************************************************************)
(* The steps of senders.                                                   *)
(***************************************************************************)
LEMMA GoneOfNone ==
  ASSUME NEW s \in Senders, send_len[s] = 0
  PROVE  Gone(s) = {}
  BY DEF Gone

\* A call begins with data of which nothing is gone; one that comes between the
\* descriptor and on_enter is meant for the connection before.
LEMMA BeginKeeps ==
  ASSUME ServerInv, NEW s \in Senders, BeginCall(s)
  PROVE  ServerInv'
<1>1. /\ ServerTypeOK /\ LifeInv /\ CallInv /\ FreshInv /\ BytesInv
  BY DEF ServerInv
<1>2. /\ pc[s] = "idle" /\ pc' = [pc EXCEPT ![s] = "lock"]
      /\ was_writeable' = [was_writeable EXCEPT ![s] = writeable]
      /\ UNCHANGED <<writeable, send_buffer, send_lock, send_len, rpc, sockVars, accepted,
                     refused, fd, clients, lpc, entered>>
      /\ crossed' = (crossed \/ fd \notin {SOCKET_ERROR, entered})
  BY DEF BeginCall, BeginSend
<1>3. PICK d \in offered : offered' = offered \ {d} /\ data' = [data EXCEPT ![s] = d]
  BY DEF BeginCall, BeginSend
<1>4. d \in Seq(Bytes) /\ offered' \subseteq Data
  BY <1>1, <1>3, SendAssumption DEF ServerTypeOK, TypeOK
<1>5. send_len[s] = 0 /\ data'[s] = d /\ Len(d) \in Nat
      /\ \A q \in Senders \ {s} : data'[q] = data[q] /\ pc'[q] = pc[q]
  BY <1>1, <1>2, <1>3, <1>4 DEF CallInv, ServerTypeOK, TypeOK
<1>6. ServerTypeOK'
  <2>1. /\ pc' \in [Senders -> {"idle", "lock", "old", "new", "mark", "store"}]
        /\ data' \in [Senders -> Seq(Bytes)]
        /\ was_writeable' \in [Senders -> BOOLEAN]
    BY <1>1, <1>2, <1>3, <1>4 DEF ServerTypeOK, TypeOK
  <2> QED BY <1>1, <1>2, <1>4, <2>1 DEF ServerTypeOK, TypeOK, sockVars
<1>7. LifeInv'
  BY <1>1, <1>2 DEF LifeInv, SettingUp, sockVars
<1>8. CallInv'
  <2>1. d \in Data
    BY <1>1, <1>3 DEF ServerTypeOK, TypeOK
  <2>2. ASSUME NEW q \in Senders
        PROVE  /\ pc'[q] # "idle" => data'[q] \in Data
               /\ send_len'[q] \in -1 .. Len(data'[q])
               /\ pc'[q] \in {"idle", "lock", "old", "new"} => send_len'[q] = 0
    <3>1. CASE q = s
      BY <1>2, <1>5, <2>1, <3>1
    <3>2. CASE q # s
      BY <1>1, <1>2, <1>5, <3>2 DEF CallInv
    <3> QED BY <3>1, <3>2
  <2> QED BY <1>1, <1>2, <2>2 DEF CallInv, sockVars
<1>9. FreshInv'
  <2> SUFFICES ASSUME ~crossed', fd' # SOCKET_ERROR, SettingUp' PROVE FALSE
    BY DEF FreshInv
  <2>1. fd = entered
    BY <1>2
  <2>2. SettingUp /\ fd # SOCKET_ERROR
    BY <1>2 DEF SettingUp
  <2>3. fd = clients /\ entered < clients /\ clients \in Int
    BY <1>1, <2>2 DEF LifeInv, ServerTypeOK
  <2> QED BY <2>1, <2>3
<1>10. BytesInv'
  <2>1. ASSUME NEW q \in Senders
        PROVE  Gone(q)' = Gone(q) /\ (send_len'[q] = -1 => send_len[q] = -1)
    <3>1. CASE q = s
      <4>1. Gone(s) = {} /\ Gone(s)' = {}
        BY <1>2, <1>5 DEF Gone
      <4> QED BY <1>2, <3>1, <4>1
    <3>2. CASE q # s
      BY <1>2, <1>5, <3>2 DEF Gone
    <3> QED BY <3>1, <3>2
  <2> QED BY <1>1, <1>2, <2>1, BytesFrame DEF sockVars
<1> QED
  BY <1>6, <1>7, <1>8, <1>9, <1>10 DEF ServerInv

LEMMA LockKeeps ==
  ASSUME ServerInv, NEW s \in Senders, Lock(s), UNCHANGED serverVars
  PROVE  ServerInv'
<1>1. /\ ServerTypeOK /\ LifeInv /\ CallInv /\ FreshInv /\ BytesInv
  BY DEF ServerInv
<1>2. /\ pc[s] = "lock" /\ send_lock' = s
      /\ send_len' = [send_len EXCEPT ![s] = 0]
      /\ pc' = [pc EXCEPT ![s] = IF was_writeable[s] THEN "old" ELSE "store"]
      /\ UNCHANGED <<writeable, send_buffer, data, was_writeable, rpc, sockVars, histVars>>
  BY DEF Lock
<1>3. send_len' = send_len
  BY <1>1, <1>2 DEF CallInv, ServerTypeOK, TypeOK
<1>4. ServerTypeOK'
  <2>1. pc' \in [Senders -> {"idle", "lock", "old", "new", "mark", "store"}]
    BY <1>1, <1>2 DEF ServerTypeOK, TypeOK
  <2> QED BY <1>1, <1>2, <1>3, <2>1 DEF ServerTypeOK, TypeOK, sockVars, histVars, serverVars
<1>5. LifeInv'
  BY <1>1, <1>2, LifeFrame DEF sockVars
<1>6. CallInv'
  BY <1>1, <1>2, <1>3 DEF CallInv, sockVars, ServerTypeOK, TypeOK
<1>7. FreshInv'
  BY <1>1, <1>2, FreshAtWork
<1>8. BytesInv'
  <2>1. \A q \in Senders : Gone(q)' = Gone(q)
    BY <1>2, <1>3 DEF Gone
  <2> QED BY <1>1, <1>2, <1>3, <2>1, BytesFrame DEF sockVars, histVars, serverVars
<1> QED
  BY <1>4, <1>5, <1>6, <1>7, <1>8 DEF ServerInv

LEMMA SendOldKeeps ==
  ASSUME ServerInv, NEW s \in Senders, SendOld(s), UNCHANGED serverVars
  PROVE  ServerInv'
<1>1. /\ ServerTypeOK /\ LifeInv /\ CallInv /\ FreshInv /\ BytesInv
  BY DEF ServerInv
<1>2. /\ pc[s] = "old" /\ SendOldData /\ pc' = [pc EXCEPT ![s] = "new"]
      /\ UNCHANGED <<send_lock, data, was_writeable, send_len, rpc, histVars>>
  BY DEF SendOld
<1>3. /\ send_buffer' \in BufferType /\ send_buffer'.read_pos = 0
      /\ wire' \in Seq(Bytes) /\ Len(wire') <= MaxWire
      /\ kernel' \in 0 .. KernelSize /\ nospace' \in BOOLEAN /\ writeable' \in BOOLEAN
      /\ UNCHANGED <<edge, dead>>
  BY <1>1, <1>2, OldData
<1>4. ServerTypeOK'
  <2>1. pc' \in [Senders -> {"idle", "lock", "old", "new", "mark", "store"}]
    BY <1>1, <1>2 DEF ServerTypeOK, TypeOK
  <2>2. send_buffer'.read_pos <= send_buffer'.write_pos
    BY <1>3, BufferAssumption DEF BufferType
  <2> QED BY <1>1, <1>2, <1>3, <2>1, <2>2 DEF ServerTypeOK, TypeOK, histVars, serverVars
<1>5. LifeInv'
  BY <1>1, <1>3, LifeFrame
<1>6. CallInv'
  BY <1>1, <1>2, <1>3 DEF CallInv, ServerTypeOK, TypeOK
<1>7. FreshInv'
  BY <1>1, <1>2, FreshAtWork
<1>8. BytesInv'
  BY <1>1, <1>2, OldDataBytes DEF histVars
<1> QED
  BY <1>4, <1>5, <1>6, <1>7, <1>8 DEF ServerInv

LEMMA SendNewKeeps ==
  ASSUME ServerInv, NEW s \in Senders, SendNew(s), UNCHANGED serverVars
  PROVE  ServerInv'
<1>1. /\ ServerTypeOK /\ LifeInv /\ CallInv /\ FreshInv /\ BytesInv
  BY DEF ServerInv
<1>2. /\ pc[s] = "new" /\ pc' = [pc EXCEPT ![s] = "mark"]
      /\ UNCHANGED <<writeable, send_buffer, send_lock, data, was_writeable, rpc, histVars>>
  BY DEF SendNew
<1>3. /\ send_len[s] = 0 /\ data[s] \in Seq(Bytes) /\ send_len \in [Senders -> Int]
      /\ pc' \in [Senders -> {"idle", "lock", "old", "new", "mark", "store"}]
      /\ pc'[s] = "mark" /\ \A q \in Senders \ {s} : pc'[q] = pc[q]
  BY <1>1, <1>2 DEF CallInv, ServerTypeOK, TypeOK
<1>4. FreshInv'
  BY <1>1, <1>2, FreshAtWork
<1>5. CASE ~writeable
  <2>1. UNCHANGED <<sockVars, send_len>>
    BY <1>5 DEF SendNew
  <2>2. ServerTypeOK'
    BY <1>1, <1>2, <1>3, <2>1 DEF ServerTypeOK, TypeOK, sockVars, histVars, serverVars
  <2>3. LifeInv'
    BY <1>1, <2>1, LifeFrame DEF sockVars
  <2>4. CallInv'
    BY <1>1, <1>2, <1>3, <2>1 DEF CallInv, sockVars
  <2>5. BytesInv'
    <3>1. \A q \in Senders : Gone(q)' = Gone(q)
      BY <1>2, <2>1 DEF Gone
    <3> QED BY <1>1, <1>2, <2>1, <3>1, BytesFrame DEF sockVars, histVars, serverVars
  <2> QED BY <1>4, <2>2, <2>3, <2>4, <2>5 DEF ServerInv
<1>6. CASE writeable
  <2>1. PICK n : n = Taken(data[s])
    OBVIOUS
  <2>2. SocketSend(data[s]) /\ send_len' = [send_len EXCEPT ![s] = n]
    BY <1>6, <2>1 DEF SendNew
  <2>3. /\ n \in -1 .. Len(data[s]) /\ (n = -1 <=> dead)
        /\ wire' \in Seq(Bytes) /\ Len(wire') <= MaxWire
        /\ kernel' \in 0 .. KernelSize /\ nospace' \in BOOLEAN
        /\ BytesOf(wire') = BytesOf(wire) \cup {data[s][i] : i \in 1 .. n}
        /\ UNCHANGED <<edge, dead>>
    BY <1>1, <1>3, <2>1, <2>2, Sending
  <2>4. /\ send_len' \in [Senders -> Int] /\ send_len'[s] = n
        /\ \A q \in Senders \ {s} : send_len'[q] = send_len[q]
    BY <1>3, <2>2, <2>3
  <2>5. ServerTypeOK'
    BY <1>1, <1>2, <1>3, <2>3, <2>4 DEF ServerTypeOK, TypeOK, histVars, serverVars
  <2>6. LifeInv'
    BY <1>1, <2>3, LifeFrame
  <2>7. CallInv'
    BY <1>1, <1>2, <1>3, <2>3, <2>4 DEF CallInv
  <2>8. BytesInv'
    <3> SUFFICES ASSUME ~crossed', fd' = entered' PROVE BytesInv'
      BY DEF BytesInv
    <3>1. /\ BytesAre(dead, BytesOf(wire), BytesOf(accepted), Held(send_buffer), AllGone)
          /\ Zeros(send_buffer)
      BY <1>1, BytesIs DEF serverVars
    <3>2. Gone(s) = {} /\ Gone(s)' = {data[s][i] : i \in 1 .. n}
      BY <1>2, <1>3, <2>4 DEF Gone
    <3>3. \A q \in Senders \ {s} : Gone(q)' = Gone(q)
      BY <1>2, <2>4 DEF Gone
    <3>4. AllGone' = AllGone \cup Gone(s)'
      <4>1. ASSUME NEW x PROVE x \in AllGone' <=> \E q \in Senders : x \in Gone(q)'
        BY DEF AllGone
      <4>2. ASSUME NEW x PROVE x \in AllGone <=> \E q \in Senders : x \in Gone(q)
        BY DEF AllGone
      <4> QED BY <3>2, <3>3, <4>1, <4>2
    <3>5. \A q \in Senders : Gone(q)' \subseteq BytesOf(wire') /\ (send_len'[q] = -1 => dead')
      BY <2>3, <2>4, <3>1, <3>2, <3>3 DEF BytesAre
    <3>6. BytesOf(wire') \subseteq BytesOf(accepted') \cup AllGone' \cup {Zero}
      BY <1>2, <2>3, <3>1, <3>2, <3>4 DEF BytesAre, histVars
    <3>7. dead' \/ BytesOf(accepted') \subseteq BytesOf(wire') \cup Held(send_buffer')
      BY <1>2, <2>3, <3>1 DEF BytesAre, histVars
    <3>8. Held(send_buffer') \subseteq
            BytesOf(accepted') \cup {Zero} \cup (IF dead' THEN {Junk} ELSE {})
      BY <1>2, <2>3, <3>1 DEF BytesAre, histVars
    <3>9. send_buffer' \in BufferType /\ send_buffer'.read_pos = 0 /\ Zeros(send_buffer')
      BY <1>1, <1>2, <3>1, StateIs
    <3> QED BY <3>5, <3>6, <3>7, <3>8, <3>9, BytesIsNext
  <2> QED BY <1>4, <2>5, <2>6, <2>7, <2>8 DEF ServerInv
<1> QED
  BY <1>5, <1>6

LEMMA MarkKeeps ==
  ASSUME ServerInv, NEW s \in Senders, Mark(s), UNCHANGED serverVars
  PROVE  ServerInv'
<1>1. /\ ServerTypeOK /\ LifeInv /\ CallInv /\ FreshInv /\ BytesInv
  BY DEF ServerInv
<1>2. /\ pc[s] = "mark" /\ pc' = [pc EXCEPT ![s] = "store"]
      /\ writeable' = (writeable /\ send_len[s] >= Len(data[s]))
      /\ UNCHANGED <<send_buffer, send_lock, data, was_writeable, send_len, rpc, sockVars,
                     histVars>>
  BY DEF Mark
<1>3. ServerTypeOK'
  <2>1. /\ pc' \in [Senders -> {"idle", "lock", "old", "new", "mark", "store"}]
        /\ writeable' \in BOOLEAN
    BY <1>1, <1>2 DEF ServerTypeOK, TypeOK
  <2> QED BY <1>1, <1>2, <2>1 DEF ServerTypeOK, TypeOK, sockVars, histVars, serverVars
<1>4. LifeInv'
  BY <1>1, <1>2, LifeFrame DEF sockVars
<1>5. CallInv'
  BY <1>1, <1>2 DEF CallInv, sockVars, ServerTypeOK, TypeOK
<1>6. FreshInv'
  BY <1>1, <1>2, FreshAtWork
<1>7. BytesInv'
  <2>1. \A q \in Senders : Gone(q)' = Gone(q)
    BY <1>2 DEF Gone
  <2> QED BY <1>1, <1>2, <2>1, BytesFrame DEF sockVars, histVars, serverVars
<1> QED
  BY <1>3, <1>4, <1>5, <1>6, <1>7 DEF ServerInv

\* What a finished call was given is accepted as a whole with the rest of it in the
\* buffer, or as far as the kernel took it.
LEMMA Storing ==
  ASSUME ServerTypeOK, CallInv, NEW s \in Senders, Store(s)
  PROVE  LET d == data[s]
             n == send_len[s]
             rest == Rest(d, n)
             kept == WriteOk(send_buffer, rest)
         IN /\ d \in Seq(Bytes) /\ n \in -1 .. Len(d)
            /\ send_buffer' \in BufferType /\ send_buffer'.read_pos = 0
            /\ Zeros(send_buffer) => Zeros(send_buffer')
            /\ accepted' \in Seq(Bytes)
            /\ Held(send_buffer') = Held(send_buffer) \cup (IF kept THEN BytesOf(rest) ELSE {})
            /\ BytesOf(accepted')
                 = BytesOf(accepted) \cup (IF kept THEN BytesOf(d) ELSE Gone(s))
            /\ refused' \subseteq refused \cup {d}
<1> DEFINE d == data[s]
           n == send_len[s]
           rest == Rest(d, n)
           kept == WriteOk(send_buffer, rest)
           m == IF kept THEN Len(d) ELSE n
<1>1. d \in Seq(Bytes) /\ n \in -1 .. Len(d) /\ accepted \in Seq(Bytes)
  BY DEF ServerTypeOK, TypeOK, CallInv
<1>2. rest \in Seq(Bytes)
  BY <1>1, RestBytes
<1>3. /\ send_buffer' = Write(send_buffer, rest)
      /\ accepted' = IF m > 0 THEN accepted \o SubSeq(d, 1, m) ELSE accepted
      /\ refused' = IF m = 0 THEN refused \cup {d} ELSE refused
  BY DEF Store
<1>4. Gone(s) = {d[i] : i \in 1 .. n}
  BY DEF Gone
<1> HIDE DEF d, n, rest
<1>5. /\ send_buffer' \in BufferType /\ send_buffer'.read_pos = 0
      /\ Zeros(send_buffer) => Zeros(send_buffer')
      /\ Held(send_buffer') = Held(send_buffer) \cup (IF kept THEN BytesOf(rest) ELSE {})
  BY <1>2, <1>3, StateIs, WriteHeld
<1>6. m \in -1 .. Len(d) /\ m \in Int /\ Len(d) \in Nat
  BY <1>1
<1>7. IF kept THEN {d[i] : i \in 1 .. m} = BytesOf(d) ELSE {d[i] : i \in 1 .. m} = Gone(s)
  BY <1>4 DEF BytesOf
<1>8. /\ accepted' \in Seq(Bytes)
      /\ BytesOf(accepted') = BytesOf(accepted) \cup {d[i] : i \in 1 .. m}
  <2> HIDE DEF m
  <2>1. CASE ~(m > 0)
    <3>1. 1 .. m = {}
      BY <1>6, <2>1
    <3> QED BY <1>1, <1>3, <2>1, <3>1
  <2>2. CASE m > 0
    <3>1. PICK t : t = SubSeq(d, 1, m)
      OBVIOUS
    <3>2. t \in Seq(Bytes) /\ Len(t) = m /\ \A i \in 1 .. m : t[i] = d[i]
      BY <1>1, <1>6, <2>2, <3>1
    <3>3. accepted' = accepted \o t
      BY <1>3, <2>2, <3>1
    <3>4. BytesOf(t) = {d[i] : i \in 1 .. m}
      BY <3>2 DEF BytesOf
    <3> QED BY <1>1, <3>2, <3>3, <3>4, JoinedBytes
  <2> QED BY <2>1, <2>2
<1> HIDE DEF m
<1>9. BytesOf(accepted') = BytesOf(accepted) \cup (IF kept THEN BytesOf(d) ELSE Gone(s))
  BY <1>7, <1>8
<1>10. refused' \subseteq refused \cup {d}
  BY <1>3
<1> QED
  BY <1>1, <1>5, <1>8, <1>9, <1>10 DEF d, n, rest

LEMMA StoreKeeps ==
  ASSUME ServerInv, NEW s \in Senders, Store(s), UNCHANGED serverVars
  PROVE  ServerInv'
<1>1. /\ ServerTypeOK /\ LifeInv /\ CallInv /\ FreshInv /\ BytesInv
  BY DEF ServerInv
<1>2. /\ pc[s] = "store" /\ send_lock' = Nobody
      /\ data' = [data EXCEPT ![s] = <<>>]
      /\ was_writeable' = [was_writeable EXCEPT ![s] = FALSE]
      /\ send_len' = [send_len EXCEPT ![s] = 0]
      /\ pc' = [pc EXCEPT ![s] = "idle"]
      /\ UNCHANGED <<writeable, rpc, sockVars, offered>>
  BY DEF Store
<1>3. /\ pc' \in [Senders -> {"idle", "lock", "old", "new", "mark", "store"}]
      /\ data' \in [Senders -> Seq(Bytes)] /\ was_writeable' \in [Senders -> BOOLEAN]
      /\ send_len' \in [Senders -> Int]
      /\ data'[s] = <<>> /\ send_len'[s] = 0
      /\ \A q \in Senders \ {s} : /\ data'[q] = data[q] /\ send_len'[q] = send_len[q]
                                  /\ pc'[q] = pc[q]
  BY <1>1, <1>2 DEF ServerTypeOK, TypeOK
<1> DEFINE d == data[s]
           n == send_len[s]
           rest == Rest(d, n)
           kept == WriteOk(send_buffer, rest)
<1>4. /\ d \in Seq(Bytes) /\ n \in -1 .. Len(d)
      /\ send_buffer' \in BufferType /\ send_buffer'.read_pos = 0
      /\ Zeros(send_buffer) => Zeros(send_buffer')
      /\ accepted' \in Seq(Bytes)
      /\ Held(send_buffer') = Held(send_buffer) \cup (IF kept THEN BytesOf(rest) ELSE {})
      /\ BytesOf(accepted')
           = BytesOf(accepted) \cup (IF kept THEN BytesOf(d) ELSE Gone(s))
  BY <1>1, Storing
<1>5. refused' \subseteq Data
  <2>1. refused \subseteq Data /\ d \in Data
    BY <1>1, <1>2 DEF ServerTypeOK, TypeOK, CallInv
  <2> QED BY <1>1, <2>1, Storing
<1>6. /\ n = -1 => BytesOf(rest) = {Junk} \cup BytesOf(d) /\ Gone(s) = {}
      /\ n >= 0 => /\ BytesOf(rest) \subseteq BytesOf(d)
                   /\ BytesOf(d) \subseteq Gone(s) \cup BytesOf(rest)
      /\ Gone(s) \subseteq BytesOf(d)
  <2>1. Gone(s) = {d[i] : i \in 1 .. n}
    BY DEF Gone
  <2>2. Gone(s) \subseteq BytesOf(d) /\ (n = -1 => Gone(s) = {})
    BY <1>4, <2>1 DEF BytesOf
  <2> QED
    BY <1>4, <2>1, <2>2, RestBytes
<1>7. ServerTypeOK'
  <2>1. send_buffer'.read_pos <= send_buffer'.write_pos
    BY <1>4, BufferAssumption DEF BufferType
  <2>2. Nobody \in Senders \cup {Nobody}
    OBVIOUS
  <2> HIDE DEF d, n, rest, kept
  <2> QED BY <1>1, <1>2, <1>3, <1>4, <1>5, <2>1, <2>2 DEF ServerTypeOK, TypeOK, sockVars, serverVars
<1>8. LifeInv'
  BY <1>1, <1>2, LifeFrame DEF sockVars
<1>9. CallInv'
  <2> HIDE DEF d, n, rest, kept
  <2> QED BY <1>1, <1>2, <1>3, <1>4 DEF CallInv, sockVars
<1>10. FreshInv'
  BY <1>1, <1>2, FreshAtWork
<1>11. BytesInv'
  <2> SUFFICES ASSUME ~crossed', fd' = entered' PROVE BytesInv'
    BY DEF BytesInv
  <2>1. /\ BytesAre(dead, BytesOf(wire), BytesOf(accepted), Held(send_buffer), AllGone)
        /\ Zeros(send_buffer)
    BY <1>1, BytesIs DEF serverVars
  <2>2. /\ ~dead => BytesOf(accepted) \subseteq BytesOf(wire) \cup Held(send_buffer)
        /\ Gone(s) \subseteq BytesOf(wire) /\ (n = -1 => dead)
        /\ \A q \in Senders : Gone(q) \subseteq BytesOf(wire) /\ (send_len[q] = -1 => dead)
        /\ BytesOf(wire) \subseteq BytesOf(accepted) \cup AllGone \cup {Zero}
        /\ Held(send_buffer) \subseteq
             BytesOf(accepted) \cup {Zero} \cup (IF dead THEN {Junk} ELSE {})
    BY <2>1 DEF BytesAre
  <2> HIDE DEF d, n, rest, kept
  <2>3. wire' = wire /\ dead' = dead
    BY <1>2 DEF sockVars
  <2>4. n # -1 => n >= 0
    BY <1>4
  <2>5. Gone(s)' = {} /\ \A q \in Senders \ {s} : Gone(q)' = Gone(q)
    BY <1>3 DEF Gone
  <2>6. AllGone \subseteq AllGone' \cup Gone(s)
    <3>1. ASSUME NEW x \in AllGone PROVE x \in AllGone' \cup Gone(s)
      <4>1. PICK q \in Senders : x \in Gone(q)
        BY <3>1 DEF AllGone
      <4>2. CASE q # s
        <5>1. x \in Gone(q)'
          BY <2>5, <4>1, <4>2
        <5> QED BY <5>1 DEF AllGone
      <4> QED BY <4>1, <4>2
    <3> QED BY <3>1
  <2>7. ASSUME NEW q \in Senders
        PROVE  Gone(q)' \subseteq BytesOf(wire') /\ (send_len'[q] = -1 => dead')
    <3>1. CASE q = s
      BY <1>3, <2>5, <3>1
    <3>2. CASE q # s
      <4>1. Gone(q)' = Gone(q) /\ send_len'[q] = send_len[q]
        BY <1>3, <2>5, <3>2
      <4> QED BY <2>2, <2>3, <4>1
    <3> QED BY <3>1, <3>2
  <2>8. BytesOf(wire') \subseteq BytesOf(accepted') \cup AllGone' \cup {Zero}
    <3>1. BytesOf(accepted) \cup Gone(s) \subseteq BytesOf(accepted')
      BY <1>4, <1>6
    <3> QED BY <2>2, <2>3, <2>6, <3>1
  <2>9. dead' \/ BytesOf(accepted') \subseteq BytesOf(wire') \cup Held(send_buffer')
    <3>1. CASE dead
      BY <2>3, <3>1
    <3>2. CASE ~dead /\ kept
      <4>1. BytesOf(d) \subseteq Gone(s) \cup BytesOf(rest)
        BY <1>6, <2>2, <2>4, <3>2
      <4> QED BY <1>4, <2>2, <2>3, <3>2, <4>1
    <3>3. CASE ~dead /\ ~kept
      BY <1>4, <2>2, <2>3, <3>3
    <3> QED BY <3>1, <3>2, <3>3
  <2>10. Held(send_buffer') \subseteq
           BytesOf(accepted') \cup {Zero} \cup (IF dead' THEN {Junk} ELSE {})
    <3>1. CASE kept /\ n = -1
      BY <1>4, <1>6, <2>2, <2>3, <3>1
    <3>2. CASE kept /\ n # -1
      <4>1. BytesOf(rest) \subseteq BytesOf(d)
        BY <1>6, <2>4, <3>2
      <4> QED BY <1>4, <2>2, <2>3, <3>2, <4>1
    <3>3. CASE ~kept
      BY <1>4, <2>2, <2>3, <3>3
    <3> QED BY <3>1, <3>2, <3>3
  <2>11. send_buffer' \in BufferType /\ send_buffer'.read_pos = 0 /\ Zeros(send_buffer')
    BY <1>4, <2>1
  <2> QED BY <2>7, <2>8, <2>9, <2>10, <2>11, BytesIsNext
<1> QED
  BY <1>7, <1>8, <1>9, <1>10, <1>11 DEF ServerInv

-----------------------------------------------------------------------------
(***************************************************************************)
(* The steps of the reactor and of the peer.                               *)
(***************************************************************************)
LEMMA ReactorKeeps ==
  ASSUME ServerInv, ReactorStep, UNCHANGED serverVars
  PROVE  ServerInv'
<1>1. /\ ServerTypeOK /\ LifeInv /\ CallInv /\ FreshInv /\ BytesInv
  BY DEF ServerInv
<1>2. /\ rpc # "wait" \/ edge
      /\ rpc' \in {"wait", "event", "check", "lock"} /\ edge' \in BOOLEAN
      /\ UNCHANGED <<send_lock, senderVars, dead, histVars>>
      /\ \/ SendOldData
         \/ writeable' \in BOOLEAN /\ UNCHANGED <<send_buffer, kernel, nospace, wire>>
  <2>1. edge \in BOOLEAN /\ writeable \in BOOLEAN
    BY <1>1 DEF ServerTypeOK, TypeOK
  <2>2. CASE TakeEvent
    BY <2>1, <2>2 DEF TakeEvent
  <2>3. CASE OutEvent
    BY <2>1, <2>3 DEF OutEvent, sockVars
  <2>4. CASE OutCheck
    BY <2>1, <2>4 DEF OutCheck, sockVars
  <2>5. CASE OutSend
    <3>1. SendOldData /\ rpc = "lock" /\ rpc' = "wait"
          /\ UNCHANGED <<send_lock, senderVars, histVars>>
      BY <2>5 DEF OutSend
    <3>2. UNCHANGED <<edge, dead>>
      BY <1>1, <3>1, OldData
    <3> QED BY <2>1, <3>1, <3>2
  <2> QED BY <2>2, <2>3, <2>4, <2>5 DEF ReactorStep
<1>3. FreshInv'
  BY <1>1, <1>2, FreshAtWork
<1>4. LifeInv'
  BY <1>1, <1>2, LifeFrame
<1>5. CASE SendOldData
  <2>1. /\ send_buffer' \in BufferType /\ send_buffer'.read_pos = 0
        /\ wire' \in Seq(Bytes) /\ Len(wire') <= MaxWire
        /\ kernel' \in 0 .. KernelSize /\ nospace' \in BOOLEAN /\ writeable' \in BOOLEAN
    BY <1>1, <1>5, OldData
  <2>2. send_buffer'.read_pos <= send_buffer'.write_pos
    BY <2>1, BufferAssumption DEF BufferType
  <2>3. ServerTypeOK'
    BY <1>1, <1>2, <2>1, <2>2 DEF ServerTypeOK, TypeOK, senderVars, histVars, serverVars
  <2>4. CallInv'
    BY <1>1, <1>2, <2>1 DEF CallInv, senderVars
  <2>5. BytesInv'
    BY <1>1, <1>2, <1>5, OldDataBytes DEF senderVars, histVars
  <2> QED BY <1>3, <1>4, <2>3, <2>4, <2>5 DEF ServerInv
<1>6. CASE writeable' \in BOOLEAN /\ UNCHANGED <<send_buffer, kernel, nospace, wire>>
  <2>1. ServerTypeOK'
    BY <1>1, <1>2, <1>6 DEF ServerTypeOK, TypeOK, senderVars, histVars, serverVars
  <2>2. CallInv'
    BY <1>1, <1>2, <1>6, CallFrame DEF senderVars
  <2>3. BytesInv'
    <3>1. \A q \in Senders : Gone(q)' = Gone(q)
      BY <1>2 DEF Gone, senderVars
    <3> QED BY <1>1, <1>2, <1>6, <3>1, BytesFrame DEF senderVars, histVars, serverVars
  <2> QED BY <1>3, <1>4, <2>1, <2>2, <2>3 DEF ServerInv
<1> QED
  BY <1>2, <1>5, <1>6

\* epoll reports a registered descriptor only, and the listen thread registers it last.
LEMMA PeerKeeps ==
  ASSUME ServerInv, PeerReads(Registered) \/ Reset, UNCHANGED serverVars
  PROVE  ServerInv'
<1>1. /\ ServerTypeOK /\ LifeInv /\ CallInv /\ FreshInv /\ BytesInv
  BY DEF ServerInv
<1>2. /\ UNCHANGED <<writeable, send_buffer, send_lock, senderVars, rpc, wire, histVars>>
      /\ dead' \in BOOLEAN /\ (dead => dead')
      /\ kernel' \in 0 .. KernelSize /\ nospace' \in BOOLEAN /\ edge' \in BOOLEAN
      /\ edge' => edge \/ Registered
  <2>1. /\ edge \in BOOLEAN /\ dead \in BOOLEAN /\ nospace \in BOOLEAN
        /\ kernel \in 0 .. KernelSize
    BY <1>1 DEF ServerTypeOK, TypeOK
  <2>2. CASE PeerReads(Registered)
    <3>1. PICK b : b = Registered
      OBVIOUS
    <3>2. kernel' \in 0 .. KernelSize
      BY <2>1, <2>2, SendAssumption DEF PeerReads
    <3>3. edge' \in BOOLEAN /\ (edge' => edge \/ Registered)
      BY <2>1, <2>2 DEF PeerReads
    <3> QED BY <2>1, <2>2, <3>2, <3>3 DEF PeerReads
  <2>3. CASE Reset
    BY <2>1, <2>3 DEF Reset
  <2> QED BY <2>2, <2>3
<1>3. ServerTypeOK'
  BY <1>1, <1>2 DEF ServerTypeOK, TypeOK, senderVars, histVars, serverVars
<1>4. LifeInv'
  BY <1>1, <1>2, LifeFrame
<1>5. CallInv'
  BY <1>1, <1>2, CallFrame DEF senderVars
<1>6. FreshInv'
  <2> SUFFICES ASSUME ~crossed', fd' # SOCKET_ERROR, SettingUp' PROVE FreshInv'
    BY DEF FreshInv
  <2>1. ~crossed /\ fd # SOCKET_ERROR /\ SettingUp
    BY DEF serverVars, SettingUp
  <2>2. fd = clients /\ entered < clients /\ clients \in Int
    BY <1>1, <2>1 DEF LifeInv, ServerTypeOK
  <2>3. ~Registered
    BY <2>2 DEF Registered
  <2>4. ~edge'
    BY <1>1, <1>2, <2>1, <2>3 DEF FreshInv
  <2> QED BY <1>1, <1>2, <2>1, <2>4 DEF FreshInv, Busy, senderVars, histVars, serverVars
<1>7. BytesInv'
  <2>1. \A q \in Senders : Gone(q)' = Gone(q)
    BY <1>2 DEF Gone, senderVars
  <2> QED BY <1>1, <1>2, <2>1, BytesFrame DEF senderVars, histVars, serverVars
<1> QED
  BY <1>3, <1>4, <1>5, <1>6, <1>7 DEF ServerInv

-----------------------------------------------------------------------------
(***************************************************************************)
(* The steps of the session's life.                                        *)
(***************************************************************************)

\* A closed session claims nothing of bytes until it has its next connection.
LEMMA CloseKeeps ==
  ASSUME ServerInv, CloseSession
  PROVE  ServerInv'
<1>1. /\ ServerTypeOK /\ LifeInv /\ CallInv
  BY DEF ServerInv
<1>2. /\ fd' = SOCKET_ERROR /\ dead' = TRUE /\ edge' = FALSE /\ nospace' = FALSE
      /\ UNCHANGED <<writeable, send_buffer, send_lock, senderVars, rpc, kernel, wire,
                     histVars, clients, lpc, entered, crossed>>
  BY DEF CloseSession
<1>3. ServerTypeOK'
  BY <1>1, <1>2 DEF ServerTypeOK, TypeOK, senderVars, histVars
<1>4. LifeInv'
  BY <1>1, <1>2 DEF LifeInv, SettingUp
<1>5. CallInv'
  BY <1>1, <1>2, CallFrame DEF senderVars
<1>6. FreshInv'
  BY <1>2 DEF FreshInv
<1>7. BytesInv'
  <2>1. entered' \in Int /\ entered' >= 1 /\ fd' = -1
    BY <1>1, <1>2 DEF ServerTypeOK, SOCKET_ERROR
  <2>2. fd' # entered'
    BY <2>1
  <2> QED BY <2>2 DEF BytesInv
<1> QED
  BY <1>3, <1>4, <1>5, <1>6, <1>7 DEF ServerInv

\* The next connection starts without bytes; when somebody is still at work on the
\* session, lives have crossed.
LEMMA NewClientKeeps ==
  ASSUME ServerInv, NewClient
  PROVE  ServerInv'
<1>1. /\ ServerTypeOK /\ LifeInv /\ CallInv
  BY DEF ServerInv
<1>2. /\ lpc = "accept" /\ clients < MaxClients
      /\ clients' = clients + 1 /\ fd' = clients + 1
      /\ kernel' = 0 /\ nospace' = FALSE /\ edge' = FALSE /\ dead' = FALSE
      /\ wire' = <<>> /\ accepted' = <<>> /\ crossed' = (crossed \/ Busy)
      /\ lpc' = "buffer"
      /\ UNCHANGED <<writeable, send_buffer, send_lock, senderVars, rpc, offered, refused,
                     entered>>
  BY DEF NewClient
<1>3. clients \in 1 .. MaxClients /\ entered = clients /\ MaxClients \in Nat
  BY <1>1, <1>2, ServerAssumption DEF ServerTypeOK, LifeInv, SettingUp
<1>4. ServerTypeOK'
  <2>1. /\ fd' \in 1 .. clients' \cup {SOCKET_ERROR} /\ clients' \in 1 .. MaxClients
        /\ entered' \in 1 .. clients'
    BY <1>2, <1>3
  <2>2. /\ kernel' \in 0 .. KernelSize /\ wire' \in Seq(Bytes) /\ accepted' \in Seq(Bytes)
        /\ nospace' \in BOOLEAN /\ edge' \in BOOLEAN /\ dead' \in BOOLEAN
    <3>1. 0 \in 0 .. KernelSize
      BY SendAssumption
    <3>2. <<>> \in Seq(Bytes)
      OBVIOUS
    <3>3. wire' = <<>> /\ accepted' = <<>> /\ kernel' = 0
      BY <1>2
    <3>4. nospace' = FALSE /\ edge' = FALSE /\ dead' = FALSE
      BY <1>2
    <3> QED BY <3>1, <3>2, <3>3, <3>4
  <2>3. crossed' \in BOOLEAN
    <3>1. crossed' = (crossed \/ Busy)
      BY <1>2
    <3>2. CASE crossed \/ Busy
      <4>1. crossed' = TRUE
        BY <3>1, <3>2
      <4> QED BY <4>1
    <3>3. CASE ~(crossed \/ Busy)
      <4>1. crossed' = FALSE
        BY <3>1, <3>3
      <4> QED BY <4>1
    <3> QED BY <3>2, <3>3
  <2>4. TypeOK'
    BY <1>1, <1>2, <2>2 DEF ServerTypeOK, TypeOK, senderVars
  <2> QED BY <1>2, <2>1, <2>3, <2>4 DEF ServerTypeOK
<1>5. LifeInv'
  <2>1. SettingUp' /\ fd' = clients' /\ entered' < clients'
    BY <1>2, <1>3 DEF SettingUp
  <2>2. fd' # SOCKET_ERROR
    BY <1>2, <1>3 DEF SOCKET_ERROR
  <2> QED BY <2>1, <2>2 DEF LifeInv
<1>6. CallInv'
  <2>1. Len(wire') <= MaxWire
    BY <1>2, SendAssumption
  <2> QED BY <1>1, <1>2, <2>1 DEF CallInv, senderVars
<1>7. FreshInv'
  <2> SUFFICES ASSUME ~crossed' PROVE FreshInv'
    BY DEF FreshInv
  <2>1. ~Busy
    BY <1>2
  <2>2. ~Busy'
    BY <1>2, <2>1 DEF Busy, senderVars
  <2> QED BY <1>2, <2>2 DEF FreshInv
<1>8. BytesInv'
  <2>1. fd' # entered'
    BY <1>2, <1>3
  <2> QED BY <2>1 DEF BytesInv
<1> QED
  BY <1>4, <1>5, <1>6, <1>7, <1>8 DEF ServerInv

\* Nothing is claimed of bytes before on_enter.
LEMMA NotEntered ==
  ASSUME ServerTypeOK, LifeInv, SettingUp
  PROVE  fd # entered
  BY DEF ServerTypeOK, LifeInv, SOCKET_ERROR

LEMMA SetUpKeeps ==
  ASSUME ServerInv, InitBuffer \/ SetWriteable
  PROVE  ServerInv'
<1>1. /\ ServerTypeOK /\ LifeInv /\ CallInv /\ FreshInv
  BY DEF ServerInv
<1>2. /\ SettingUp /\ SettingUp'
      /\ send_buffer' = EmptyBuffer \/ UNCHANGED send_buffer
      /\ lpc' # "buffer" /\ lpc' \in {"writeable", "enter"}
      /\ send_buffer' = EmptyBuffer \/ lpc # "buffer"
      /\ writeable' \in BOOLEAN
      /\ UNCHANGED <<send_lock, senderVars, rpc, sockVars, histVars, fd, clients, entered,
                     crossed>>
  BY <1>1 DEF InitBuffer, SetWriteable, FreshBuffer, SettingUp, ServerTypeOK, TypeOK
<1>3. /\ send_buffer' \in BufferType /\ send_buffer'.read_pos = 0
      /\ send_buffer'.read_pos <= send_buffer'.write_pos
  BY <1>1, <1>2, EmptyHeld, BufferAssumption DEF ServerTypeOK, TypeOK, CallInv, BufferType
<1>4. ServerTypeOK'
  BY <1>1, <1>2, <1>3 DEF ServerTypeOK, TypeOK, senderVars, sockVars, histVars
<1>5. LifeInv'
  BY <1>1, <1>2 DEF LifeInv, sockVars
<1>6. CallInv'
  BY <1>1, <1>2, <1>3 DEF CallInv, senderVars, sockVars
<1>7. FreshInv'
  BY <1>1, <1>2 DEF FreshInv, Busy, senderVars, sockVars, histVars
<1>8. BytesInv'
  <2>1. fd # entered
    BY <1>1, <1>2, NotEntered
  <2> QED BY <1>2, <2>1 DEF BytesInv
<1> QED
  BY <1>4, <1>5, <1>6, <1>7, <1>8 DEF ServerInv

\* on_enter finds a connection without bytes, and an empty buffer.
LEMMA EnterKeeps ==
  ASSUME ServerInv, Enter
  PROVE  ServerInv'
<1>1. /\ ServerTypeOK /\ LifeInv /\ CallInv /\ FreshInv
  BY DEF ServerInv
<1>2. /\ lpc = "enter" /\ entered' = clients /\ lpc' = "register"
      /\ UNCHANGED <<sendVars, fd, clients, crossed>>
      /\ UNCHANGED <<writeable, send_buffer, send_lock, senderVars, rpc, sockVars, histVars>>
  BY DEF Enter, sendVars, vars
<1>3. ServerTypeOK'
  BY <1>1, <1>2 DEF ServerTypeOK, TypeOK, senderVars, sockVars, histVars
<1>4. LifeInv'
  BY <1>1, <1>2 DEF LifeInv, SettingUp, sockVars
<1>5. CallInv'
  BY <1>1, <1>2, CallFrame DEF senderVars, sockVars
<1>6. FreshInv'
  BY <1>2 DEF FreshInv, SettingUp
<1>7. BytesInv'
  <2> SUFFICES ASSUME ~crossed', fd' = entered' PROVE BytesInv'
    BY DEF BytesInv
  <2>1. fd # SOCKET_ERROR
    BY <1>1, <1>2 DEF ServerTypeOK, SOCKET_ERROR
  <2>2. /\ wire = <<>> /\ accepted = <<>> /\ send_buffer = EmptyBuffer
        /\ \A s \in Senders : pc[s] = "idle"
    BY <1>1, <1>2, <2>1 DEF FreshInv, SettingUp, Busy
  <2>3. \A s \in Senders : send_len[s] = 0
    BY <1>1, <2>2 DEF CallInv
  <2>4. ASSUME NEW s \in Senders
        PROVE  Gone(s)' \subseteq BytesOf(wire') /\ (send_len'[s] = -1 => dead')
    <3>1. send_len'[s] = 0
      BY <1>2, <2>3 DEF senderVars
    <3>2. Gone(s)' = {}
      BY <3>1 DEF Gone
    <3> QED BY <3>1, <3>2
  <2>5. /\ BytesOf(wire') = {} /\ BytesOf(accepted') = {} /\ send_buffer' = EmptyBuffer
    BY <1>2, <2>2 DEF BytesOf, sockVars, histVars
  <2>6. /\ send_buffer' \in BufferType /\ send_buffer'.read_pos = 0
        /\ Held(send_buffer') = {} /\ Zeros(send_buffer')
    BY <2>5, EmptyHeld
  <2> QED BY <2>4, <2>5, <2>6, BytesIsNext
<1> QED
  BY <1>3, <1>4, <1>5, <1>6, <1>7 DEF ServerInv

LEMMA RegisterKeeps ==
  ASSUME ServerInv, Register
  PROVE  ServerInv'
<1>1. /\ ServerTypeOK /\ LifeInv /\ CallInv /\ BytesInv
  BY DEF ServerInv
<1>2. /\ lpc = "register" /\ lpc' = "accept" /\ edge' \in BOOLEAN
      /\ UNCHANGED <<writeable, send_buffer, send_lock, senderVars, rpc, kernel, nospace,
                     dead, wire, histVars, fd, clients, entered, crossed>>
  BY DEF Register
<1>3. ServerTypeOK'
  BY <1>1, <1>2 DEF ServerTypeOK, TypeOK, senderVars, histVars
<1>4. LifeInv'
  BY <1>1, <1>2 DEF LifeInv, SettingUp
<1>5. CallInv'
  BY <1>1, <1>2, CallFrame DEF senderVars
<1>6. FreshInv'
  BY <1>2 DEF FreshInv, SettingUp
<1>7. BytesInv'
  <2>1. \A s \in Senders : Gone(s)' = Gone(s)
    BY <1>2 DEF Gone, senderVars
  <2> QED BY <1>1, <1>2, <2>1, BytesFrame DEF senderVars, histVars
<1> QED
  BY <1>3, <1>4, <1>5, <1>6, <1>7 DEF ServerInv

-----------------------------------------------------------------------------
(***************************************************************************)
(* The theorems.                                                           *)
(***************************************************************************)
LEMMA ServerStarts ==
  ASSUME ServerInit
  PROVE  ServerInv
<1>1. /\ Init /\ fd = 1 /\ clients = 1 /\ entered = 1 /\ lpc = "accept" /\ crossed = FALSE
  BY DEF ServerInit
<1>2. /\ writeable = TRUE /\ send_buffer = EmptyBuffer /\ send_lock = Nobody
      /\ pc = [s \in Senders |-> "idle"] /\ data = [s \in Senders |-> <<>>]
      /\ was_writeable = [s \in Senders |-> FALSE] /\ send_len = [s \in Senders |-> 0]
      /\ rpc = "wait" /\ kernel = 0 /\ nospace = FALSE /\ edge = TRUE /\ dead = FALSE
      /\ offered = Data /\ wire = <<>> /\ accepted = <<>> /\ refused = {}
  BY <1>1 DEF Init
<1>3. /\ send_buffer \in BufferType /\ send_buffer.read_pos = 0
      /\ send_buffer.read_pos <= send_buffer.write_pos
      /\ Held(send_buffer) = {} /\ Zeros(send_buffer)
  BY <1>2, EmptyHeld, BufferAssumption DEF BufferType
<1>4. <<>> \in Seq(Bytes) /\ Len(<<>>) = 0 /\ BytesOf(<<>>) = {}
  BY DEF BytesOf
<1>5. ServerTypeOK
  <2>1. /\ pc \in [Senders -> {"idle", "lock", "old", "new", "mark", "store"}]
        /\ was_writeable \in [Senders -> BOOLEAN] /\ send_len \in [Senders -> Int]
    BY <1>2
  <2>2. data \in [Senders -> Seq(Bytes)]
    BY <1>2, <1>4
  <2>3. kernel \in 0 .. KernelSize
    BY <1>2, SendAssumption
  <2>4. TypeOK
    BY <1>2, <1>3, <1>4, <2>1, <2>2, <2>3 DEF TypeOK
  <2>5. 1 \in 1 .. MaxClients /\ 1 \in 1 .. 1
    BY ServerAssumption
  <2> QED BY <1>1, <2>4, <2>5 DEF ServerTypeOK
<1>6. LifeInv
  BY <1>1, <1>2 DEF LifeInv, SettingUp, SOCKET_ERROR
<1>7. CallInv
  <2>1. \A s \in Senders : pc[s] = "idle" /\ send_len[s] = 0 /\ Len(data[s]) = 0
    BY <1>2, <1>4
  <2>2. Len(wire) <= MaxWire
    BY <1>2, <1>4, SendAssumption
  <2> QED BY <1>3, <2>1, <2>2 DEF CallInv
<1>8. FreshInv
  BY <1>1 DEF FreshInv, SettingUp
<1>9. BytesInv
  <2>1. \A s \in Senders : Gone(s) = {} /\ send_len[s] # -1
    BY <1>2 DEF Gone
  <2>2. BytesOf(Content(send_buffer)) = {}
    BY <1>3, HeldBytes
  <2>3. BytesOf(wire) = {} /\ BytesOf(accepted) = {}
    BY <1>2, <1>4
  <2>4. \A i \in Cells : i >= send_buffer.write_pos => send_buffer.data[i] = Zero
    BY <1>3 DEF Zeros
  <2> QED BY <2>1, <2>2, <2>3, <2>4 DEF BytesInv, NothingAcceptedIsLost
<1> QED
  BY <1>5, <1>6, <1>7, <1>8, <1>9 DEF ServerInv

LEMMA ServerSteps ==
  ASSUME ServerInv, [ServerNext]_<<sendVars, serverVars>>
  PROVE  ServerInv'
<1>1. ASSUME NEW s \in Senders, BeginCall(s) PROVE ServerInv'
  BY <1>1, BeginKeeps
<1>2. ASSUME NEW s \in Senders, SenderStep(s), UNCHANGED serverVars PROVE ServerInv'
  <2>1. CASE Lock(s)
    BY <1>2, <2>1, LockKeeps
  <2>2. CASE SendOld(s)
    BY <1>2, <2>2, SendOldKeeps
  <2>3. CASE SendNew(s)
    BY <1>2, <2>3, SendNewKeeps
  <2>4. CASE Mark(s)
    BY <1>2, <2>4, MarkKeeps
  <2>5. CASE Store(s)
    BY <1>2, <2>5, StoreKeeps
  <2> QED BY <1>2, <2>1, <2>2, <2>3, <2>4, <2>5 DEF SenderStep
<1>3. ASSUME ReactorStep, UNCHANGED serverVars PROVE ServerInv'
  BY <1>3, ReactorKeeps
<1>4. ASSUME PeerReads(Registered) \/ Reset, UNCHANGED serverVars PROVE ServerInv'
  BY <1>4, PeerKeeps
<1>5. ASSUME CloseSession \/ NewClient \/ InitBuffer \/ SetWriteable \/ Enter \/ Register
      PROVE  ServerInv'
  BY <1>5, CloseKeeps, NewClientKeeps, SetUpKeeps, EnterKeeps, RegisterKeeps
<1>6. ASSUME UNCHANGED <<sendVars, serverVars>> PROVE ServerInv'
  <2>1. /\ ServerTypeOK /\ LifeInv /\ CallInv /\ FreshInv /\ BytesInv
    BY DEF ServerInv
  <2>2. /\ UNCHANGED <<writeable, send_buffer, send_lock, pc, data, was_writeable, send_len>>
        /\ UNCHANGED <<rpc, kernel, nospace, edge, dead, wire, offered, accepted, refused>>
        /\ UNCHANGED <<fd, clients, lpc, entered, crossed, serverVars>>
    BY <1>6 DEF sendVars, vars, senderVars, sockVars, histVars, serverVars
  <2>3. ServerTypeOK'
    BY <2>1, <2>2 DEF ServerTypeOK, TypeOK
  <2>4. LifeInv' /\ CallInv' /\ FreshInv'
    BY <2>1, <2>2, LifeFrame, CallFrame, FreshFrame
  <2>5. BytesInv'
    <3>1. \A s \in Senders : Gone(s)' = Gone(s)
      BY <2>2 DEF Gone
    <3> QED BY <2>1, <2>2, <3>1, BytesFrame
  <2> QED BY <2>3, <2>4, <2>5 DEF ServerInv
<1> QED
  BY <1>1, <1>2, <1>3, <1>4, <1>5, <1>6 DEF ServerNext

\* The inductive invariant holds in every reachable state: types, the session and its
\* connection, calls under way, a session set up unseen, and where bytes are.
THEOREM ServerInvariance == ServerSpec => []ServerInv
<1>1. ServerInit => ServerInv
  BY ServerStarts
<1>2. ServerInv /\ [ServerNext]_<<sendVars, serverVars>> => ServerInv'
  BY ServerSteps
<1> QED
  BY <1>1, <1>2, PTL DEF ServerSpec

\* What server_send took for the connection of a session is on its wire or waits in
\* the send buffer while it lives, unless lives of the session crossed.
THEOREM AcceptedIsKept == ServerSpec => []KeptUnlessCrossed
<1>1. ServerInv => KeptUnlessCrossed
  <2> SUFFICES ASSUME ServerInv, ~crossed, ~dead PROVE NothingAcceptedIsLost
    BY DEF KeptUnlessCrossed, NothingAcceptedIsLost
  <2>1. fd = clients /\ fd # SOCKET_ERROR
    BY DEF ServerInv, LifeInv
  <2>2. CASE SettingUp
    <3>1. BytesOf(accepted) = {}
      BY <2>1, <2>2 DEF ServerInv, FreshInv, BytesOf
    <3> QED BY <3>1 DEF NothingAcceptedIsLost
  <2>3. CASE ~SettingUp
    BY <2>1, <2>3 DEF ServerInv, LifeInv, BytesInv
  <2> QED BY <2>2, <2>3
<1> QED
  BY <1>1, ServerInvariance, PTL

\* What goes out on a connection, or waits to, was accepted for it or is being given
\* now, but for the zeros behind what was sent, with the same exception.
THEOREM OnlyOwnBytes == ServerSpec => []OwnBytesUnlessCrossed
<1>1. ServerInv => OwnBytesUnlessCrossed
  <2> SUFFICES ASSUME ServerInv, ~crossed, fd = entered
               PROVE  /\ BytesOf(wire) \subseteq BytesOf(accepted) \cup InProgress \cup {Zero}
                      /\ BytesOf(Content(send_buffer)) \subseteq
                           BytesOf(accepted) \cup InProgress \cup {Zero, Junk}
    BY DEF OwnBytesUnlessCrossed
  <2>1. /\ BytesOf(wire) \subseteq BytesOf(accepted) \cup AllGone \cup {Zero}
        /\ BytesOf(Content(send_buffer)) \subseteq
             BytesOf(accepted) \cup {Zero} \cup (IF dead THEN {Junk} ELSE {})
    BY DEF ServerInv, BytesInv
  <2>2. AllGone \subseteq InProgress
    <3>1. ASSUME NEW s \in Senders PROVE Gone(s) \subseteq BytesOf(data[s])
      <4>1. Len(data[s]) \in Nat /\ send_len[s] \in -1 .. Len(data[s])
        BY DEF ServerInv, ServerTypeOK, TypeOK, CallInv
      <4>2. 1 .. send_len[s] \subseteq 1 .. Len(data[s])
        BY <4>1
      <4> QED BY <4>2 DEF Gone, BytesOf
    <3> QED BY <3>1 DEF AllGone, InProgress
  <2> QED BY <2>1, <2>2
<1> QED
  BY <1>1, ServerInvariance, PTL
=============================================================================
