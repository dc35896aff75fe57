------------------------------- MODULE Buffer -------------------------------
(***************************************************************************)
(* common/buffer.c: a linear byte buffer with a read and a write position, *)
(* as operators on the record of its fields.  The sessions of the servers  *)
(* keep one for receiving and one for sending.                             *)
(***************************************************************************)
EXTENDS Integers, Sequences

CONSTANTS Bytes,    \* the bytes that travel
          Zero,     \* what buffer_init fills the memory with
          data_len  \* buffer_size of buffer_new

ASSUME BufferAssumption == data_len \in Nat /\ Zero \in Bytes

Cells == 0 .. data_len - 1

\* The positions of a buffer in order; see AddReadPos for when they are not.
BufferType == [data : [Cells -> Bytes], read_pos : 0 .. data_len,
               write_pos : 0 .. data_len]

\* buffer_new and buffer_init
EmptyBuffer ==
  [data |-> [i \in Cells |-> Zero], read_pos |-> 0, write_pos |-> 0]

ReadValid(b)  == b.write_pos - b.read_pos      \* buffer_getreadvalidcount
WriteValid(b) == data_len - b.write_pos        \* buffer_getwritevalidcount

\* The unread bytes, from buffer_getreadptr on.
Content(b) == [i \in 1 .. ReadValid(b) |-> b.data[b.read_pos + i - 1]]

\* A position that would leave the buffer is not moved at all; nothing keeps
\* read_pos behind write_pos.
AddWritePos_Unbounded(b, n) == [b EXCEPT !.write_pos = @ + n]
AddWritePos(b, n) ==
  IF b.write_pos + n <= data_len THEN [b EXCEPT !.write_pos = @ + n] ELSE b
AddReadPos(b, n) ==
  IF b.read_pos + n <= data_len THEN [b EXCEPT !.read_pos = @ + n] ELSE b

\* buffer_adjustto_head: the unread bytes move to the front, the others stay
\* where they are.
AdjustToHead(b) ==
  IF b.read_pos > 0
  THEN [data      |-> [i \in Cells |-> IF i < ReadValid(b)
                                       THEN b.data[b.read_pos + i]
                                       ELSE b.data[i]],
        read_pos  |-> 0,
        write_pos |-> ReadValid(b)]
  ELSE b

\* recv or memcpy puts the bytes s behind write_pos; the position moves later.
Fill(b, s) ==
  [b EXCEPT !.data = [i \in Cells |->
     IF i >= b.write_pos /\ i < b.write_pos + Len(s)
     THEN s[i - b.write_pos + 1] ELSE b.data[i]]]

\* buffer_write stores all of s or nothing.
WriteOk(b, s) == WriteValid(b) >= Len(s) \/ data_len - ReadValid(b) >= Len(s)
Write_Partly(b, s) ==
  LET room == AdjustToHead(b)
      n    == IF WriteValid(room) < Len(s) THEN WriteValid(room) ELSE Len(s)
  IN  AddWritePos(Fill(room, SubSeq(s, 1, n)), n)
Write(b, s) ==
  LET room == IF WriteValid(b) >= Len(s) THEN b ELSE AdjustToHead(b)
  IN  IF WriteOk(b, s) THEN AddWritePos(Fill(room, s), Len(s)) ELSE b
=============================================================================
