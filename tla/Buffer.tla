------------------------------- MODULE Buffer -------------------------------
(***************************************************************************)
(* The byte buffer of lib/buffer/buffer.c: a fixed memory area with a read *)
(* pointer and a write pointer.  The operators below are functions from    *)
(* buffer values to buffer values; BufferADT.tla makes a state machine of  *)
(* them and Forwarding.tla puts one buffer in each direction of a session. *)
(* Pointers are offsets from b->data; buffer memory cell i is mem[i].      *)
(***************************************************************************)
EXTENDS Integers, Sequences

CONSTANTS Limit,   \* bytes between b->data and b->limit (MAX_BUFFER)
          Byte     \* the values of a memory cell

ASSUME LimitAssumption == Limit \in Nat \ {0}

\* The values the documented invariant R <= W <= limit allows (buffer.h).
Buffers == {b \in [mem : [1..Limit -> Byte], read : 0..Limit, write : 0..Limit] :
              b.read <= b.write}

\* buffer_init over an area whose cells hold m.
BufferInit(m) == [mem |-> m, read |-> 0, write |-> 0]

\* With a fault: one byte of room too many.
WriteRoomLoose(b) == Limit - b.write + 1

\* buffer_can_write, and the room buffer_write_ptr reports.
WriteRoom(b) == Limit - b.write
CanWrite(b)  == WriteRoom(b) > 0

\* buffer_can_read, and the length buffer_read_ptr reports.
Readable(b) == b.write - b.read
CanRead(b)  == Readable(b) > 0

\* The bytes from the read pointer up to the write pointer, oldest first.
Content(b) == SubSeq(b.mem, b.read + 1, b.write)

\* The first n bytes at the pointer buffer_read_ptr returns.
Front(b, n) == SubSeq(b.mem, b.read + 1, b.read + n)

\* A read or recv that stores `bytes' at the write pointer, followed by
\* buffer_write_adv.  buffer_write is the case of one byte.
Fill(b, bytes) ==
  [b EXCEPT !.mem = [i \in 1..Limit |-> IF i > b.write /\ i <= b.write + Len(bytes)
                                        THEN bytes[i - b.write]
                                        ELSE b.mem[i]],
            !.write = b.write + Len(bytes)]

\* With a fault: the pointers are moved and the bytes are not.
CompactInPlace(b) == [b EXCEPT !.read = 0, !.write = Readable(b)]

\* buffer_compact: slide the pending bytes to the start of the area.
Compact(b) ==
  [mem   |-> [i \in 1..Limit |-> IF i <= Readable(b) THEN b.mem[b.read + i] ELSE b.mem[i]],
   read  |-> 0,
   write |-> Readable(b)]

\* With a fault: an emptied buffer is left where it is.
ReadAdvLazy(b, n) == [b EXCEPT !.read = b.read + n]

\* buffer_read_adv: move the read pointer, and compact once nothing is left.
ReadAdv(b, n) ==
  LET a == [b EXCEPT !.read = b.read + n]
  IN  IF a.read = a.write THEN Compact(a) ELSE a

\* buffer_reset, and the pointer assignment with which closing.c discards
\* what is pending without compacting.
Reset(b)   == [mem |-> b.mem, read |-> 0, write |-> 0]
Discard(b) == [b EXCEPT !.read = b.write]
=============================================================================
