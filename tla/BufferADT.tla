------------------------------ MODULE BufferADT ------------------------------
(***************************************************************************)
(* The operations of lib/buffer/buffer.c as a state machine: any legal     *)
(* sequence of fills, partial reads, compactions and resets.  `got' is     *)
(* what the last operation handed to its caller.                           *)
(***************************************************************************)
EXTENDS Buffer

VARIABLES buf, got

vars == <<buf, got>>

Init == /\ buf \in {BufferInit(m) : m \in [1..Limit -> Byte]}
        /\ got = <<>>

\* buffer_write_ptr, a store of 1..nbytes bytes, buffer_write_adv.
Write == \E n \in 1..WriteRoom(buf) : \E s \in [1..n -> Byte] :
            buf' = Fill(buf, s) /\ got' = <<>>

\* buffer_read_ptr, a use of the first n bytes, buffer_read_adv.  The advance
\* by zero is legal, and compacts a buffer that is already empty.
Read == \E n \in 0..Readable(buf) :
           /\ got' = Front(buf, n)
           /\ buf' = ReadAdv(buf, n)

CompactNow == buf' = Compact(buf) /\ got' = <<>>

ResetNow == buf' = Reset(buf) /\ got' = <<>>

Next == Write \/ Read \/ CompactNow \/ ResetNow

Spec == Init /\ [][Next]_vars
-----------------------------------------------------------------------------
\* The pointers stay in order and inside the area (buffer.h, "Invariantes").
TypeOK == buf \in Buffers /\ got \in Seq(Byte)

\* A buffer that is empty has all its room: buffer_read_adv compacts when the
\* pointers meet.  Were it to leave them at the limit, the buffer would be
\* full for the reader of the socket and empty for the writer, for ever.
EmptyHasAllRoom == ~CanRead(buf) => WriteRoom(buf) = Limit

\* Bytes come out in the order they went in, across wrap-free partial reads
\* and compactions: the buffer implements the queue of Fifo.tla.
Queue == INSTANCE Fifo WITH Elem <- Byte, queue <- Content(buf), got <- got

\* compact and read_adv may drop only what was handed out: pending bytes are
\* never overwritten by a write (buffer_write_ptr points past them).
ImplementsFifo == Queue!FifoSpec
=============================================================================
