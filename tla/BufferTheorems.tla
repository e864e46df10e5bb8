--------------------------- MODULE BufferTheorems ---------------------------
(***************************************************************************)
(* The state machine of BufferADT.tla keeps its invariants and implements  *)
(* the queue of Fifo.tla, for every size of the area.                      *)
(***************************************************************************)
EXTENDS BufferADT, BufferLemmas

\* The pointers never cross and never leave the area, and a buffer that is
\* empty has all its room, after any sequence of the operations of buffer.c.
BufferInv == TypeOK /\ EmptyHasAllRoom

LEMMA InitBufferInv == Init => BufferInv
<1> SUFFICES ASSUME NEW m \in [1..Limit -> Byte], buf = BufferInit(m), got = <<>>
             PROVE  BufferInv
  BY DEF Init
<1>1. buf \in Buffers
  BY LimitAssumption DEF Buffers, BufferInit
<1>2. WriteRoom(buf) = Limit
  BY LimitAssumption DEF WriteRoom, BufferInit
<1>3. QED
  BY <1>1, <1>2, EmptySeq DEF BufferInv, TypeOK, EmptyHasAllRoom

LEMMA NextBufferInv == BufferInv /\ [Next]_vars => BufferInv'
<1> SUFFICES ASSUME BufferInv, [Next]_vars PROVE BufferInv'
  OBVIOUS
<1> USE DEF BufferInv, TypeOK, EmptyHasAllRoom
<1>1. ASSUME NEW x \in Buffers
      PROVE  x.read \in Nat /\ x.write \in Nat /\ x.read <= x.write /\ x.write <= Limit
  BY LimitAssumption DEF Buffers
<1>2. CASE Write
  <2>1. PICK n \in 1..WriteRoom(buf) : \E s \in [1..n -> Byte] :
               buf' = Fill(buf, s) /\ got' = <<>>
    BY <1>2 DEF Write
  <2>2. PICK s \in [1..n -> Byte] : buf' = Fill(buf, s) /\ got' = <<>>
    BY <2>1
  <2>3. n \in Nat /\ n > 0 /\ n <= WriteRoom(buf)
    BY <1>1 DEF WriteRoom
  <2>4. s \in Seq(Byte) /\ Len(s) = n
    BY <2>2, <2>3
  <2>5. buf' \in Buffers
    BY <2>2, <2>3, <2>4, FillAppends
  <2>6. CanRead(buf')
    <3>1. buf'.write = buf.write + n /\ buf'.read = buf.read
      BY <2>2, <2>4 DEF Fill, Buffers
    <3>2. QED
      BY <1>1, <2>3, <3>1 DEF CanRead, Readable
  <2>7. QED
    BY <2>2, <2>5, <2>6, EmptySeq
<1>3. CASE Read
  <2>1. PICK n \in 0..Readable(buf) : got' = Front(buf, n) /\ buf' = ReadAdv(buf, n)
    BY <1>3 DEF Read
  <2>2. buf' \in Buffers /\ got' \in Seq(Byte)
    BY <2>1, ReadAdvSplits
  <2>3. ~CanRead(buf') => WriteRoom(buf') = Limit
    <3> DEFINE a == [buf EXCEPT !.read = buf.read + n]
    <3>1. CASE a.read = a.write
      <4>1. buf' = Compact(a) /\ Readable(a) = 0
        BY <1>1, <2>1, <3>1 DEF ReadAdv, Readable, Buffers
      <4>2. QED
        BY <4>1, LimitAssumption DEF Compact, WriteRoom
    <3>2. CASE a.read # a.write
      <4>1. buf' = a
        BY <2>1, <3>2 DEF ReadAdv
      <4>2. /\ buf'.read \in Nat /\ buf'.write \in Nat
            /\ buf'.read <= buf'.write /\ buf'.read # buf'.write
        <5>1. buf' \in Buffers /\ buf'.read # buf'.write
          BY <2>2, <3>2, <4>1
        <5>2. QED
          BY <1>1, <5>1
      <4>3. CanRead(buf')
        BY <4>2 DEF CanRead, Readable
      <4>4. QED
        BY <4>3
    <3>3. QED
      BY <3>1, <3>2
  <2>4. QED
    BY <2>2, <2>3
<1>4. CASE CompactNow
  <2>1. buf' = Compact(buf) /\ got' = <<>>
    BY <1>4 DEF CompactNow
  <2>2. buf' \in Buffers
    BY <2>1, CompactKeeps
  <2>3. buf'.read = 0 /\ buf'.write = Readable(buf)
    BY <2>1 DEF Compact
  <2>4. ~CanRead(buf') => WriteRoom(buf') = Limit
    BY <1>1, <2>3, LimitAssumption DEF CanRead, Readable, WriteRoom
  <2>5. QED
    BY <2>1, <2>2, <2>4, EmptySeq
<1>5. CASE ResetNow
  <2>1. buf' = Reset(buf) /\ got' = <<>>
    BY <1>5 DEF ResetNow
  <2>2. buf' \in Buffers /\ buf'.write = 0
    BY <2>1, LimitAssumption DEF Reset, Buffers
  <2>3. QED
    BY <2>1, <2>2, EmptySeq, LimitAssumption DEF WriteRoom
<1>6. CASE UNCHANGED vars
  BY <1>6 DEF vars, WriteRoom, CanRead, Readable
<1>7. QED
  BY <1>2, <1>3, <1>4, <1>5, <1>6 DEF Next

\* The read pointer never overtakes the write pointer and neither leaves the
\* memory, whatever is filled, read, compacted and reset.
THEOREM PointersInOrder == Spec => []TypeOK
<1>1. BufferInv => TypeOK
  BY DEF BufferInv
<1>2. QED
  BY <1>1, InitBufferInv, NextBufferInv, PTL DEF Spec

\* A buffer with nothing to read has all its memory to write to: reading the
\* last byte gives the room back (buffer_read_adv).
THEOREM EmptyBufferHasRoom == Spec => []EmptyHasAllRoom
<1>1. BufferInv => EmptyHasAllRoom
  BY DEF BufferInv
<1>2. QED
  BY <1>1, InitBufferInv, NextBufferInv, PTL DEF Spec

\* Every step of the buffer is a step of the queue: fills append, reads hand
\* out a prefix, compaction is invisible.
LEMMA StepIsFifoStep ==
  ASSUME BufferInv, [Next]_vars
  PROVE  [Queue!FifoNext]_(Queue!fifoVars)
<1> USE DEF BufferInv, TypeOK, Queue!FifoNext, Queue!fifoVars
<1>1. buf' \in Buffers
  BY NextBufferInv
<1>2. /\ Content(buf) \in Seq(Byte) /\ Content(buf') \in Seq(Byte)
      /\ Len(Content(buf)) = Readable(buf) /\ Readable(buf) \in Nat
  BY <1>1, ContentProperties, LimitAssumption DEF Buffers, Readable
<1>3. CASE Write
  <2>1. PICK n \in 1..WriteRoom(buf) : \E s \in [1..n -> Byte] :
               buf' = Fill(buf, s) /\ got' = <<>>
    BY <1>3 DEF Write
  <2>2. PICK s \in [1..n -> Byte] : buf' = Fill(buf, s) /\ got' = <<>>
    BY <2>1
  <2>3. n \in Nat /\ n <= WriteRoom(buf)
    BY LimitAssumption DEF WriteRoom, Buffers
  <2>4. s \in Seq(Byte) /\ Len(s) = n
    BY <2>2, <2>3
  <2>5. Content(buf') = Content(buf) \o s
    BY <2>2, <2>3, <2>4, FillAppends
  <2>6. /\ Len(Content(buf)) <= Len(Content(buf'))
        /\ SubSeq(Content(buf'), 1, Len(Content(buf))) = Content(buf)
    <3>1. Len(Content(buf) \o s) = Len(Content(buf)) + Len(s)
      BY <1>2, <2>4, ConcatProperties
    <3>2. SubSeq(Content(buf) \o s, 1, Len(Content(buf))) = Content(buf)
      BY <1>2, <2>4, ConcatSplits
    <3>3. QED
      BY <1>2, <2>3, <2>4, <2>5, <3>1, <3>2
  <2>7. QED
    BY <1>2, <2>2, <2>6 DEF Queue!Put
<1>4. CASE Read
  <2>1. PICK n \in 0..Readable(buf) : got' = Front(buf, n) /\ buf' = ReadAdv(buf, n)
    BY <1>4 DEF Read
  <2>2. /\ Front(buf, n) \in Seq(Byte) /\ Len(Front(buf, n)) = n
        /\ Content(buf) = Front(buf, n) \o Content(buf')
    BY <2>1, ReadAdvSplits
  <2>3. SubSeq(Content(buf), 1, n) = Front(buf, n)
    BY <1>2, <2>2, ConcatSplits
  <2>4. SubSeq(Content(buf), n + 1, Len(Content(buf))) = Content(buf')
    BY <1>2, <2>2, ConcatSplits
  <2>5. Queue!Get(n)
    BY <2>1, <2>3, <2>4 DEF Queue!Get
  <2>6. n \in 0..Len(Content(buf))
    BY <1>2
  <2>7. QED
    BY <2>5, <2>6
<1>5. CASE CompactNow
  <2>1. Content(buf') = Content(buf) /\ got' = <<>>
    BY <1>5, CompactKeeps DEF CompactNow
  <2>2. SubSeq(Content(buf'), 1, Len(Content(buf))) = Content(buf)
    BY <1>2, <2>1, SubSeqFull
  <2>3. Queue!Put
    BY <1>2, <2>1, <2>2 DEF Queue!Put
  <2>4. QED
    BY <2>3
<1>6. CASE ResetNow
  <2>1. buf'.read = 0 /\ buf'.write = 0 /\ got' = <<>>
    BY <1>6 DEF ResetNow, Reset, Buffers
  <2>2. Content(buf') = <<>>
    BY <2>1, SubSeqEmpty DEF Content
  <2>3. Queue!Clear
    BY <2>1, <2>2 DEF Queue!Clear
  <2>4. QED
    BY <2>3
<1>7. CASE UNCHANGED vars
  BY <1>7 DEF vars
<1>8. QED
  BY <1>3, <1>4, <1>5, <1>6, <1>7 DEF Next

\* The buffer implements the queue: for every size of the area and every
\* legal sequence of calls, bytes come out in the order they went in.
THEOREM BufferIsFifo == Spec => ImplementsFifo
<1>1. Init => Queue!FifoInit
  <2> SUFFICES ASSUME NEW m \in [1..Limit -> Byte], buf = BufferInit(m), got = <<>>
               PROVE  Queue!FifoInit
    BY DEF Init
  <2>1. Content(buf) = <<>>
    BY SubSeqEmpty DEF Content, BufferInit
  <2>2. QED
    BY <2>1 DEF Queue!FifoInit
<1>2. BufferInv /\ [Next]_vars => [Queue!FifoNext]_(Queue!fifoVars)
  BY StepIsFifoStep
<1>3. QED
  BY <1>1, <1>2, InitBufferInv, NextBufferInv, PTL DEF Spec, ImplementsFifo, Queue!FifoSpec
=============================================================================
