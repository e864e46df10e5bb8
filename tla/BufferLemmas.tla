---------------------------- MODULE BufferLemmas ----------------------------
(***************************************************************************)
(* What the operations of Buffer.tla do to the pending bytes, for every    *)
(* size of the area and every set of cell values.  BufferTheorems.tla and  *)
(* ForwardingTheorems.tla rest on these facts.                             *)
(***************************************************************************)
EXTENDS Buffer, SequenceTheorems, TLAPS

\* The n cells that follow the first m of a memory area, as a sequence.
LEMMA SliceProperties ==
  ASSUME NEW S, NEW f, NEW m \in Int, NEW k \in Int, NEW n \in Nat, k = m + n,
         \A i \in (m + 1)..k : f[i] \in S
  PROVE  /\ SubSeq(f, m + 1, k) \in Seq(S)
         /\ Len(SubSeq(f, m + 1, k)) = n
         /\ \A i \in 1..n : SubSeq(f, m + 1, k)[i] = f[m + i]
<1>1. m + 1 \in Int
  OBVIOUS
<1>2. /\ SubSeq(f, m + 1, k) \in Seq(S)
      /\ Len(SubSeq(f, m + 1, k)) = IF m + 1 <= k THEN k - (m + 1) + 1 ELSE 0
      /\ \A i \in 1..(k - (m + 1) + 1) : SubSeq(f, m + 1, k)[i] = f[m + 1 + i - 1]
  BY <1>1, SubSeqProperties
<1>3. Len(SubSeq(f, m + 1, k)) = n
  BY <1>2
<1>4. ASSUME NEW i \in 1..n
      PROVE  SubSeq(f, m + 1, k)[i] = f[m + i]
  <2>1. i \in 1..(k - (m + 1) + 1) /\ m + 1 + i - 1 = m + i
    OBVIOUS
  <2>2. QED
    BY <1>2, <2>1
<1>5. QED
  BY <1>2, <1>3, <1>4

\* The two halves of a concatenation are its first and its last elements.
LEMMA ConcatSplits ==
  ASSUME NEW S, NEW s \in Seq(S), NEW t \in Seq(S)
  PROVE  /\ SubSeq(s \o t, 1, Len(s)) = s
         /\ SubSeq(s \o t, Len(s) + 1, Len(s \o t)) = t
<1>1. /\ s \o t \in Seq(S) /\ Len(s \o t) = Len(s) + Len(t)
      /\ \A i \in 1..(Len(s) + Len(t)) :
           (s \o t)[i] = IF i <= Len(s) THEN s[i] ELSE t[i - Len(s)]
  BY ConcatProperties
<1>2. /\ Len(s) \in Nat /\ Len(t) \in Nat
      /\ \A i \in 1..Len(s) : s[i] \in S
      /\ \A i \in 1..Len(t) : t[i] \in S
  BY LenProperties
<1>3. SubSeq(s \o t, 1, Len(s)) = s
  <2>1. \A i \in (0 + 1)..Len(s) : (s \o t)[i] \in S
    BY <1>1, <1>2
  <2>2. /\ SubSeq(s \o t, 0 + 1, Len(s)) \in Seq(S)
        /\ Len(SubSeq(s \o t, 0 + 1, Len(s))) = Len(s)
        /\ \A i \in 1..Len(s) : SubSeq(s \o t, 0 + 1, Len(s))[i] = (s \o t)[0 + i]
    BY <1>2, <2>1, SliceProperties
  <2>3. \A i \in 1..Len(s) : SubSeq(s \o t, 0 + 1, Len(s))[i] = s[i]
    BY <1>1, <1>2, <2>2
  <2>4. SubSeq(s \o t, 0 + 1, Len(s)) = s
    BY <2>2, <2>3, SeqEqual
  <2>5. QED
    BY <2>4
<1>4. SubSeq(s \o t, Len(s) + 1, Len(s \o t)) = t
  <2>1. \A i \in (Len(s) + 1)..Len(s \o t) : (s \o t)[i] \in S
    BY <1>1, <1>2
  <2>2. /\ SubSeq(s \o t, Len(s) + 1, Len(s \o t)) \in Seq(S)
        /\ Len(SubSeq(s \o t, Len(s) + 1, Len(s \o t))) = Len(t)
        /\ \A i \in 1..Len(t) :
             SubSeq(s \o t, Len(s) + 1, Len(s \o t))[i] = (s \o t)[Len(s) + i]
    BY <1>1, <1>2, <2>1, SliceProperties
  <2>3. ASSUME NEW i \in 1..Len(t)
        PROVE  SubSeq(s \o t, Len(s) + 1, Len(s \o t))[i] = t[i]
    <3>1. /\ Len(s) + i \in 1..(Len(s) + Len(t))
          /\ ~(Len(s) + i <= Len(s))
          /\ Len(s) + i - Len(s) = i
      BY <1>2
    <3>2. (s \o t)[Len(s) + i] = t[i]
      BY <1>1, <3>1
    <3>3. QED
      BY <2>2, <3>2
  <2>4. QED
    BY <2>2, <2>3, SeqEqual
<1>5. QED
  BY <1>3, <1>4

\* The pending bytes, cell by cell.
LEMMA ContentProperties ==
  ASSUME NEW x \in Buffers
  PROVE  /\ Content(x) \in Seq(Byte)
         /\ Len(Content(x)) = Readable(x)
         /\ \A i \in 1..Readable(x) : Content(x)[i] = x.mem[x.read + i]
<1>1. /\ x.mem \in [1..Limit -> Byte] /\ x.read \in 0..Limit /\ x.write \in 0..Limit
      /\ x.read <= x.write
  BY DEF Buffers
<1>2. \A i \in (x.read + 1)..x.write : x.mem[i] \in Byte
  BY <1>1, LimitAssumption
<1>3. /\ x.read \in Int /\ x.write \in Int /\ Readable(x) \in Nat
      /\ x.write = x.read + Readable(x)
  BY <1>1, LimitAssumption DEF Readable
<1>4. QED
  BY <1>2, <1>3, SliceProperties DEF Content

\* buffer_write_adv after a store at the write pointer appends the bytes.
LEMMA FillAppends ==
  ASSUME NEW x \in Buffers, NEW bytes \in Seq(Byte), Len(bytes) <= WriteRoom(x)
  PROVE  /\ Fill(x, bytes) \in Buffers
         /\ Content(Fill(x, bytes)) = Content(x) \o bytes
<1> DEFINE y == Fill(x, bytes)
<1>1. /\ x.mem \in [1..Limit -> Byte] /\ x.read \in 0..Limit /\ x.write \in 0..Limit
      /\ x.read <= x.write /\ x \in [mem : [1..Limit -> Byte], read : 0..Limit, write : 0..Limit]
  BY DEF Buffers
<1>2. /\ Len(bytes) \in Nat /\ x.write + Len(bytes) \in 0..Limit
      /\ \A i \in 1..Len(bytes) : bytes[i] \in Byte
  BY <1>1, LenProperties, LimitAssumption DEF WriteRoom
<1>3. /\ y.read = x.read /\ y.write = x.write + Len(bytes)
      /\ y.mem = [i \in 1..Limit |-> IF i > x.write /\ i <= x.write + Len(bytes)
                                     THEN bytes[i - x.write] ELSE x.mem[i]]
  BY <1>1 DEF Fill
<1>4. y \in Buffers
  <2>1. y.mem \in [1..Limit -> Byte]
    BY <1>1, <1>2, <1>3, LimitAssumption
  <2>2. y \in [mem : [1..Limit -> Byte], read : 0..Limit, write : 0..Limit]
    BY <1>1, <1>2, <1>3, <2>1 DEF Fill
  <2>3. QED
    BY <1>1, <1>2, <1>3, <2>2, LimitAssumption DEF Buffers
<1>5. Content(y) = Content(x) \o bytes
  <2>1. Readable(y) = Readable(x) + Len(bytes) /\ Readable(x) \in Nat
    BY <1>1, <1>2, <1>3, LimitAssumption DEF Readable
  <2>2. /\ Content(y) \in Seq(Byte) /\ Len(Content(y)) = Readable(y)
        /\ \A i \in 1..Readable(y) : Content(y)[i] = y.mem[y.read + i]
    BY <1>4, ContentProperties
  <2>3. /\ Content(x) \in Seq(Byte) /\ Len(Content(x)) = Readable(x)
        /\ \A i \in 1..Readable(x) : Content(x)[i] = x.mem[x.read + i]
    BY ContentProperties
  <2>4. /\ Content(x) \o bytes \in Seq(Byte)
        /\ Len(Content(x) \o bytes) = Len(Content(x)) + Len(bytes)
        /\ \A i \in 1..(Len(Content(x)) + Len(bytes)) : (Content(x) \o bytes)[i] =
             IF i <= Len(Content(x)) THEN Content(x)[i] ELSE bytes[i - Len(Content(x))]
    BY <2>3, ConcatProperties
  <2>5. ASSUME NEW i \in 1..Readable(y)
        PROVE  Content(y)[i] = (Content(x) \o bytes)[i]
    <3>1. /\ x.read + i \in 1..Limit
          /\ i \in 1..(Len(Content(x)) + Len(bytes))
      BY <1>1, <1>2, <2>1, <2>3, LimitAssumption DEF Readable
    <3>2. Content(y)[i] = IF x.read + i > x.write
                          THEN bytes[x.read + i - x.write] ELSE x.mem[x.read + i]
      <4>1. Content(y)[i] = y.mem[x.read + i]
        BY <1>3, <2>2
      <4>2. x.read + i <= x.write + Len(bytes)
        BY <1>1, <1>2, <2>1, LimitAssumption DEF Readable
      <4>3. QED
        BY <1>1, <1>2, <1>3, <3>1, <4>1, <4>2, LimitAssumption
    <3>3. CASE i <= Readable(x)
      <4>1. /\ ~(x.read + i > x.write)
            /\ i \in 1..Readable(x)
        BY <1>1, <2>1, <3>3, LimitAssumption DEF Readable
      <4>2. QED
        BY <2>3, <2>4, <3>1, <3>2, <3>3, <4>1
    <3>4. CASE ~(i <= Readable(x))
      <4>1. /\ x.read + i > x.write
            /\ x.read + i - x.write = i - Readable(x)
        BY <1>1, <2>1, <3>4, LimitAssumption DEF Readable
      <4>2. (Content(x) \o bytes)[i] = bytes[i - Readable(x)]
        BY <2>3, <2>4, <3>1, <3>4
      <4>3. QED
        BY <3>2, <4>1, <4>2
    <3>5. QED
      BY <3>3, <3>4
  <2>6. Len(Content(y)) = Len(Content(x) \o bytes)
    BY <2>1, <2>2, <2>3, <2>4
  <2>7. QED
    BY <2>2, <2>4, <2>5, <2>6, SeqEqual
<1>6. QED
  BY <1>4, <1>5

\* buffer_compact keeps the pending bytes.
LEMMA CompactKeeps ==
  ASSUME NEW x \in Buffers
  PROVE  Compact(x) \in Buffers /\ Content(Compact(x)) = Content(x)
<1> DEFINE y == Compact(x)
<1>1. /\ x.mem \in [1..Limit -> Byte] /\ x.read \in 0..Limit /\ x.write \in 0..Limit
      /\ x.read <= x.write /\ x \in [mem : [1..Limit -> Byte], read : 0..Limit, write : 0..Limit]
  BY DEF Buffers
<1>2. /\ y.read = 0 /\ y.write = Readable(x)
      /\ y.mem = [i \in 1..Limit |-> IF i <= Readable(x) THEN x.mem[x.read + i] ELSE x.mem[i]]
  BY <1>1 DEF Compact
<1>3. y \in Buffers
  <2>1. y.mem \in [1..Limit -> Byte]
    BY <1>1, <1>2, LimitAssumption DEF Readable
  <2>2. y \in [mem : [1..Limit -> Byte], read : 0..Limit, write : 0..Limit]
    BY <1>1, <1>2, <2>1, LimitAssumption DEF Compact, Readable
  <2>3. QED
    BY <1>1, <1>2, <2>2, LimitAssumption DEF Buffers, Readable
<1>4. Readable(y) = Readable(x) /\ Readable(x) \in 0..Limit
  BY <1>1, <1>2, LimitAssumption DEF Readable
<1>5. /\ Content(y) \in Seq(Byte) /\ Len(Content(y)) = Readable(y)
      /\ \A i \in 1..Readable(y) : Content(y)[i] = y.mem[y.read + i]
  BY <1>3, ContentProperties
<1>6. /\ Content(x) \in Seq(Byte) /\ Len(Content(x)) = Readable(x)
      /\ \A i \in 1..Readable(x) : Content(x)[i] = x.mem[x.read + i]
  BY ContentProperties
<1>7. ASSUME NEW i \in 1..Readable(x) PROVE Content(y)[i] = Content(x)[i]
  <2>1. i \in 1..Limit /\ i <= Readable(x) /\ y.read + i = i
    BY <1>2, <1>4, LimitAssumption
  <2>2. Content(y)[i] = y.mem[i]
    BY <1>4, <1>5, <2>1
  <2>3. QED
    BY <1>2, <1>6, <2>1, <2>2
<1>8. QED
  BY <1>3, <1>4, <1>5, <1>6, <1>7, SeqEqual

\* buffer_read_adv hands out a prefix of the pending bytes and keeps the rest,
\* whether or not it compacts.
LEMMA ReadAdvSplits ==
  ASSUME NEW x \in Buffers, NEW n \in 0..Readable(x)
  PROVE  /\ ReadAdv(x, n) \in Buffers
         /\ Readable(ReadAdv(x, n)) = Readable(x) - n
         /\ Front(x, n) \in Seq(Byte) /\ Len(Front(x, n)) = n
         /\ Content(x) = Front(x, n) \o Content(ReadAdv(x, n))
<1> DEFINE a == [x EXCEPT !.read = x.read + n]
<1>1. /\ x.mem \in [1..Limit -> Byte] /\ x.read \in 0..Limit /\ x.write \in 0..Limit
      /\ x.read <= x.write /\ x \in [mem : [1..Limit -> Byte], read : 0..Limit, write : 0..Limit]
  BY DEF Buffers
<1>2. /\ n \in Nat /\ x.read + n <= x.write
  BY <1>1, LimitAssumption DEF Readable
<1>3. /\ a.mem = x.mem /\ a.read = x.read + n /\ a.write = x.write
  BY <1>1
<1>4. a \in Buffers
  <2>1. a \in [mem : [1..Limit -> Byte], read : 0..Limit, write : 0..Limit]
    BY <1>1, <1>2, LimitAssumption
  <2>2. QED
    BY <1>2, <1>3, <2>1 DEF Buffers
<1>5. /\ ReadAdv(x, n) \in Buffers /\ Content(ReadAdv(x, n)) = Content(a)
      /\ Readable(ReadAdv(x, n)) = Readable(x) - n
  <2>1. CASE a.read = a.write
    <3>1. ReadAdv(x, n) = Compact(a)
      BY <2>1 DEF ReadAdv
    <3>2. Readable(Compact(a)) = Readable(a)
      BY <1>1, <1>3, LimitAssumption DEF Compact, Readable
    <3>3. QED
      BY <1>1, <1>2, <1>3, <1>4, <3>1, <3>2, CompactKeeps, LimitAssumption DEF Readable
  <2>2. CASE a.read # a.write
    <3>1. ReadAdv(x, n) = a
      BY <2>2 DEF ReadAdv
    <3>2. QED
      BY <1>1, <1>2, <1>3, <1>4, <3>1, LimitAssumption DEF Readable
  <2>3. QED
    BY <2>1, <2>2
<1>6. /\ Front(x, n) \in Seq(Byte) /\ Len(Front(x, n)) = n
      /\ \A i \in 1..n : Front(x, n)[i] = x.mem[x.read + i]
  <2>1. \A i \in (x.read + 1)..(x.read + n) : x.mem[i] \in Byte
    BY <1>1, <1>2, LimitAssumption
  <2>2. x.read \in Int /\ x.read + n \in Int
    BY <1>1, <1>2, LimitAssumption
  <2>3. QED
    BY <1>2, <2>1, <2>2, SliceProperties DEF Front
<1>7. Content(x) = Front(x, n) \o Content(a)
  <2>1. /\ Content(x) \in Seq(Byte) /\ Len(Content(x)) = Readable(x)
        /\ \A i \in 1..Readable(x) : Content(x)[i] = x.mem[x.read + i]
    BY ContentProperties
  <2>2. /\ Content(a) \in Seq(Byte) /\ Len(Content(a)) = Readable(a)
        /\ \A i \in 1..Readable(a) : Content(a)[i] = a.mem[a.read + i]
    BY <1>4, ContentProperties
  <2>3. /\ Front(x, n) \o Content(a) \in Seq(Byte)
        /\ Len(Front(x, n) \o Content(a)) = Len(Front(x, n)) + Len(Content(a))
        /\ \A i \in 1..(Len(Front(x, n)) + Len(Content(a))) : (Front(x, n) \o Content(a))[i] =
             IF i <= Len(Front(x, n)) THEN Front(x, n)[i] ELSE Content(a)[i - Len(Front(x, n))]
    BY <1>6, <2>2, ConcatProperties
  <2>4. /\ Readable(x) \in Nat /\ x.read \in Int /\ n <= Readable(x)
        /\ Readable(a) = Readable(x) - n
    BY <1>1, <1>2, <1>3, LimitAssumption DEF Readable
  <2>5. ASSUME NEW i \in 1..Readable(x)
        PROVE  Content(x)[i] = (Front(x, n) \o Content(a))[i]
    <3>1. i \in 1..(Len(Front(x, n)) + Len(Content(a)))
      BY <1>2, <1>6, <2>2, <2>4
    <3>2. Content(x)[i] = x.mem[x.read + i]
      BY <2>1
    <3>3. CASE i <= n
      BY <1>2, <1>6, <2>3, <3>1, <3>2, <3>3
    <3>4. CASE ~(i <= n)
      <4>1. i - n \in 1..Readable(a) /\ a.read + (i - n) = x.read + i
        BY <1>2, <1>3, <2>4, <3>4
      <4>2. Content(a)[i - n] = x.mem[x.read + i]
        BY <1>3, <2>2, <4>1
      <4>3. (Front(x, n) \o Content(a))[i] = Content(a)[i - n]
        BY <1>6, <2>3, <3>1, <3>4
      <4>4. QED
        BY <3>2, <4>2, <4>3
    <3>5. QED
      BY <3>3, <3>4
  <2>6. Len(Content(x)) = Len(Front(x, n) \o Content(a))
    BY <1>2, <1>6, <2>1, <2>2, <2>3, <2>4
  <2>7. QED
    BY <2>1, <2>3, <2>5, <2>6, SeqEqual
<1>8. QED
  BY <1>5, <1>6, <1>7
=============================================================================
