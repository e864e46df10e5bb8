------------------------- MODULE ForwardingTheorems -------------------------
(***************************************************************************)
(* The safety of a forwarding session for every number of bytes, every     *)
(* size of the buffers and every kernel window: IInv is inductive, the     *)
(* invariants the runs check follow from it, and the session implements    *)
(* the two-way pipe of Pipe.tla.                                           *)
(***************************************************************************)
EXTENDS Forwarding, SequenceTheorems, TLAPS

BL == INSTANCE BufferLemmas WITH Limit <- BufferSize

-----------------------------------------------------------------------------
(* Facts about the data.                                                   *)

LEMMA SideFacts ==
  ASSUME NEW s \in Side
  PROVE  /\ Other(s) \in Side /\ Other(s) # s /\ Other(Other(s)) = s
         /\ \A t \in Side : t = s \/ t = Other(s)
BY DEF Side, Other

\* The facts of BufferLemmas about the buffers of a session.
LEMMA BufferFacts ==
  ASSUME NEW x \in B!Buffers
  PROVE  /\ B!Content(x) \in Seq(Byte) /\ Len(B!Content(x)) = B!Readable(x)
         /\ B!Readable(x) \in Nat /\ B!WriteRoom(x) \in Nat
<1>1. /\ B!Content(x) \in Seq(Byte) /\ Len(B!Content(x)) = B!Readable(x)
  BY BL!ContentProperties, ForwardingAssumption
     DEF B!Buffers, BL!Buffers, B!Content, BL!Content, B!Readable, BL!Readable
<1>2. B!Readable(x) \in Nat /\ B!WriteRoom(x) \in Nat
  BY ForwardingAssumption DEF B!Buffers, B!Readable, B!WriteRoom
<1>3. QED
  BY <1>1, <1>2

LEMMA FillFacts ==
  ASSUME NEW x \in B!Buffers, NEW bytes \in Seq(Byte), Len(bytes) <= B!WriteRoom(x)
  PROVE  /\ B!Fill(x, bytes) \in B!Buffers
         /\ B!Content(B!Fill(x, bytes)) = B!Content(x) \o bytes
BY BL!FillAppends, ForwardingAssumption
   DEF B!Buffers, BL!Buffers, B!WriteRoom, BL!WriteRoom, B!Fill, BL!Fill,
       B!Content, BL!Content

LEMMA ReadAdvFacts ==
  ASSUME NEW x \in B!Buffers, NEW n \in 0..B!Readable(x)
  PROVE  /\ B!ReadAdv(x, n) \in B!Buffers
         /\ B!Front(x, n) \in Seq(Byte) /\ Len(B!Front(x, n)) = n
         /\ B!Content(x) = B!Front(x, n) \o B!Content(B!ReadAdv(x, n))
         /\ B!Readable(B!ReadAdv(x, n)) = B!Readable(x) - n
BY BL!ReadAdvSplits, ForwardingAssumption
   DEF B!Buffers, BL!Buffers, B!Readable, BL!Readable, B!ReadAdv, BL!ReadAdv,
       B!Compact, BL!Compact, B!Front, BL!Front, B!Content, BL!Content

LEMMA DiscardFacts ==
  ASSUME NEW x \in B!Buffers
  PROVE  B!Discard(x) \in B!Buffers /\ ~B!CanRead(B!Discard(x))
BY ForwardingAssumption DEF B!Buffers, B!Discard, B!CanRead, B!Readable

\* A stretch of a stream, and the streams it joins.
LEMMA StreamFacts ==
  ASSUME NEW m \in Nat, NEW n \in Nat, m <= n, n <= MaxBytes
  PROVE  /\ Stream(m, n) \in Seq(Byte) /\ Len(Stream(m, n)) = n - m
         /\ \A i \in 1..(n - m) : Stream(m, n)[i] = m + i
<1>1. n - m \in Nat
  OBVIOUS
<1>2. \A i \in 1..(n - m) : m + i \in Byte
  BY ForwardingAssumption DEF Byte
<1>3. Stream(m, n) \in [1..(n - m) -> Byte]
  BY <1>2 DEF Stream
<1>4. Stream(m, n) \in Seq(Byte) /\ Len(Stream(m, n)) = n - m
  BY <1>1, <1>3
<1>5. QED
  BY <1>4 DEF Stream

LEMMA WholeStreamFacts ==
  ASSUME NEW n \in Nat, n <= MaxBytes
  PROVE  /\ Stream(0, n) \in Seq(Byte) /\ Len(Stream(0, n)) = n
         /\ \A i \in 1..n : Stream(0, n)[i] = i
<1>1. \A i \in 1..n : i \in Byte
  BY ForwardingAssumption DEF Byte
<1>2. Stream(0, n) = [i \in 1..n |-> i]
  <2>1. n - 0 = n /\ \A i \in 1..n : 0 + i = i
    OBVIOUS
  <2>2. QED
    BY <2>1 DEF Stream
<1>3. [i \in 1..n |-> i] \in [1..n -> Byte]
  BY <1>1
<1>4. [i \in 1..n |-> i] \in Seq(Byte) /\ Len([i \in 1..n |-> i]) = n
  BY <1>3
<1>5. QED
  BY <1>2, <1>4

LEMMA StreamGrows ==
  ASSUME NEW m \in Nat, NEW n \in Nat, m <= n, n <= MaxBytes
  PROVE  Stream(0, m) \o Stream(m, n) = Stream(0, n)
<1> DEFINE u == Stream(0, m)  v == Stream(m, n)  w == Stream(0, n)
<1>1. /\ u \in Seq(Byte) /\ Len(u) = m /\ \A i \in 1..m : u[i] = i
  BY WholeStreamFacts, ForwardingAssumption
<1>2. /\ v \in Seq(Byte) /\ Len(v) = n - m /\ \A i \in 1..(n - m) : v[i] = m + i
  BY StreamFacts
<1>3. /\ w \in Seq(Byte) /\ Len(w) = n /\ \A i \in 1..n : w[i] = i
  BY WholeStreamFacts, ForwardingAssumption
<1> HIDE DEF u, v, w
<1>4. /\ u \o v \in Seq(Byte) /\ Len(u \o v) = Len(u) + Len(v)
      /\ \A i \in 1..(Len(u) + Len(v)) :
           (u \o v)[i] = IF i <= Len(u) THEN u[i] ELSE v[i - Len(u)]
  BY <1>1, <1>2, ConcatProperties
<1>5. Len(u \o v) = Len(w)
  BY <1>1, <1>2, <1>3, <1>4
<1>6. ASSUME NEW i \in 1..Len(u \o v)
      PROVE  (u \o v)[i] = w[i]
  <2>1. i \in 1..n /\ i \in 1..(Len(u) + Len(v)) /\ w[i] = i
    BY <1>1, <1>2, <1>3, <1>4
  <2>2. CASE i <= m
    BY <1>1, <1>4, <2>1, <2>2
  <2>3. CASE ~(i <= m)
    <3>1. i - m \in 1..(n - m) /\ m + (i - m) = i
      BY <2>1, <2>3
    <3>2. v[i - m] = i
      BY <1>2, <3>1
    <3>3. QED
      BY <1>1, <1>4, <2>1, <2>3, <3>2
  <2>4. QED
    BY <2>2, <2>3
<1>7. u \o v = w
  BY <1>3, <1>4, <1>5, <1>6, SeqEqual
<1>8. QED
  BY <1>7 DEF u, v, w

\* A prefix of a stream is a stream.
LEMMA StreamPrefix ==
  ASSUME NEW u \in Seq(Byte), NEW v \in Seq(Byte), NEW n \in Nat, n <= MaxBytes,
         u \o v = Stream(0, n)
  PROVE  u = Stream(0, Len(u)) /\ Len(u) + Len(v) = n
<1> DEFINE w == Stream(0, n)
<1>1. /\ w \in Seq(Byte) /\ Len(w) = n /\ \A i \in 1..n : w[i] = i
  BY WholeStreamFacts, ForwardingAssumption
<1>2. /\ Len(u \o v) = Len(u) + Len(v)
      /\ \A i \in 1..(Len(u) + Len(v)) :
           (u \o v)[i] = IF i <= Len(u) THEN u[i] ELSE v[i - Len(u)]
      /\ Len(u) \in Nat /\ Len(v) \in Nat
  BY ConcatProperties, LenProperties
<1>3. Len(u) + Len(v) = n /\ Len(u) <= MaxBytes
  BY <1>1, <1>2, ForwardingAssumption
<1>4. /\ Stream(0, Len(u)) \in Seq(Byte) /\ Len(Stream(0, Len(u))) = Len(u)
      /\ \A i \in 1..Len(u) : Stream(0, Len(u))[i] = i
  BY <1>2, <1>3, WholeStreamFacts
<1>5. ASSUME NEW i \in 1..Len(u)
      PROVE  u[i] = Stream(0, Len(u))[i]
  <2>1. i \in 1..n /\ i \in 1..(Len(u) + Len(v)) /\ i <= Len(u)
    BY <1>2, <1>3
  <2>2. (u \o v)[i] = u[i]
    BY <1>2, <2>1
  <2>3. QED
    BY <1>1, <1>4, <2>1, <2>2
<1>6. QED
  BY <1>3, <1>4, <1>5, SeqEqual

LEMMA ByteConcatAssociative ==
  ASSUME NEW u \in Seq(Byte), NEW v \in Seq(Byte), NEW w \in Seq(Byte)
  PROVE  (u \o v) \o w = u \o (v \o w)
BY ConcatAssociative

\* Receiving the next stretch of a stream keeps what was received a stream.
LEMMA StreamExtends ==
  ASSUME NEW u \in Seq(Byte), NEW v \in Seq(Byte),
         NEW m \in Nat, NEW n \in Nat, m <= n, n <= MaxBytes,
         u \o v = Stream(0, m)
  PROVE  u \o (v \o Stream(m, n)) = Stream(0, n)
<1> DEFINE w == Stream(m, n)
<1>1. w \in Seq(Byte)
  BY StreamFacts
<1>2. Stream(0, m) \o w = Stream(0, n)
  BY StreamGrows
<1> HIDE DEF w
<1>3. (u \o v) \o w = u \o (v \o w)
  BY <1>1, ByteConcatAssociative
<1>4. u \o (v \o w) = Stream(0, n)
  BY <1>2, <1>3
<1>5. QED
  BY <1>4 DEF w
-----------------------------------------------------------------------------
(* Facts about the state.                                                  *)

\* What IInv says of the two directions, in the form the steps use.
LEMMA DirectionFacts ==
  ASSUME IInv, NEW s \in Side
  PROVE  /\ Other(s) \in Side
         /\ buf[s] \in B!Buffers /\ out[Other(s)] \in Seq(Byte)
         /\ B!Content(buf[s]) \in Seq(Byte)
         /\ Len(B!Content(buf[s])) = B!Readable(buf[s])
         /\ B!Readable(buf[s]) \in Nat /\ B!WriteRoom(buf[s]) \in Nat
         /\ taken[s] \in Nat /\ sent[s] \in Nat /\ taken[s] <= sent[s] /\ sent[s] <= MaxBytes
         /\ state # "ERROR" =>
              /\ out[Other(s)] \o B!Content(buf[s]) = Stream(0, taken[s])
              /\ Len(out[Other(s)]) + B!Readable(buf[s]) = taken[s]
<1>1. Other(s) \in Side
  BY SideFacts
<1>2. /\ buf[s] \in B!Buffers /\ out[Other(s)] \in Seq(Byte)
      /\ taken[s] \in Nat /\ sent[s] \in Nat /\ taken[s] <= sent[s] /\ sent[s] <= MaxBytes
  BY <1>1, ForwardingAssumption DEF IInv, TypeOK, NoLossNoReorder
<1>3. /\ B!Content(buf[s]) \in Seq(Byte)
      /\ Len(B!Content(buf[s])) = B!Readable(buf[s])
      /\ B!Readable(buf[s]) \in Nat /\ B!WriteRoom(buf[s]) \in Nat
  BY <1>2, BufferFacts
<1>4. ASSUME state # "ERROR"
      PROVE  /\ out[Other(s)] \o B!Content(buf[s]) = Stream(0, taken[s])
             /\ Len(out[Other(s)]) + B!Readable(buf[s]) = taken[s]
  <2>1. out[Other(s)] \o B!Content(buf[s]) = Stream(0, taken[s])
    BY <1>4 DEF IInv, NoLossNoReorder
  <2>2. taken[s] <= MaxBytes
    BY <1>2, ForwardingAssumption
  <2> DEFINE u == out[Other(s)]
             v == B!Content(buf[s])
  <2>3. u \in Seq(Byte) /\ v \in Seq(Byte) /\ u \o v = Stream(0, taken[s])
    BY <1>2, <1>3, <2>1
  <2> HIDE DEF u, v
  <2>4. Len(u) + Len(v) = taken[s]
    BY <1>2, <2>2, <2>3, StreamPrefix, Zenon
  <2>5. QED
    BY <1>3, <2>1, <2>4 DEF u, v
<1>5. QED
  BY <1>1, <1>2, <1>3, <1>4

\* Once a side has been shut down nothing is pending for it: its source is
\* finished and everything it sent is in out.
LEMMA NothingPendingAfterShutdown ==
  ASSUME IInv, NEW s \in Side, shut[s], state # "ERROR"
  PROVE  ~Pending(s)
<1>1. Other(s) \in Side /\ Other(Other(s)) = s
  BY SideFacts
<1>2. out[s] = Stream(0, sent[Other(s)])
  BY DEF IInv, ShutdownAfterDrain
<1>3. /\ sent[Other(s)] \in Nat /\ sent[Other(s)] <= MaxBytes
      /\ taken[Other(s)] \in Nat /\ taken[Other(s)] <= sent[Other(s)]
      /\ B!Readable(buf[Other(s)]) \in Nat
      /\ Len(out[s]) + B!Readable(buf[Other(s)]) = taken[Other(s)]
  BY <1>1, DirectionFacts
<1>4. Len(out[s]) = sent[Other(s)]
  BY <1>2, <1>3, WholeStreamFacts
<1>5. QED
  BY <1>3, <1>4 DEF Pending, B!CanRead

LEMMA TailOfTodo ==
  ASSUME IInv, todo # <<>>
  PROVE  Tail(todo) \in Seq(Callback)
BY HeadTailProperties DEF IInv, TypeOK

LEMMA InitIInv == Init => IInv
<1> SUFFICES ASSUME Init PROVE IInv
  OBVIOUS
<1> USE DEF Init
<1> DEFINE x == B!BufferInit([i \in 1..BufferSize |-> 0])
<1>1. x \in B!Buffers
  BY ForwardingAssumption DEF B!BufferInit, B!Buffers, Byte
<1>2. B!Content(x) = <<>> /\ ~B!CanRead(x)
  BY SubSeqEmpty DEF B!BufferInit, B!Content, B!CanRead, B!Readable
<1>3. \A s \in Side : Other(s) \in Side
  BY SideFacts
<1>4. Stream(0, 0) = <<>> /\ <<>> \o <<>> = <<>> /\ Len(<<>>) = 0
  <2>1. Stream(0, 0) \in Seq(Byte) /\ Len(Stream(0, 0)) = 0
    BY WholeStreamFacts, ForwardingAssumption
  <2>2. Stream(0, 0) = <<>>
    BY <2>1, EmptySeq
  <2>3. <<>> \in Seq(Byte) /\ Len(<<>>) = 0
    BY EmptySeq
  <2>4. QED
    BY <2>2, <2>3, ConcatEmptySeq
<1>5. TypeOK
  BY <1>1, EmptySeq, ForwardingAssumption DEF TypeOK, Op, Byte
<1>6. NoLossNoReorder
  <2> SUFFICES ASSUME NEW s \in Side
               PROVE  /\ out[Other(s)] \o B!Content(buf[s]) = Stream(0, taken[s])
                      /\ out[Other(s)] = Stream(0, Len(out[Other(s)]))
                      /\ taken[s] <= sent[s]
    BY DEF NoLossNoReorder
  <2>1. out[Other(s)] = <<>> /\ buf[s] = x /\ taken[s] = 0 /\ sent[s] = 0
    BY <1>3
  <2> HIDE DEF x
  <2>2. out[Other(s)] \o B!Content(buf[s]) = Stream(0, taken[s])
    <3>1. out[Other(s)] \o B!Content(buf[s]) = <<>> \o <<>>
      BY <1>2, <2>1, Zenon
    <3>2. Stream(0, taken[s]) = <<>>
      BY <1>4, <2>1, Zenon
    <3>3. QED
      BY <1>4, <3>1, <3>2, Zenon
  <2>3. out[Other(s)] = Stream(0, Len(out[Other(s)]))
    BY <1>4, <2>1, Zenon
  <2>4. taken[s] <= sent[s]
    BY <2>1
  <2>5. QED
    BY <2>2, <2>3, <2>4
<1>7. EofSeen /\ ShutOnlyAfterClose /\ ShutdownAfterDrain /\ ErrorOnlyAfterReset
  BY DEF EofSeen, ShutOnlyAfterClose, ShutdownAfterDrain, ErrorOnlyAfterReset
<1>8. StateAgrees
  BY DEF StateAgrees, Side
<1>9. NoLostWakeup
  BY <1>2, <1>3 DEF NoLostWakeup, Pending
<1>10. QED
  BY <1>5, <1>6, <1>7, <1>8, <1>9 DEF IInv
-----------------------------------------------------------------------------
(* The steps of the peers.                                                 *)

LEMMA PeerSendKeeps ==
  ASSUME IInv, NEW s \in Side, PeerSend(s)
  PROVE  IInv'
<1> USE DEF PeerSend, IInv, record
<1>1. sent' \in [Side -> 0..MaxBytes]
  BY ForwardingAssumption DEF TypeOK
<1>2. \A t \in Side : t # s => sent'[t] = sent[t]
  BY DEF TypeOK
<1>3. sent'[s] = sent[s] + 1 /\ sent[s] \in Nat /\ taken[s] <= sent'[s]
  BY DirectionFacts DEF TypeOK
<1>4. TypeOK'
  BY <1>1 DEF TypeOK
<1>5. NoLossNoReorder'
  BY <1>2, <1>3 DEF NoLossNoReorder
<1>6. EofSeen' /\ ShutdownAfterDrain'
  <2>1. \A t \in Side : fin[t] => sent'[t] = sent[t]
    BY <1>2
  <2>2. QED
    BY <2>1, SideFacts DEF EofSeen, ShutdownAfterDrain
<1>7. ShutOnlyAfterClose' /\ ErrorOnlyAfterReset'
  BY DEF ShutOnlyAfterClose, ErrorOnlyAfterReset
<1>8. StateAgrees' /\ NoLostWakeup'
  BY DEF StateAgrees, Finished, NoLostWakeup, Pending
<1>9. QED
  BY <1>4, <1>5, <1>6, <1>7, <1>8

LEMMA PeerFinishKeeps ==
  ASSUME IInv, NEW s \in Side, PeerFinish(s)
  PROVE  IInv'
<1> USE DEF PeerFinish, IInv, record
<1>1. \A t \in Side : fin[t] => fin'[t]
  BY DEF TypeOK
<1>2. TypeOK'
  BY DEF TypeOK
<1>3. NoLossNoReorder' /\ ShutOnlyAfterClose' /\ ErrorOnlyAfterReset'
  BY DEF NoLossNoReorder, ShutOnlyAfterClose, ErrorOnlyAfterReset
<1>4. EofSeen' /\ ShutdownAfterDrain'
  BY <1>1, SideFacts DEF EofSeen, ShutdownAfterDrain
<1>5. StateAgrees' /\ NoLostWakeup'
  BY DEF StateAgrees, Finished, NoLostWakeup, Pending
<1>6. QED
  BY <1>2, <1>3, <1>4, <1>5

LEMMA PeerResetKeeps ==
  ASSUME IInv, NEW s \in Side, PeerReset(s)
  PROVE  IInv'
<1> USE DEF PeerReset, IInv, record
<1>1. \A t \in Side : reset[t] => reset'[t]
  BY DEF TypeOK
<1>2. TypeOK'
  BY DEF TypeOK
<1>3. NoLossNoReorder' /\ ShutOnlyAfterClose' /\ ErrorOnlyAfterReset'
  BY <1>1 DEF NoLossNoReorder, ShutOnlyAfterClose, ErrorOnlyAfterReset
<1>4. EofSeen' /\ ShutdownAfterDrain'
  BY DEF EofSeen, ShutdownAfterDrain
<1>5. StateAgrees' /\ NoLostWakeup'
  BY DEF StateAgrees, Finished, NoLostWakeup, Pending
<1>6. QED
  BY <1>2, <1>3, <1>4, <1>5

\* Steps that leave alone everything but the kernel window, the list of
\* callbacks and the interest words, and lose no wake-up.
LEMMA QuietStepKeeps ==
  ASSUME IInv, TypeOK', NoLostWakeup',
         UNCHANGED <<sent, fin, reset, out, shut, record, status>>
  PROVE  IInv'
<1> USE DEF IInv, record
<1>1. NoLossNoReorder' /\ ShutOnlyAfterClose' /\ ErrorOnlyAfterReset'
  BY DEF NoLossNoReorder, ShutOnlyAfterClose, ErrorOnlyAfterReset
<1>2. EofSeen' /\ ShutdownAfterDrain'
  BY DEF EofSeen, ShutdownAfterDrain
<1>3. StateAgrees'
  BY DEF StateAgrees, Finished
<1>4. QED
  BY <1>1, <1>2, <1>3

LEMMA PeerReadKeeps ==
  ASSUME IInv, NEW s \in Side, PeerRead(s)
  PROVE  IInv'
<1>1. unread[s] \in 1..Window /\ unread' = [unread EXCEPT ![s] = unread[s] - 1]
  BY ForwardingAssumption DEF PeerRead, IInv, TypeOK
<1>2. unread' \in [Side -> 0..Window]
  BY <1>1, ForwardingAssumption DEF IInv, TypeOK
<1>3. TypeOK'
  BY <1>2 DEF PeerRead, IInv, TypeOK, record
<1>4. NoLostWakeup'
  BY DEF PeerRead, IInv, NoLostWakeup, Pending, record
<1>5. QED
  BY <1>3, <1>4, QuietStepKeeps DEF PeerRead
-----------------------------------------------------------------------------
(* The steps of the selector and of the state machine.                     *)

LEMMA SelectKeeps ==
  ASSUME IInv, Select
  PROVE  IInv'
<1>1. \A s \in Side, op \in Op : Fire(s, op) \in Seq(Callback)
  <2> TAKE s \in Side, op \in Op
  <2>1. <<s, op>> \in Callback
    BY DEF Callback
  <2>2. \A c \in Callback : << c >> \in Seq(Callback)
    OBVIOUS
  <2>3. <<>> \in Seq(Callback)
    BY EmptySeq
  <2> QED
    BY <2>1, <2>2, <2>3, Zenon DEF Fire
<1>2. first \in Side /\ Other(first) \in Side /\ "R" \in Op /\ "W" \in Op
  BY SideFacts DEF IInv, TypeOK, Op
<1>3. /\ Fire(first, "R") \o Fire(first, "W") \in Seq(Callback)
      /\ Fire(Other(first), "R") \in Seq(Callback)
      /\ Fire(Other(first), "W") \in Seq(Callback)
  BY <1>1, <1>2, ConcatProperties
<1>4. todo' \in Seq(Callback)
  BY <1>3, ConcatProperties DEF Select
<1>5. TypeOK'
  BY <1>4 DEF Select, IInv, TypeOK, peers, record
<1>6. NoLostWakeup'
  BY DEF Select, IInv, NoLostWakeup, Pending, record
<1>7. QED
  BY <1>5, <1>6, QuietStepKeeps DEF Select, peers

LEMMA NotCalledKeeps ==
  ASSUME IInv, NotCalled
  PROVE  IInv'
<1>1. todo' \in Seq(Callback)
  BY TailOfTodo DEF NotCalled
<1>2. TypeOK'
  BY <1>1 DEF NotCalled, IInv, TypeOK, peers, record
<1>3. NoLostWakeup'
  BY DEF NotCalled, IInv, NoLostWakeup, Pending, record
<1>4. QED
  BY <1>2, <1>3, QuietStepKeeps DEF NotCalled, peers

LEMMA AbortKeeps ==
  ASSUME IInv, Abort
  PROVE  IInv'
<1> USE DEF Abort, IInv, record, peers
<1>1. TypeOK'
  BY DEF TypeOK
<1>2. status = "open"
  BY DEF Called
<1>3. NoLossNoReorder' /\ ShutOnlyAfterClose' /\ ErrorOnlyAfterReset'
  BY DEF NoLossNoReorder, ShutOnlyAfterClose, ErrorOnlyAfterReset
<1>4. EofSeen' /\ ShutdownAfterDrain'
  BY DEF EofSeen, ShutdownAfterDrain
<1>5. StateAgrees' /\ NoLostWakeup'
  BY <1>2 DEF StateAgrees, Finished, NoLostWakeup, TypeOK
<1>6. QED
  BY <1>1, <1>3, <1>4, <1>5
-----------------------------------------------------------------------------
(* The handlers.                                                           *)

LEMMA HandlerFacts ==
  ASSUME IInv, NEW s \in Side, NEW op \in Op, Called(s, op), state = "FORWARDING"
  PROVE  /\ status = "open" /\ Tail(todo) \in Seq(Callback)
         /\ \E t \in Side : ~closed[t]
BY TailOfTodo DEF Called, IInv, StateAgrees

\* A handler that stays in FORWARDING and changes only the interest words.
LEMMA StayKeeps ==
  ASSUME IInv, NEW s \in Side, NEW op \in Op, Called(s, op), state = "FORWARDING",
         NEW i \in [Side -> SUBSET Op], Stay(i, buf, closed),
         UNCHANGED <<peers, out, shut, taken, first>>,
         \A t \in Side : interest[t] \subseteq i[t]
  PROVE  IInv'
<1>1. TypeOK'
  BY HandlerFacts DEF Stay, peers, IInv, TypeOK
<1>2. NoLostWakeup'
  BY DEF Stay, peers, IInv, NoLostWakeup, Pending
<1>3. QED
  BY <1>1, <1>2, QuietStepKeeps DEF Stay, peers, record

LEMMA ReadFullKeeps ==
  ASSUME IInv, NEW s \in Side, ReadFull(s)
  PROVE  IInv'
<1> DEFINE i == [interest EXCEPT ![s] = {"R", "W"}]
<1>1. i \in [Side -> SUBSET Op] /\ \A t \in Side : interest[t] \subseteq i[t]
  BY DEF IInv, TypeOK, Op
<1>2. "R" \in Op
  BY DEF Op
<1>3. QED
  BY <1>1, <1>2, StayKeeps DEF ReadFull, Reading

LEMMA AgainKeeps ==
  ASSUME IInv, NEW s \in Side, RecvAgain(s) \/ SendAgain(s)
  PROVE  IInv'
<1>1. interest \in [Side -> SUBSET Op] /\ "R" \in Op /\ "W" \in Op
  BY DEF IInv, TypeOK, Op
<1>2. QED
  BY <1>1, StayKeeps DEF RecvAgain, SendAgain, Receiving, Reading, Sending, Writing

LEMMA JumpErrorKeeps ==
  ASSUME IInv, NEW s \in Side, NEW t \in Side, reset[t], JumpError(s),
         UNCHANGED <<peers, out, shut, taken, first>>
  PROVE  IInv'
<1> DEFINE d == [u \in Side |-> B!Discard(buf[u])]
<1>1. \A u \in Side : d[u] \in B!Buffers /\ ~B!CanRead(d[u])
  BY DiscardFacts, DirectionFacts
<1>2. Finished(AllClosed, d)
  BY <1>1 DEF Finished, AllClosed
<1>3. /\ state' = "ERROR" /\ status' = "freed" /\ buf' = d /\ closed' = AllClosed
      /\ interest' = NoInterest /\ todo' = <<>>
  BY <1>2 DEF JumpError, EndConnection
<1> HIDE DEF d
<1>4. d \in [Side -> B!Buffers]
  BY <1>1 DEF d
<1>5. TypeOK'
  BY <1>3, <1>4, EmptySeq DEF IInv, TypeOK, peers, AllClosed, NoInterest
<1>6. NoLossNoReorder'
  BY <1>3 DEF IInv, NoLossNoReorder, peers
<1>7. EofSeen' /\ ShutOnlyAfterClose' /\ StateAgrees' /\ NoLostWakeup'
  BY <1>3 DEF EofSeen, ShutOnlyAfterClose, StateAgrees, NoLostWakeup
<1>8. ShutdownAfterDrain' /\ ErrorOnlyAfterReset'
  BY DEF IInv, ShutdownAfterDrain, ErrorOnlyAfterReset, peers
<1>9. QED
  BY <1>5, <1>6, <1>7, <1>8 DEF IInv

LEMMA RecvErrorKeeps ==
  ASSUME IInv, NEW s \in Side, RecvError(s)
  PROVE  IInv'
BY JumpErrorKeeps DEF RecvError

\* A send can fail only because the peer failed: nothing is pending for a side
\* that was shut down.
LEMMA SendErrorKeeps ==
  ASSUME IInv, NEW s \in Side, SendError(s)
  PROVE  IInv'
<1>1. reset[s]
  BY NothingPendingAfterShutdown DEF SendError, Sending, Writing
<1>2. QED
  BY <1>1, JumpErrorKeeps DEF SendError

LEMMA RecvEofKeeps ==
  ASSUME IInv, NEW s \in Side, RecvEof(s)
  PROVE  IInv'
<1> DEFINE c == [closed EXCEPT ![s] = TRUE]
           o == Other(s)
<1>1. /\ state = "FORWARDING" /\ status = "open" /\ Tail(todo) \in Seq(Callback)
      /\ \E t \in Side : ~closed[t]
  BY HandlerFacts DEF RecvEof, Receiving, Reading, Op
<1>2. /\ o \in Side /\ o # s /\ Other(o) = s /\ \A t \in Side : t = s \/ t = o
  BY SideFacts
<1>3. fin[s] /\ taken[s] = sent[s]
  <2>1. B!WriteRoom(buf[s]) # 0
    BY DirectionFacts DEF RecvEof, Receiving, B!CanWrite
  <2>2. Arrived(s) = 0 /\ fin[s]
    BY <2>1 DEF RecvEof
  <2>3. taken[s] = sent[s]
    <3>1. sent[s] - taken[s] = 0
      BY <2>2 DEF Arrived
    <3>2. sent[s] \in Nat /\ taken[s] \in Nat
      BY DirectionFacts
    <3>3. QED
      BY <3>1, <3>2
  <2>4. QED
    BY <2>2, <2>3
<1>4. /\ c \in [Side -> BOOLEAN] /\ c[s] /\ c[o] = closed[o]
      /\ \A t \in Side : closed[t] => c[t]
  BY <1>2 DEF IInv, TypeOK
<1>5. UNCHANGED <<sent, fin, reset, unread, out, shut, taken, first>>
  BY DEF RecvEof, peers
<1>6. buf' = buf /\ closed' = c
  BY DEF RecvEof, JumpDone, Stay
<1> HIDE DEF c, o
<1>7. EofSeen'
  <2>1. ASSUME NEW t \in Side, c[t]
        PROVE  fin[t] /\ taken[t] = sent[t]
    <3>1. CASE t = s
      BY <1>3, <3>1
    <3>2. CASE t = o
      BY <1>1, <1>4, <2>1, <3>2 DEF IInv, EofSeen
    <3>3. QED
      BY <1>2, <3>1, <3>2
  <2>2. QED
    BY <1>5, <1>6, <2>1 DEF EofSeen
<1>8. ShutOnlyAfterClose'
  BY <1>1, <1>4, <1>5, <1>6, SideFacts DEF IInv, ShutOnlyAfterClose
<1>9. ShutdownAfterDrain'
  BY <1>5 DEF IInv, ShutdownAfterDrain
<1>10. NoLossNoReorder'
  BY <1>1, <1>5, <1>6 DEF IInv, NoLossNoReorder
<1>11. CASE closed[o]
  <2>1. JumpDone(interest, buf, c)
    BY <1>11 DEF RecvEof, c, o
  <2>2. state' = "DONE" /\ \A t \in Side : c[t]
    BY <1>2, <1>4, <1>11, <2>1 DEF JumpDone
  <2>3. /\ status' \in {"open", "freed"} /\ (status' = "freed" <=> Finished(c, buf))
        /\ interest' \in [Side -> SUBSET Op] /\ todo' \in Seq(Callback)
    <3>1. EndConnection(interest, buf, c)
      BY <2>1 DEF JumpDone
    <3>2. NoInterest \in [Side -> SUBSET Op] /\ interest \in [Side -> SUBSET Op]
      BY DEF NoInterest, IInv, TypeOK
    <3>3. QED
      BY <1>1, <3>1, <3>2, EmptySeq DEF EndConnection
  <2>4. TypeOK'
    BY <1>4, <1>5, <1>6, <2>2, <2>3 DEF IInv, TypeOK
  <2>5. StateAgrees'
    BY <1>6, <2>2, <2>3 DEF StateAgrees, Finished
  <2>6. NoLostWakeup' /\ ErrorOnlyAfterReset'
    BY <2>2 DEF NoLostWakeup, ErrorOnlyAfterReset
  <2>7. QED
    BY <1>7, <1>8, <1>9, <1>10, <2>4, <2>5, <2>6 DEF IInv
<1>12. CASE ~closed[o]
  <2>1. Stay([interest EXCEPT ![o] = {"W"}, ![s] = {}], buf, c)
    BY <1>12 DEF RecvEof, c, o
  <2>2. /\ state' = "FORWARDING" /\ status' = "open" /\ todo' = Tail(todo)
        /\ interest' = [interest EXCEPT ![o] = {"W"}, ![s] = {}]
    BY <1>1, <2>1 DEF Stay
  <2>3. interest' \in [Side -> SUBSET Op] /\ interest'[o] = {"W"}
    BY <1>2, <2>2 DEF IInv, TypeOK, Op
  <2>4. TypeOK'
    BY <1>1, <1>4, <1>5, <1>6, <2>2, <2>3 DEF IInv, TypeOK
  <2>5. StateAgrees'
    BY <1>2, <1>4, <1>6, <1>12, <2>2 DEF StateAgrees
  <2>6. NoLostWakeup'
    <3>1. \A t \in Side : ~c[t] => t = o
      BY <1>2, <1>4
    <3>2. QED
      BY <1>2, <1>4, <1>6, <2>2, <2>3, <3>1 DEF NoLostWakeup
  <2>7. ErrorOnlyAfterReset'
    BY <2>2 DEF ErrorOnlyAfterReset
  <2>8. QED
    BY <1>7, <1>8, <1>9, <1>10, <2>4, <2>5, <2>6, <2>7 DEF IInv
<1>13. QED
  BY <1>11, <1>12

LEMMA RecvDataKeeps ==
  ASSUME IInv, NEW s \in Side, RecvData(s)
  PROVE  IInv'
<1> DEFINE o == Other(s)
<1>1. PICK n \in 1..Arrived(s) :
        /\ n <= B!WriteRoom(buf[s])
        /\ taken' = [taken EXCEPT ![s] = @ + n]
        /\ Stay([interest EXCEPT ![o] = {"R", "W"}],
                [buf EXCEPT ![s] = B!Fill(@, Stream(taken[s], taken[s] + n))],
                closed)
  BY DEF RecvData
<1>2. /\ state = "FORWARDING" /\ status = "open" /\ Tail(todo) \in Seq(Callback)
      /\ \E t \in Side : ~closed[t]
  BY HandlerFacts DEF RecvData, Receiving, Reading, Op
<1>3. /\ o \in Side /\ o # s /\ Other(o) = s /\ \A t \in Side : t = s \/ t = o
  BY SideFacts
<1>4. UNCHANGED <<sent, fin, reset, unread, out, shut, first>>
  BY DEF RecvData, peers
<1> DEFINE i == [interest EXCEPT ![o] = {"R", "W"}]
           m == taken[s]
           x == buf[s]
<1>5. PICK k \in Nat : /\ k = m + n /\ m \in Nat /\ m < k /\ n = k - m
                       /\ k <= sent[s] /\ k <= MaxBytes
  <2>1. m \in Nat /\ sent[s] \in Nat /\ sent[s] <= MaxBytes /\ MaxBytes \in Nat
    BY DirectionFacts, ForwardingAssumption
  <2>2. n \in Int /\ 1 <= n /\ n <= sent[s] - m
    BY <2>1 DEF Arrived
  <2>3. QED
    BY <2>1, <2>2
<1> DEFINE z == B!Fill(x, Stream(m, k))
<1>6. /\ state' = state /\ status' = status /\ closed' = closed
      /\ todo' = Tail(todo) /\ interest' = i
      /\ buf' = [buf EXCEPT ![s] = z]
      /\ taken' = [taken EXCEPT ![s] = k]
  BY <1>1, <1>5 DEF Stay
<1>7. ~closed[s] /\ ~shut[o]
  <2>1. ~closed[s]
    <3>1. taken[s] # sent[s]
      BY <1>5, DirectionFacts
    <3>2. QED
      BY <1>2, <3>1 DEF IInv, EofSeen
  <2>2. ~shut[o]
    BY <1>2, <1>3, <2>1 DEF IInv, ShutOnlyAfterClose
  <2>3. QED
    BY <2>1, <2>2
<1>8. /\ Stream(m, k) \in Seq(Byte) /\ Len(Stream(m, k)) = n
  <2>1. m <= k
    BY <1>5
  <2>2. Stream(m, k) \in Seq(Byte) /\ Len(Stream(m, k)) = k - m
    BY <1>5, <2>1, StreamFacts
  <2>3. QED
    BY <1>5, <2>2
<1>9. z \in B!Buffers /\ B!Content(z) = B!Content(x) \o Stream(m, k)
  BY <1>1, <1>8, DirectionFacts, FillFacts
<1>10. out[o] \o B!Content(z) = Stream(0, k)
  <2>1. /\ out[o] \in Seq(Byte) /\ B!Content(x) \in Seq(Byte)
        /\ out[o] \o B!Content(x) = Stream(0, m)
    BY <1>2, DirectionFacts
  <2>2. m <= k
    BY <1>5
  <2>3. out[o] \o (B!Content(x) \o Stream(m, k)) = Stream(0, k)
    BY <1>5, <2>1, <2>2, StreamExtends
  <2>4. QED
    BY <1>9, <2>3
<1>11. TypeOK'
  <2>1. taken' \in [Side -> 0..MaxBytes]
    <3>1. taken \in [Side -> 0..MaxBytes] /\ k \in 0..MaxBytes
      BY <1>5, ForwardingAssumption DEF IInv, TypeOK
    <3>2. QED
      BY <1>6, <3>1
  <2>2. interest' \in [Side -> SUBSET Op]
    BY <1>6 DEF IInv, TypeOK, Op
  <2>3. buf' \in [Side -> B!Buffers]
    BY <1>6, <1>9 DEF IInv, TypeOK
  <2>4. QED
    BY <1>2, <1>4, <1>6, <2>1, <2>2, <2>3 DEF IInv, TypeOK
<1>12. /\ buf'[s] = z /\ taken'[s] = k
       /\ buf'[o] = buf[o] /\ taken'[o] = taken[o]
       /\ i[o] = {"R", "W"} /\ i[s] = interest[s]
  BY <1>3, <1>6 DEF IInv, TypeOK
<1> HIDE DEF i, m, x, z, o
<1>13. NoLossNoReorder'
  <2>1. ASSUME NEW t \in Side
        PROVE  /\ out[Other(t)] \o B!Content(buf'[t]) = Stream(0, taken'[t])
               /\ out[Other(t)] = Stream(0, Len(out[Other(t)]))
               /\ taken'[t] <= sent[t]
    <3>1. CASE t = s
      BY <1>5, <1>10, <1>12, <3>1 DEF IInv, NoLossNoReorder, o
    <3>2. CASE t = o
      BY <1>2, <1>12, <3>2 DEF IInv, NoLossNoReorder
    <3>3. QED
      BY <1>3, <3>1, <3>2
  <2>2. QED
    BY <1>4, <2>1 DEF NoLossNoReorder
<1>14. EofSeen'
  BY <1>2, <1>3, <1>4, <1>6, <1>7, <1>12 DEF IInv, EofSeen
<1>15. ShutOnlyAfterClose' /\ ShutdownAfterDrain' /\ ErrorOnlyAfterReset'
  BY <1>2, <1>4, <1>6 DEF IInv, ShutOnlyAfterClose, ShutdownAfterDrain, ErrorOnlyAfterReset
<1>16. StateAgrees'
  BY <1>2, <1>6 DEF StateAgrees
<1>17. NoLostWakeup'
  <2>1. ASSUME NEW t \in Side, ~closed[t]
        PROVE  /\ B!CanRead(buf'[Other(t)]) => "W" \in i[t]
               /\ "R" \in i[t] \/ (closed[Other(t)] /\ "W" \in i[t])
    <3>1. CASE t = o
      BY <1>12, <3>1
    <3>2. CASE t = s
      <4>1. Other(t) = o /\ buf'[Other(t)] = buf[Other(t)] /\ i[t] = interest[t]
        BY <1>12, <3>2 DEF o
      <4>2. QED
        BY <1>2, <2>1, <4>1 DEF IInv, NoLostWakeup, Pending
    <3>3. QED
      BY <1>3, <3>1, <3>2
  <2>2. QED
    BY <1>6, <2>1 DEF NoLostWakeup, Pending
<1>18. QED
  BY <1>11, <1>13, <1>14, <1>15, <1>16, <1>17 DEF IInv

\* The side that was shut down, or is now, has been sent everything.
LEMMA WriteNothingKeeps ==
  ASSUME IInv, NEW s \in Side, WriteNothing(s)
  PROVE  IInv'
<1> DEFINE o == Other(s)
           i == [interest EXCEPT ![s] = {"R"}]
<1>1. /\ state = "FORWARDING" /\ status = "open" /\ Tail(todo) \in Seq(Callback)
      /\ \E t \in Side : ~closed[t]
  BY HandlerFacts DEF WriteNothing, Writing, Op
<1>2. /\ o \in Side /\ o # s /\ Other(o) = s /\ \A t \in Side : t = s \/ t = o
  BY SideFacts
<1>3. ~Finished(closed, buf)
  BY <1>1 DEF Finished
<1>4. UNCHANGED <<sent, fin, reset, unread, out, taken, first>>
  BY DEF WriteNothing, peers
<1>5. /\ shut' = [shut EXCEPT ![s] = @ \/ closed[o]]
      /\ state' = state /\ status' = status /\ closed' = closed /\ buf' = buf
      /\ todo' = Tail(todo) /\ interest' = i
  BY <1>3 DEF WriteNothing, Stay
<1>6. /\ i \in [Side -> SUBSET Op] /\ i[s] = {"R"} /\ i[o] = interest[o]
  BY <1>2 DEF IInv, TypeOK, Op
<1>7. /\ shut' \in [Side -> BOOLEAN] /\ shut'[o] = shut[o]
      /\ shut'[s] => shut[s] \/ closed[o]
  BY <1>2, <1>5 DEF IInv, TypeOK
<1>8. ~Pending(s)
  BY DEF WriteNothing
<1> HIDE DEF o, i
<1>9. TypeOK'
  BY <1>1, <1>4, <1>5, <1>6, <1>7 DEF IInv, TypeOK
<1>10. NoLossNoReorder' /\ EofSeen' /\ StateAgrees' /\ ErrorOnlyAfterReset'
  BY <1>1, <1>4, <1>5 DEF IInv, NoLossNoReorder, EofSeen, StateAgrees, ErrorOnlyAfterReset
<1>11. ShutOnlyAfterClose'
  <2>1. ASSUME NEW t \in Side, shut'[t]
        PROVE  closed[Other(t)]
    <3>1. CASE t = s
      BY <1>1, <1>7, <2>1, <3>1 DEF IInv, ShutOnlyAfterClose, o
    <3>2. CASE t = o
      BY <1>1, <1>7, <2>1, <3>2 DEF IInv, ShutOnlyAfterClose
    <3>3. QED
      BY <1>2, <3>1, <3>2
  <2>2. QED
    BY <1>5, <2>1 DEF ShutOnlyAfterClose
<1>12. ShutdownAfterDrain'
  <2>1. ASSUME closed[o]
        PROVE  fin[o] /\ out[s] = Stream(0, sent[o])
    <3>1. fin[o] /\ taken[o] = sent[o]
      BY <1>1, <1>2, <2>1 DEF IInv, EofSeen
    <3>2. /\ out[s] \in Seq(Byte) /\ taken[o] \in Nat /\ B!Readable(buf[o]) \in Nat
          /\ Len(out[s]) + B!Readable(buf[o]) = taken[o]
      BY <1>1, <1>2, DirectionFacts
    <3>3. Len(out[s]) \in Nat
      BY <3>2, LenProperties
    <3>4. B!Readable(buf[o]) = 0
      BY <1>8, <3>2 DEF Pending, B!CanRead, o
    <3>5. Len(out[s]) = taken[o]
      BY <3>2, <3>3, <3>4
    <3>6. out[s] = Stream(0, Len(out[s]))
      BY <1>2 DEF IInv, NoLossNoReorder
    <3>7. QED
      BY <3>1, <3>5, <3>6
  <2>2. ASSUME NEW t \in Side, shut'[t]
        PROVE  fin[Other(t)] /\ out[t] = Stream(0, sent[Other(t)])
    <3>1. CASE t = s
      BY <1>7, <2>1, <2>2, <3>1 DEF IInv, ShutdownAfterDrain, o
    <3>2. CASE t = o
      BY <1>7, <2>2, <3>2 DEF IInv, ShutdownAfterDrain
    <3>3. QED
      BY <1>2, <3>1, <3>2
  <2>3. QED
    BY <1>4, <2>2 DEF ShutdownAfterDrain
<1>13. NoLostWakeup'
  <2>1. ASSUME NEW t \in Side, ~closed[t]
        PROVE  /\ B!CanRead(buf[Other(t)]) => "W" \in i[t]
               /\ "R" \in i[t] \/ (closed[Other(t)] /\ "W" \in i[t])
    <3>1. CASE t = s
      BY <1>6, <1>8, <3>1 DEF Pending
    <3>2. CASE t = o
      BY <1>1, <1>6, <2>1, <3>2 DEF IInv, NoLostWakeup, Pending
    <3>3. QED
      BY <1>2, <3>1, <3>2
  <2>2. QED
    BY <1>5, <2>1 DEF NoLostWakeup, Pending
<1>14. QED
  BY <1>9, <1>10, <1>11, <1>12, <1>13 DEF IInv

\* A send to s of the n bytes q that leaves the buffer x: what the stream, the
\* kernel, the shutdown and the selector hold afterwards.
SentTo(s, n, q, x) ==
  LET o == Other(s)
      more == B!CanRead(x)
  IN  /\ n <= Window - unread[s]
      /\ q \in Seq(Byte) /\ Len(q) = Len(out[s]) + n
      /\ q \o B!Content(x) = Stream(0, taken[o])
      /\ q = Stream(0, Len(q)) /\ Len(q) + B!Readable(x) = taken[o]
      /\ out' = [out EXCEPT ![s] = q]
      /\ unread' = [unread EXCEPT ![s] = unread[s] + n]
      /\ shut' = [shut EXCEPT ![s] = shut[s] \/ (~more /\ closed[o])]
      /\ Stay([interest EXCEPT ![s] = IF more THEN {"R", "W"} ELSE {"R"}],
              [buf EXCEPT ![o] = x], closed)

\* What a send leaves behind: the sent bytes moved from the buffer to the
\* stream, and nothing else.
LEMMA SendDataFacts ==
  ASSUME IInv, NEW s \in Side, SendData(s)
  PROVE  \E n \in Nat \ {0}, q \in Seq(Byte), x \in B!Buffers : SentTo(s, n, q, x)
<1> DEFINE o == Other(s)
<1>1. PICK n \in 1..(Window - unread[s]) :
        /\ n <= B!Readable(buf[o])
        /\ LET b == [buf EXCEPT ![o] = B!ReadAdv(@, n)]
               more == B!CanRead(b[o])
               i == [interest EXCEPT ![s] = IF more THEN {"R", "W"} ELSE {"R"}]
           IN  /\ out' = [out EXCEPT ![s] = @ \o B!Front(buf[o], n)]
               /\ unread' = [unread EXCEPT ![s] = @ + n]
               /\ shut' = [shut EXCEPT ![s] = @ \/ (~more /\ closed[o])]
               /\ IF Finished(closed, b) THEN JumpDone(i, b, closed) ELSE Stay(i, b, closed)
  BY DEF SendData
<1> DEFINE x == B!ReadAdv(buf[o], n)
           b == [buf EXCEPT ![o] = x]
           f == B!Front(buf[o], n)
<1>2. /\ state = "FORWARDING" /\ \E t \in Side : ~closed[t]
  BY HandlerFacts DEF SendData, Sending, Writing, Op
<1>3. o \in Side /\ Other(o) = s
  BY SideFacts
<1>4. /\ unread[s] \in Nat /\ unread[s] <= Window /\ Window \in Nat
  BY ForwardingAssumption DEF IInv, TypeOK
<1>5. n \in Nat /\ n > 0 /\ n <= Window - unread[s]
  BY <1>4
<1>6. /\ buf[o] \in B!Buffers /\ B!Readable(buf[o]) \in Nat
      /\ out[s] \in Seq(Byte) /\ B!Content(buf[o]) \in Seq(Byte)
      /\ out[s] \o B!Content(buf[o]) = Stream(0, taken[o])
      /\ taken[o] \in Nat /\ taken[o] <= MaxBytes
  <2>1. taken[o] \in Nat /\ taken[o] <= sent[o] /\ sent[o] <= MaxBytes /\ sent[o] \in Nat
    BY <1>3, DirectionFacts
  <2>2. taken[o] <= MaxBytes
    BY <2>1, ForwardingAssumption
  <2>3. QED
    BY <1>2, <1>3, <2>1, <2>2, DirectionFacts
<1>7. n \in 0..B!Readable(buf[o])
  BY <1>1, <1>5, <1>6
<1>8. /\ x \in B!Buffers /\ f \in Seq(Byte) /\ Len(f) = n
      /\ B!Content(buf[o]) = f \o B!Content(x)
  BY <1>6, <1>7, ReadAdvFacts
<1>9. b[o] = x
  BY <1>3 DEF IInv, TypeOK
<1>10. ~Finished(closed, b)
  BY <1>2 DEF Finished
<1> DEFINE q == out[s] \o f
<1>11. q \in Seq(Byte) /\ Len(q) = Len(out[s]) + n
  <2> DEFINE u == out[s]
  <2>1. u \in Seq(Byte) /\ f \in Seq(Byte) /\ Len(f) = n
    BY <1>6, <1>8
  <2> HIDE DEF u, f
  <2>2. u \o f \in Seq(Byte) /\ Len(u \o f) = Len(u) + Len(f)
    BY <2>1, ConcatProperties, Zenon
  <2>3. QED
    BY <2>1, <2>2 DEF u
<1>12. q \o B!Content(x) = Stream(0, taken[o])
  <2>1. B!Content(x) \in Seq(Byte)
    BY <1>8, BufferFacts
  <2> HIDE DEF x, f
  <2>2. (out[s] \o f) \o B!Content(x) = out[s] \o (f \o B!Content(x))
    BY <1>6, <1>8, <2>1, ByteConcatAssociative
  <2>3. QED
    BY <1>6, <1>8, <2>2
<1>13. q = Stream(0, Len(q)) /\ Len(q) + B!Readable(x) = taken[o]
  <2>1. B!Content(x) \in Seq(Byte) /\ Len(B!Content(x)) = B!Readable(x)
    BY <1>8, BufferFacts
  <2>2. taken[o] \in Nat /\ taken[o] <= MaxBytes
    BY <1>6
  <2> HIDE DEF x, q, o
  <2>3. q = Stream(0, Len(q)) /\ Len(q) + Len(B!Content(x)) = taken[o]
    BY <1>11, <1>12, <2>1, <2>2, StreamPrefix
  <2>4. QED
    BY <2>1, <2>3
<1>14. /\ out' = [out EXCEPT ![s] = q]
       /\ unread' = [unread EXCEPT ![s] = @ + n]
       /\ shut' = [shut EXCEPT ![s] = @ \/ (~B!CanRead(x) /\ closed[o])]
       /\ Stay([interest EXCEPT ![s] = IF B!CanRead(x) THEN {"R", "W"} ELSE {"R"}], b, closed)
  BY <1>1, <1>9, <1>10
<1>15. SentTo(s, n, q, x)
  <2> HIDE DEF x, q
  <2>1. QED
    BY <1>5, <1>11, <1>12, <1>13, <1>14 DEF SentTo, o, b
<1>16. QED
  <2>1. n \in Nat \ {0} /\ q \in Seq(Byte) /\ x \in B!Buffers
    BY <1>5, <1>8, <1>11
  <2> HIDE DEF x, q
  <2>2. QED
    BY <1>15, <2>1

LEMMA SendDataKeeps ==
  ASSUME IInv, NEW s \in Side, SendData(s)
  PROVE  IInv'
<1> DEFINE o == Other(s)
<1>1. PICK n \in Nat \ {0}, q \in Seq(Byte), x \in B!Buffers : SentTo(s, n, q, x)
  BY SendDataFacts
<1> DEFINE more == B!CanRead(x)
           i == [interest EXCEPT ![s] = IF more THEN {"R", "W"} ELSE {"R"}]
           b == [buf EXCEPT ![o] = x]
<1>2. /\ state = "FORWARDING" /\ status = "open" /\ Tail(todo) \in Seq(Callback)
      /\ \E t \in Side : ~closed[t]
  BY HandlerFacts DEF SendData, Sending, Writing, Op
<1>3. /\ o \in Side /\ o # s /\ Other(o) = s /\ \A t \in Side : t = s \/ t = o
  BY SideFacts
<1>4. UNCHANGED <<sent, fin, reset, taken, first>>
  BY DEF SendData
<1>5. /\ state' = state /\ status' = status /\ closed' = closed
      /\ todo' = Tail(todo) /\ interest' = i /\ buf' = b
  BY <1>1 DEF SentTo, Stay
<1>6. /\ i \in [Side -> SUBSET Op] /\ i[o] = interest[o]
      /\ i[s] = IF more THEN {"R", "W"} ELSE {"R"}
  BY <1>3 DEF IInv, TypeOK, Op
<1>7. /\ b \in [Side -> B!Buffers] /\ b[o] = x /\ b[s] = buf[s]
  BY <1>3 DEF IInv, TypeOK
<1>8. /\ q \in Seq(Byte)
      /\ q \o B!Content(x) = Stream(0, taken[o])
      /\ q = Stream(0, Len(q)) /\ Len(q) + B!Readable(x) = taken[o]
  BY <1>1 DEF SentTo
<1>9. /\ out' \in [Side -> Seq(Byte)] /\ out'[s] = q /\ out'[o] = out[o]
  BY <1>1, <1>3, <1>8 DEF IInv, TypeOK, SentTo
<1>10. unread' \in [Side -> 0..Window]
  <2>1. unread \in [Side -> 0..Window] /\ Window \in Nat
    BY ForwardingAssumption DEF IInv, TypeOK
  <2>2. unread' = [unread EXCEPT ![s] = unread[s] + n] /\ n \in Nat /\ n <= Window - unread[s]
    BY <1>1 DEF SentTo
  <2>3. unread[s] + n \in 0..Window
    BY <2>1, <2>2
  <2>4. QED
    BY <2>1, <2>2, <2>3
<1>11. /\ shut' \in [Side -> BOOLEAN] /\ shut'[o] = shut[o]
       /\ shut'[s] => shut[s] \/ (~more /\ closed[o])
  BY <1>1, <1>3 DEF IInv, TypeOK, SentTo
<1>12. ~shut[s]
  BY DEF SendData
<1>13. more <=> B!Readable(x) > 0
  BY DEF B!CanRead
<1> HIDE DEF o, i, b, more
<1>14. TypeOK'
  BY <1>2, <1>4, <1>5, <1>6, <1>7, <1>9, <1>10, <1>11 DEF IInv, TypeOK
<1>15. NoLossNoReorder'
  <2>1. ASSUME NEW t \in Side
        PROVE  /\ out'[Other(t)] \o B!Content(b[t]) = Stream(0, taken[t])
               /\ out'[Other(t)] = Stream(0, Len(out'[Other(t)]))
               /\ taken[t] <= sent[t]
    <3>1. CASE t = o
      BY <1>3, <1>7, <1>8, <1>9, <3>1 DEF IInv, NoLossNoReorder
    <3>2. CASE t = s
      BY <1>2, <1>3, <1>7, <1>9, <3>2 DEF IInv, NoLossNoReorder, o
    <3>3. QED
      BY <1>3, <3>1, <3>2
  <2>2. QED
    BY <1>4, <1>5, <2>1 DEF NoLossNoReorder
<1>16. EofSeen' /\ ErrorOnlyAfterReset'
  BY <1>2, <1>4, <1>5 DEF IInv, EofSeen, ErrorOnlyAfterReset
<1>17. StateAgrees'
  BY <1>2, <1>5 DEF StateAgrees
<1>18. ShutOnlyAfterClose'
  <2>1. ASSUME NEW t \in Side, shut'[t]
        PROVE  closed[Other(t)]
    <3>1. CASE t = s
      BY <1>11, <1>12, <2>1, <3>1 DEF o
    <3>2. CASE t = o
      BY <1>2, <1>11, <2>1, <3>2 DEF IInv, ShutOnlyAfterClose
    <3>3. QED
      BY <1>3, <3>1, <3>2
  <2>2. QED
    BY <1>5, <2>1 DEF ShutOnlyAfterClose
<1>19. ShutdownAfterDrain'
  <2>1. ASSUME closed[o], ~more
        PROVE  fin[o] /\ q = Stream(0, sent[o])
    <3>1. fin[o] /\ taken[o] = sent[o]
      BY <1>2, <1>3, <2>1 DEF IInv, EofSeen
    <3>2. B!Readable(x) = 0
      BY <1>13, <2>1, BufferFacts
    <3>3. Len(q) = taken[o]
      <4>1. Len(q) \in Nat
        BY <1>8, LenProperties
      <4>2. QED
        BY <1>8, <3>2, <4>1
    <3>4. QED
      BY <1>8, <3>1, <3>3
  <2>2. ASSUME NEW t \in Side, shut'[t]
        PROVE  fin[Other(t)] /\ out'[t] = Stream(0, sent[Other(t)])
    <3>1. CASE t = s
      BY <1>9, <1>11, <1>12, <2>1, <2>2, <3>1 DEF o
    <3>2. CASE t = o
      BY <1>9, <1>11, <2>2, <3>2 DEF IInv, ShutdownAfterDrain
    <3>3. QED
      BY <1>3, <3>1, <3>2
  <2>3. QED
    BY <1>4, <2>2 DEF ShutdownAfterDrain
<1>20. NoLostWakeup'
  <2>1. ASSUME NEW t \in Side, ~closed[t]
        PROVE  /\ B!CanRead(b[Other(t)]) => "W" \in i[t]
               /\ "R" \in i[t] \/ (closed[Other(t)] /\ "W" \in i[t])
    <3>1. CASE t = s
      BY <1>6, <1>7, <3>1 DEF o, more
    <3>2. CASE t = o
      BY <1>2, <1>3, <1>6, <1>7, <2>1, <3>2 DEF IInv, NoLostWakeup, Pending
    <3>3. QED
      BY <1>3, <3>1, <3>2
  <2>2. QED
    BY <1>5, <2>1 DEF NoLostWakeup, Pending
<1>21. QED
  BY <1>14, <1>15, <1>16, <1>17, <1>18, <1>19, <1>20 DEF IInv
-----------------------------------------------------------------------------
(* The theorems.                                                           *)

LEMMA NextIInv == IInv /\ [Next]_vars => IInv'
<1> SUFFICES ASSUME IInv, [Next]_vars PROVE IInv'
  OBVIOUS
<1>1. ASSUME NEW s \in Side, Peer(s) PROVE IInv'
  BY <1>1, PeerSendKeeps, PeerFinishKeeps, PeerResetKeeps, PeerReadKeeps DEF Peer
<1>2. ASSUME NEW s \in Side, Handler(s) PROVE IInv'
  BY <1>2, ReadFullKeeps, RecvDataKeeps, RecvEofKeeps, AgainKeeps, RecvErrorKeeps,
     WriteNothingKeeps, SendDataKeeps, SendErrorKeeps DEF Handler
<1>3. CASE Loop
  BY <1>2, <1>3, SelectKeeps, NotCalledKeeps, AbortKeeps DEF Loop
<1>4. CASE UNCHANGED vars
  <2>1. TypeOK'
    BY <1>4 DEF vars, IInv, TypeOK
  <2>2. NoLostWakeup'
    BY <1>4 DEF vars, IInv, NoLostWakeup, Pending
  <2>3. QED
    BY <1>4, <2>1, <2>2, QuietStepKeeps DEF vars, record
<1>5. QED
  BY <1>1, <1>3, <1>4 DEF Next

\* Every state a session reaches satisfies the inductive invariant.
THEOREM InductiveInvariant == Spec => []IInv
<1>1. Init => IInv
  BY InitIInv
<1>2. IInv /\ [Next]_vars => IInv'
  BY NextIInv
<1>3. QED
  BY <1>1, <1>2, PTL DEF Spec

\* No value of the session leaves its type: in particular the two pointers of
\* each buffer stay in order and inside the area (forward_read, forward_write,
\* buffer.h).
THEOREM TypeCorrect == Spec => []TypeOK
<1>1. IInv => TypeOK
  BY DEF IInv
<1>2. QED
  BY <1>1, InductiveInvariant, PTL

\* The proxy neither loses, nor repeats, nor reorders a byte.
THEOREM StreamIntegrity == Spec => []NoLossNoReorder
<1>1. IInv => NoLossNoReorder
  BY DEF IInv
<1>2. QED
  BY <1>1, InductiveInvariant, PTL

\* shutdown is called towards a side only when its source has finished and
\* everything it sent has been passed on.
THEOREM ShutdownIsOrderly == Spec => []ShutdownAfterDrain
<1>1. IInv => ShutdownAfterDrain
  BY DEF IInv
<1>2. QED
  BY <1>1, InductiveInvariant, PTL

\* The interest words never leave a side unwatched before its end was read.
THEOREM WakeupsAreKept == Spec => []NoLostWakeup
<1>1. IInv => NoLostWakeup
  BY DEF IInv
<1>2. QED
  BY <1>1, InductiveInvariant, PTL

\* The proxy itself never makes a healthy session fail.
THEOREM ErrorsComeFromPeers == Spec => []ErrorOnlyAfterReset
<1>1. IInv => ErrorOnlyAfterReset
  BY DEF IInv
<1>2. QED
  BY <1>1, InductiveInvariant, PTL

\* With both ends closed and nothing pending, both streams are complete.
LEMMA FinishedIsComplete ==
  ASSUME IInv, state = "DONE", Finished(closed, buf), NEW s \in Side
  PROVE  fin[s] /\ out[Other(s)] = Stream(0, sent[s])
<1>1. fin[s] /\ taken[s] = sent[s]
  BY DEF IInv, EofSeen, Finished
<1>2. /\ out[Other(s)] \in Seq(Byte) /\ taken[s] \in Nat /\ B!Readable(buf[s]) \in Nat
      /\ Len(out[Other(s)]) + B!Readable(buf[s]) = taken[s]
  BY DirectionFacts
<1>3. B!Readable(buf[s]) = 0
  BY <1>2 DEF Finished, B!CanRead
<1>4. Len(out[Other(s)]) = taken[s]
  <2>1. Len(out[Other(s)]) \in Nat
    BY <1>2, LenProperties
  <2>2. QED
    BY <1>2, <1>3, <2>1
<1>5. out[Other(s)] = Stream(0, Len(out[Other(s)]))
  BY DEF IInv, NoLossNoReorder
<1>6. QED
  BY <1>1, <1>4, <1>5

\* A session destroyed through DONE has delivered both streams completely.
THEOREM CleanEndComplete == Spec => []CleanEndIsComplete
<1>1. IInv => CleanEndIsComplete
  BY FinishedIsComplete DEF IInv, StateAgrees, CleanEndIsComplete
<1>2. QED
  BY <1>1, InductiveInvariant, PTL

\* The only sessions that reach DONE and are not destroyed are those in which
\* both sides finished while bytes were pending.
THEOREM UndestroyedIsPending == Spec => []UndestroyedOnlyWhenPending
<1>1. IInv => UndestroyedOnlyWhenPending
  <2> SUFFICES ASSUME IInv, state = "DONE", status # "freed"
               PROVE  /\ \A s \in Side : closed[s] /\ fin[s]
                      /\ \E s \in Side : Pending(s)
    BY DEF UndestroyedOnlyWhenPending
  <2>1. /\ \A s \in Side : closed[s] /\ fin[s]
        /\ ~Finished(closed, buf)
    BY DEF IInv, StateAgrees, EofSeen
  <2>2. PICK s \in Side : B!CanRead(buf[s])
    BY <2>1 DEF Finished
  <2>3. Pending(Other(s)) /\ Other(s) \in Side
    BY <2>2, SideFacts DEF Pending
  <2>4. QED
    BY <2>1, <2>3
<1>2. QED
  BY <1>1, InductiveInvariant, PTL
-----------------------------------------------------------------------------
(* The session implements the pipe.                                        *)

\* The streams and the peers of Pipe.tla are those of the session.
LEMMA PipeStreams ==
  /\ \A n \in Nat : P!All(n) = Stream(0, n)
  /\ \A s \in Side : P!Peer(s) = Other(s)
<1>1. ASSUME NEW n \in Nat PROVE P!All(n) = Stream(0, n)
  <2>1. n - 0 = n /\ \A i \in 1..n : 0 + i = i
    OBVIOUS
  <2>2. QED
    BY <2>1 DEF P!All, Stream
<1>2. QED
  BY <1>1 DEF P!Peer, Other

LEMMA InitIsPipe == Init => P!PipeInit
<1> SUFFICES ASSUME Init PROVE P!PipeInit
  OBVIOUS
<1>1. Over = "open"
  BY DEF Init, Over
<1>2. QED
  BY <1>1 DEF Init, P!PipeInit, P!End, Side

\* What the peers of the pipe cannot see.
LEMMA HiddenStep ==
  ASSUME UNCHANGED <<sent, fin, reset, out, shut, state>>,
         status' = "freed" <=> status = "freed"
  PROVE  UNCHANGED P!pipeVars
<1>1. Over' = Over
  BY DEF Over
<1>2. QED
  BY <1>1 DEF P!pipeVars

LEMMA PeerIsPipe ==
  ASSUME NEW s \in Side, Peer(s)
  PROVE  P!PipeNext \/ UNCHANGED P!pipeVars
<1>1. s \in P!End
  BY DEF P!End, Side
<1>2. CASE PeerSend(s)
  <2>1. Over = "open" /\ Over' = Over
    BY <1>2 DEF PeerSend, record, Over
  <2>2. P!Produce(s)
    BY <1>2, <2>1 DEF PeerSend, P!Produce
  <2>3. QED
    BY <1>1, <2>2 DEF P!PipeNext
<1>3. CASE PeerFinish(s)
  <2>1. Over = "open" /\ Over' = Over
    BY <1>3 DEF PeerFinish, record, Over
  <2>2. P!Finish(s)
    BY <1>3, <2>1 DEF PeerFinish, P!Finish
  <2>3. QED
    BY <1>1, <2>2 DEF P!PipeNext
<1>4. CASE PeerReset(s)
  <2>1. Over = "open" /\ Over' = Over
    BY <1>4 DEF PeerReset, record, Over
  <2>2. P!Fail(s)
    BY <1>4, <2>1 DEF PeerReset, P!Fail
  <2>3. QED
    BY <1>1, <2>2 DEF P!PipeNext
<1>5. CASE PeerRead(s)
  BY <1>5, HiddenStep DEF PeerRead, record
<1>6. QED
  BY <1>2, <1>3, <1>4, <1>5 DEF Peer

\* A handler that reached ERROR ends a session one of whose ends failed.
LEMMA ErrorIsPipe ==
  ASSUME NEW s \in Side, NEW t \in Side, state = "FORWARDING", status = "open",
         reset[t], JumpError(s), status' = "freed", UNCHANGED <<peers, out, shut>>
  PROVE  P!PipeNext
<1>1. Over = "open" /\ Over' = "broken"
  BY DEF Over, JumpError
<1>2. P!EndBroken
  BY <1>1 DEF P!EndBroken, P!End, Side, peers
<1>3. QED
  BY <1>2 DEF P!PipeNext

\* The end of stream on the second side ends the session, if nothing is pending.
LEMMA RecvEofIsPipe ==
  ASSUME IInv, CleanEndIsComplete', NEW s \in Side, RecvEof(s)
  PROVE  P!PipeNext \/ UNCHANGED P!pipeVars
<1>1. state = "FORWARDING" /\ status = "open"
  BY HandlerFacts DEF RecvEof, Receiving, Reading, Op
<1>2. UNCHANGED <<sent, fin, reset, out, shut>>
  BY DEF RecvEof, peers
<1>3. CASE status' = "freed"
  <2>1. state' = "DONE"
    BY <1>1, <1>3 DEF RecvEof, JumpDone, Stay
  <2>2. Over = "open" /\ Over' = "clean"
    BY <1>1, <1>3, <2>1 DEF Over
  <2>3. ASSUME NEW t \in Side PROVE P!Complete(t)
    <3>1. Other(t) \in Side /\ Other(Other(t)) = t
      BY SideFacts
    <3>2. fin[Other(t)] /\ out[t] = Stream(0, sent[Other(t)])
      BY <1>2, <1>3, <2>1, <3>1 DEF CleanEndIsComplete
    <3>3. sent[Other(t)] \in Nat
      BY <3>1, DirectionFacts
    <3>4. QED
      BY <3>2, <3>3, PipeStreams DEF P!Complete, P!IsWhole
  <2>4. P!EndClean
    BY <1>2, <2>2, <2>3 DEF P!EndClean, P!End, Side
  <2>5. QED
    BY <2>4 DEF P!PipeNext
<1>4. CASE status' # "freed"
  <2>1. Over' = Over
    BY <1>1, <1>4 DEF Over
  <2>2. QED
    BY <1>2, <2>1 DEF P!pipeVars
<1>5. QED
  BY <1>3, <1>4

\* Nothing is pending for s: it is told so, or nothing is seen.
LEMMA WriteNothingIsPipe ==
  ASSUME IInv, ShutdownAfterDrain', NEW s \in Side, WriteNothing(s)
  PROVE  P!PipeNext \/ UNCHANGED P!pipeVars
<1> DEFINE o == Other(s)
<1>1. /\ state = "FORWARDING" /\ status = "open" /\ \E t \in Side : ~closed[t]
  BY HandlerFacts DEF WriteNothing, Writing, Op
<1>2. ~Finished(closed, buf)
  BY <1>1 DEF Finished
<1>3. /\ shut' = [shut EXCEPT ![s] = @ \/ closed[o]]
      /\ UNCHANGED <<sent, fin, reset, out, state, status>>
  BY <1>2 DEF WriteNothing, Stay, peers
<1>4. shut \in [Side -> BOOLEAN] /\ closed[o] \in BOOLEAN /\ o \in Side
  BY SideFacts DEF IInv, TypeOK
<1>5. Over = "open" /\ Over' = Over
  BY <1>1, <1>3 DEF Over
<1>6. CASE closed[o]
  <2>1. shut' = [shut EXCEPT ![s] = TRUE] /\ shut'[s]
    BY <1>3, <1>4, <1>6
  <2>2. fin[o] /\ out[s] = Stream(0, sent[o])
    BY <1>3, <2>1 DEF ShutdownAfterDrain
  <2>3. sent[o] \in Nat
    BY <1>4, DirectionFacts
  <2>4. P!Complete(s)
    BY <2>2, <2>3, PipeStreams DEF P!Complete, P!IsWhole
  <2>5. P!Shutdown(s)
    BY <1>3, <1>5, <2>1, <2>4 DEF P!Shutdown
  <2>6. QED
    BY <2>5 DEF P!PipeNext, P!End, Side
<1>7. CASE ~closed[o]
  <2>1. shut' = shut
    BY <1>3, <1>4, <1>7
  <2>2. QED
    BY <1>3, <1>5, <2>1 DEF P!pipeVars
<1>8. QED
  BY <1>6, <1>7

\* A send advances the stream towards s, and may carry its end.
LEMMA SendDataIsPipe ==
  ASSUME IInv, ShutdownAfterDrain', NEW s \in Side, SendData(s)
  PROVE  P!PipeNext
<1> DEFINE o == Other(s)
<1>1. PICK n \in Nat \ {0}, q \in Seq(Byte), x \in B!Buffers : SentTo(s, n, q, x)
  BY SendDataFacts
<1>2. state = "FORWARDING" /\ status = "open" /\ ~reset[s] /\ ~shut[s]
  BY HandlerFacts DEF SendData, Sending, Writing, Op
<1>3. UNCHANGED <<sent, fin, reset>>
  BY DEF SendData
<1>4. /\ q = Stream(0, Len(q)) /\ Len(q) = Len(out[s]) + n /\ Len(q) + B!Readable(x) = taken[o]
      /\ out' = [out EXCEPT ![s] = q]
      /\ shut' = [shut EXCEPT ![s] = shut[s] \/ (~B!CanRead(x) /\ closed[o])]
      /\ UNCHANGED <<state, status>>
  BY <1>1 DEF SentTo, Stay
<1>5. /\ o \in Side /\ shut \in [Side -> BOOLEAN] /\ out \in [Side -> Seq(Byte)]
      /\ closed[o] \in BOOLEAN
  BY SideFacts DEF IInv, TypeOK
<1>6. /\ sent[o] \in Nat /\ taken[o] \in Nat /\ taken[o] <= sent[o]
      /\ B!Readable(x) \in Nat
  BY <1>1, <1>5, DirectionFacts, BufferFacts
<1> DEFINE last == ~B!CanRead(x) /\ closed[o]
<1>7. last \in BOOLEAN
  BY <1>5
<1>8. shut' = [shut EXCEPT ![s] = last] /\ (last => shut'[s]) /\ out'[s] = q
  BY <1>2, <1>4, <1>5
<1> HIDE DEF last
<1>9. Len(q) \in Nat /\ Len(out[s]) \in Nat
  BY <1>1, <1>5, LenProperties
<1>10. Len(q) \in Len(out[s])..sent[o]
  BY <1>4, <1>6, <1>9
<1>11. P!All(Len(q)) = q /\ P!Peer(s) = o /\ P!All(sent[o]) = Stream(0, sent[o])
  BY <1>4, <1>6, <1>9, PipeStreams
<1>12. last => P!IsWhole(s, P!All(Len(q)))
  <2>1. last => fin[o] /\ q = Stream(0, sent[o])
    BY <1>3, <1>8 DEF ShutdownAfterDrain
  <2>2. QED
    BY <1>11, <2>1 DEF P!IsWhole
<1>13. Over = "open" /\ Over' = Over
  BY <1>2, <1>4 DEF Over
<1>14. P!Deliver(s)
  <2>1. /\ Len(q) \in Len(out[s])..sent[P!Peer(s)]
        /\ out' = [out EXCEPT ![s] = P!All(Len(q))]
    BY <1>4, <1>10, <1>11
  <2>2. \E k \in Len(out[s])..sent[P!Peer(s)], l \in BOOLEAN :
          /\ out' = [out EXCEPT ![s] = P!All(k)]
          /\ l => P!IsWhole(s, P!All(k))
          /\ shut' = [shut EXCEPT ![s] = l]
    BY <1>7, <1>8, <1>12, <2>1
  <2>3. QED
    BY <1>2, <1>3, <1>13, <2>2 DEF P!Deliver
<1>15. QED
  BY <1>14 DEF P!PipeNext, P!End, Side

LEMMA HandlerIsPipe ==
  ASSUME IInv, IInv', CleanEndIsComplete', NEW s \in Side, Handler(s)
  PROVE  P!PipeNext \/ UNCHANGED P!pipeVars
<1>1. CASE ReadFull(s) \/ RecvData(s) \/ RecvAgain(s) \/ SendAgain(s)
  <2>1. UNCHANGED <<sent, fin, reset, out, shut, state, status>>
    BY <1>1 DEF ReadFull, RecvData, RecvAgain, SendAgain, Stay, peers
  <2>2. QED
    BY <2>1, HiddenStep
<1>2. ASSUME RecvError(s) \/ SendError(s) PROVE P!PipeNext
  <2>1. state = "FORWARDING" /\ status = "open"
    BY <1>2, HandlerFacts DEF RecvError, Receiving, Reading, SendError, Sending, Writing, Op
  <2>2. reset[s]
    BY <1>2, NothingPendingAfterShutdown DEF RecvError, SendError, Sending, Writing
  <2>3. JumpError(s) /\ UNCHANGED <<peers, out, shut>>
    BY <1>2 DEF RecvError, SendError
  <2>4. status' = "freed"
    BY <2>3 DEF JumpError, IInv, StateAgrees
  <2>5. QED
    BY <2>1, <2>2, <2>3, <2>4, ErrorIsPipe
<1>3. ShutdownAfterDrain'
  BY DEF IInv
<1>4. QED
  BY <1>1, <1>2, <1>3, RecvEofIsPipe, WriteNothingIsPipe, SendDataIsPipe DEF Handler

LEMMA NextIsPipe ==
  IInv /\ IInv' /\ CleanEndIsComplete' /\ [Next]_vars => [P!PipeNext]_(P!pipeVars)
<1> SUFFICES ASSUME IInv, IInv', CleanEndIsComplete', [Next]_vars
             PROVE  P!PipeNext \/ UNCHANGED P!pipeVars
  OBVIOUS
<1>1. CASE Select \/ NotCalled
  BY <1>1, HiddenStep DEF Select, NotCalled, peers, record
<1>2. CASE Abort
  <2>1. status = "open" /\ status' = "aborted"
    BY <1>2 DEF Abort, Called
  <2>2. QED
    BY <1>2, <2>1, HiddenStep DEF Abort, peers, record
<1>3. CASE UNCHANGED vars
  BY <1>3, HiddenStep DEF vars
<1>4. QED
  BY <1>1, <1>2, <1>3, PeerIsPipe, HandlerIsPipe DEF Next, Loop

\* Whatever the buffers, the interests and the order of the callbacks do, the
\* two peers see a pair of streams delivered in order and ended in order: the
\* session of forwarding.c and closing.c implements Pipe.tla.
THEOREM SessionIsPipe == Spec => ImplementsPipe
<1>1. Init => P!PipeInit
  BY InitIsPipe
<1>2. IInv /\ IInv' /\ CleanEndIsComplete' /\ [Next]_vars => [P!PipeNext]_(P!pipeVars)
  BY NextIsPipe
<1>3. QED
  BY <1>1, <1>2, InductiveInvariant, CleanEndComplete, PTL DEF Spec, ImplementsPipe, P!PipeSpec
-----------------------------------------------------------------------------
(* The side that finished first.                                           *)

\* What the tail of the callbacks has is what they had, one place further.
LEMMA TailCells ==
  ASSUME IInv, todo # <<>>
  PROVE  /\ Tail(todo) \in Seq(Callback) /\ Head(todo) = todo[1]
         /\ Len(todo) \in Nat /\ DOMAIN todo = 1..Len(todo) /\ 1 \in DOMAIN todo
         /\ \A i \in DOMAIN Tail(todo) :
              /\ i \in Nat \ {0} /\ i + 1 \in DOMAIN todo /\ Tail(todo)[i] = todo[i + 1]
<1>1. todo \in Seq(Callback)
  BY DEF IInv, TypeOK
<1>2. /\ Tail(todo) \in Seq(Callback) /\ Len(Tail(todo)) = Len(todo) - 1
      /\ \A i \in 1..Len(Tail(todo)) : Tail(todo)[i] = todo[i + 1]
  BY <1>1, HeadTailProperties
<1>3. Head(todo) = todo[1]
  <2>1. \A q \in Seq(Callback) : Len(q) # 0 => Head(q) = q[1]
    OBVIOUS
  <2>2. Len(todo) # 0
    BY <1>1, EmptySeq
  <2> QED
    BY <1>1, <2>1, <2>2, Zenon
<1>4. Len(todo) \in Nat /\ Len(todo) # 0 /\ DOMAIN todo = 1..Len(todo)
  BY <1>1, EmptySeq
<1>5. DOMAIN Tail(todo) = 1..(Len(todo) - 1)
  BY <1>2, LenProperties
<1>6. 1 \in DOMAIN todo
  BY <1>4
<1>7. \A i \in 1..(Len(todo) - 1) : i \in Nat \ {0} /\ i + 1 \in 1..Len(todo)
  BY <1>4
<1>8. \A i \in 1..(Len(todo) - 1) : Tail(todo)[i] = todo[i + 1]
  BY <1>2
<1> QED
  BY <1>2, <1>3, <1>4, <1>5, <1>6, <1>7, <1>8

\* One callback fewer: the order stays, and what was second comes first.
LEMMA TailOrder ==
  ASSUME IInv, ReadBeforeWrite, todo # <<>>, todo' = Tail(todo)
  PROVE  /\ ReadBeforeWrite'
         /\ \A s \in Side : \A i \in DOMAIN todo' :
              todo'[i] = <<s, "W">> =>
                /\ i + 1 \in DOMAIN todo /\ todo[i + 1] = <<s, "W">> /\ i \in Nat \ {0}
                /\ todo[1] = <<s, "R">> => i = 1
                /\ i # 1 /\ todo[i] = <<s, "R">> => todo'[i - 1] = <<s, "R">>
<1>1. /\ 1 \in DOMAIN todo /\ DOMAIN todo = 1..Len(todo) /\ Len(todo) \in Nat
      /\ \A i \in DOMAIN todo' :
           i \in Nat \ {0} /\ i + 1 \in DOMAIN todo /\ todo'[i] = todo[i + 1]
  BY TailCells
<1>2. DOMAIN todo' = 1..(Len(todo) - 1)
  <2>1. todo \in Seq(Callback)
    BY DEF IInv, TypeOK
  <2>2. Tail(todo) \in Seq(Callback) /\ Len(Tail(todo)) = Len(todo) - 1
    BY <2>1, HeadTailProperties
  <2> QED
    BY <2>2, LenProperties
<1>3. ReadBeforeWrite'
  <2> SUFFICES ASSUME NEW s \in Side, NEW i \in DOMAIN todo', NEW j \in DOMAIN todo',
                      todo'[i] = <<s, "W">>, todo'[j] = <<s, "R">>
               PROVE  i = j + 1
    BY DEF ReadBeforeWrite
  <2>1. /\ i \in Nat /\ j \in Nat /\ i + 1 \in DOMAIN todo /\ j + 1 \in DOMAIN todo
        /\ todo[i + 1] = <<s, "W">> /\ todo[j + 1] = <<s, "R">>
    BY <1>1
  <2>2. i + 1 = (j + 1) + 1
    BY <2>1, Zenon DEF ReadBeforeWrite
  <2> QED
    BY <2>1, <2>2
<1>4. ASSUME NEW s \in Side, NEW i \in DOMAIN todo', todo'[i] = <<s, "W">>
      PROVE  /\ i + 1 \in DOMAIN todo /\ todo[i + 1] = <<s, "W">> /\ i \in Nat \ {0}
             /\ todo[1] = <<s, "R">> => i = 1
             /\ i # 1 /\ todo[i] = <<s, "R">> => todo'[i - 1] = <<s, "R">>
  <2>1. i + 1 \in DOMAIN todo /\ todo[i + 1] = <<s, "W">> /\ i \in Nat \ {0}
    BY <1>1, <1>4
  <2>2. ASSUME todo[1] = <<s, "R">> PROVE i = 1
    <3>1. i + 1 = 1 + 1
      BY <1>1, <2>1, <2>2, Zenon DEF ReadBeforeWrite
    <3> QED
      BY <2>1, <3>1
  <2>3. ASSUME i # 1, todo[i] = <<s, "R">> PROVE todo'[i - 1] = <<s, "R">>
    <3>1. i - 1 \in DOMAIN todo' /\ (i - 1) + 1 = i
      BY <1>1, <1>2, <2>1, <2>3
    <3> QED
      BY <1>1, <2>3, <3>1
  <2> QED
    BY <2>1, <2>2, <2>3
<1> QED
  BY <1>3, <1>4

\* The callbacks of one side in a round: READ, if it is ready, before WRITE.
Pair(s) == Fire(s, "R") \o Fire(s, "W")

LEMMA PairCells ==
  ASSUME NEW s \in Side
  PROVE  /\ Pair(s) \in Seq(Callback)
         /\ \A i \in 1..Len(Pair(s)) :
              \/ Pair(s)[i] = <<s, "R">> /\ i = 1 /\ Ready(s, "R")
              \/ /\ Pair(s)[i] = <<s, "W">> /\ "W" \in interest[s]
                 /\ Ready(s, "R") => i = 2 /\ Pair(s)[1] = <<s, "R">>
<1> DEFINE a == <<s, "R">>
           b == <<s, "W">>
<1>1. a \in Callback /\ b \in Callback /\ "W" \in Op
  BY DEF Callback, Op
<1>2. Ready(s, "W") => "W" \in interest[s]
  BY DEF Ready
<1>3. Fire(s, "R") = (IF Ready(s, "R") THEN <<a>> ELSE <<>>) /\ Fire(s, "W") = (IF Ready(s, "W") THEN <<b>> ELSE <<>>)
  BY DEF Fire
<1> HIDE DEF a, b
<1>4. <<>> \o <<>> = <<>> /\ <<a>> \o <<>> = <<a>> /\ <<>> \o <<b>> = <<b>> /\ <<a>> \o <<b>> = <<a, b>>
  <2>1. <<>> \in Seq(Callback) /\ <<a>> \in Seq(Callback) /\ <<b>> \in Seq(Callback)
    BY <1>1, EmptySeq
  <2>2. <<>> \o <<>> = <<>> /\ <<a>> \o <<>> = <<a>> /\ <<>> \o <<b>> = <<b>>
    BY <2>1, ConcatEmptySeq
  <2>3. <<a>> \o <<b>> = <<a, b>>
    <3> DEFINE z == <<a>> \o <<b>>
    <3>1. /\ <<a, b>> \in Seq(Callback) /\ Len(<<a, b>>) = 2
          /\ <<a, b>>[1] = a /\ <<a, b>>[2] = b
          /\ Len(<<a>>) = 1 /\ <<a>>[1] = a /\ Len(<<b>>) = 1 /\ <<b>>[1] = b
      BY <1>1
    <3>2. /\ z \in Seq(Callback) /\ Len(z) = Len(<<a>>) + Len(<<b>>)
          /\ \A i \in 1..(Len(<<a>>) + Len(<<b>>)) :
               z[i] = IF i <= Len(<<a>>) THEN <<a>>[i] ELSE <<b>>[i - Len(<<a>>)]
      BY <2>1, ConcatProperties
    <3> HIDE DEF z
    <3>3. Len(z) = 2 /\ z[1] = a /\ z[2] = b
      BY <3>1, <3>2
    <3>4. \A i \in 1..2 : i = 1 \/ i = 2
      OBVIOUS
    <3>5. z = <<a, b>>
      BY <3>1, <3>2, <3>3, <3>4, SeqEqual
    <3> QED
      BY <3>5 DEF z
  <2> QED
    BY <2>2, <2>3
<1>5. /\ <<>> \in Seq(Callback) /\ Len(<<>>) = 0
      /\ <<a>> \in Seq(Callback) /\ Len(<<a>>) = 1 /\ <<a>>[1] = a
      /\ <<b>> \in Seq(Callback) /\ Len(<<b>>) = 1 /\ <<b>>[1] = b
      /\ <<a, b>> \in Seq(Callback) /\ Len(<<a, b>>) = 2 /\ <<a, b>>[1] = a /\ <<a, b>>[2] = b
  BY <1>1, EmptySeq
<1>6. (\A i \in 1..0 : FALSE) /\ (\A i \in 1..1 : i = 1) /\ (\A i \in 1..2 : i = 1 \/ i = 2)
  OBVIOUS
<1>7. CASE Ready(s, "R") /\ Ready(s, "W")
  <2>1. Pair(s) = <<a, b>>
    BY <1>3, <1>4, <1>7 DEF Pair
  <2> QED
    BY <1>2, <1>5, <1>6, <1>7, <2>1 DEF a, b
<1>8. CASE Ready(s, "R") /\ ~Ready(s, "W")
  <2>1. Pair(s) = <<a>>
    BY <1>3, <1>4, <1>8 DEF Pair
  <2> QED
    BY <1>5, <1>6, <1>8, <2>1 DEF a
<1>9. CASE ~Ready(s, "R") /\ Ready(s, "W")
  <2>1. Pair(s) = <<b>>
    BY <1>3, <1>4, <1>9 DEF Pair
  <2> QED
    BY <1>2, <1>5, <1>6, <1>9, <2>1 DEF b
<1>10. CASE ~Ready(s, "R") /\ ~Ready(s, "W")
  <2>1. Pair(s) = <<>>
    BY <1>3, <1>4, <1>10 DEF Pair
  <2> QED
    BY <1>5, <1>6, <2>1
<1> QED
  BY <1>7, <1>8, <1>9, <1>10

\* The order in which a round serves its callbacks.
LEMMA SelectOrder ==
  ASSUME IInv, Select
  PROVE  /\ ReadBeforeWrite'
         /\ \A s \in Side : \A i \in DOMAIN todo' : todo'[i] = <<s, "W">> =>
              /\ "W" \in interest[s]
              /\ Ready(s, "R") => i # 1 /\ todo'[i - 1] = <<s, "R">>
<1> DEFINE f == first
           o == Other(first)
           p == Pair(f)
           q == Pair(o)
           z == p \o q
<1>1. f \in Side /\ o \in Side /\ f # o /\ \A s \in Side : s = f \/ s = o
  BY SideFacts DEF IInv, TypeOK
<1>2. todo' = z
  <2>1. \A s \in Side, op \in Op : Fire(s, op) \in Seq(Callback)
    <3> TAKE s \in Side, op \in Op
    <3>1. <<s, op>> \in Callback
      BY DEF Callback
    <3>2. \A c \in Callback : << c >> \in Seq(Callback)
      OBVIOUS
    <3>3. <<>> \in Seq(Callback)
      BY EmptySeq
    <3> QED
      BY <3>1, <3>2, <3>3, Zenon DEF Fire
  <2>2. "R" \in Op /\ "W" \in Op
    BY DEF Op
  <2>3. /\ Fire(f, "R") \in Seq(Callback) /\ Fire(f, "W") \in Seq(Callback)
        /\ Fire(o, "R") \in Seq(Callback) /\ Fire(o, "W") \in Seq(Callback)
    BY <1>1, <2>1, <2>2, Zenon
  <2>4. todo' = Fire(f, "R") \o Fire(f, "W") \o Fire(o, "R") \o Fire(o, "W")
    BY DEF Select
  <2>5. Fire(f, "R") \o Fire(f, "W") \in Seq(Callback)
    BY <2>3, ConcatProperties
  <2> HIDE DEF f, o
  <2>6. z = (Fire(f, "R") \o Fire(f, "W")) \o (Fire(o, "R") \o Fire(o, "W"))
    BY Zenon DEF Pair
  <2>7. \A s, t, u \in Seq(Callback) : (s \o t) \o u = s \o (t \o u)
    BY ConcatAssociative
  <2> QED
    BY <2>3, <2>4, <2>5, <2>6, <2>7, Zenon
<1>3. p \in Seq(Callback) /\ q \in Seq(Callback) /\ Len(p) \in Nat /\ Len(q) \in Nat
  BY <1>1, PairCells, LenProperties
<1>4. ASSUME NEW i \in 1..Len(p)
      PROVE  \/ p[i] = <<f, "R">> /\ i = 1 /\ Ready(f, "R")
             \/ /\ p[i] = <<f, "W">> /\ "W" \in interest[f]
                /\ Ready(f, "R") => i = 2 /\ p[1] = <<f, "R">>
  BY <1>1, PairCells
<1>5. ASSUME NEW i \in 1..Len(q)
      PROVE  \/ q[i] = <<o, "R">> /\ i = 1 /\ Ready(o, "R")
             \/ /\ q[i] = <<o, "W">> /\ "W" \in interest[o]
                /\ Ready(o, "R") => i = 2 /\ q[1] = <<o, "R">>
  BY <1>1, PairCells
<1> HIDE DEF f, o, p, q
<1>6. /\ z \in Seq(Callback) /\ Len(z) = Len(p) + Len(q)
      /\ \A i \in 1..(Len(p) + Len(q)) : z[i] = IF i <= Len(p) THEN p[i] ELSE q[i - Len(p)]
  BY <1>3, ConcatProperties
<1> HIDE DEF z
<1>7. DOMAIN z = 1..(Len(p) + Len(q))
  BY <1>6, LenProperties
<1>8. \A i \in DOMAIN z :
        \/ i \in 1..Len(p) /\ z[i] = p[i]
        \/ i \in Int /\ i - Len(p) \in 1..Len(q) /\ z[i] = q[i - Len(p)]
  BY <1>3, <1>6, <1>7
<1>9. 1 \in 1..Len(p) => 1 \in DOMAIN z /\ z[1] = p[1]
  BY <1>3, <1>6, <1>7
<1>10. 1 \in 1..Len(q) => Len(p) + 1 \in DOMAIN z /\ z[Len(p) + 1] = q[1]
  <2> SUFFICES ASSUME 1 \in 1..Len(q)
               PROVE  Len(p) + 1 \in DOMAIN z /\ z[Len(p) + 1] = q[1]
    OBVIOUS
  <2> DEFINE k == Len(p) + 1
  <2>1. k \in 1..(Len(p) + Len(q)) /\ ~(k <= Len(p)) /\ k - Len(p) = 1
    BY <1>3
  <2> HIDE DEF k
  <2>2. z[k] = q[k - Len(p)]
    BY <1>6, <2>1
  <2>3. z[k] = q[1]
    BY <2>1, <2>2
  <2> QED
    BY <1>7, <2>1, <2>3 DEF k
<1>11. ASSUME NEW s \in Side, NEW i \in DOMAIN z, NEW j \in DOMAIN z,
              z[i] = <<s, "W">>, z[j] = <<s, "R">>
       PROVE  i = j + 1
  <2>1. CASE s = f
    <3>1. j \in 1..Len(p) /\ j = 1 /\ Ready(f, "R")
      BY <1>1, <1>4, <1>5, <1>8, <1>11, <2>1
    <3>2. i \in 1..Len(p) /\ p[i] = <<f, "W">>
      BY <1>1, <1>5, <1>8, <1>11, <2>1
    <3>3. i = 2
      BY <1>4, <3>1, <3>2
    <3> QED
      BY <3>1, <3>3
  <2>2. CASE s = o
    <3>1. j \in Int /\ j - Len(p) \in 1..Len(q) /\ j - Len(p) = 1 /\ Ready(o, "R")
      BY <1>1, <1>4, <1>5, <1>8, <1>11, <2>2
    <3>2. i \in Int /\ i - Len(p) \in 1..Len(q) /\ q[i - Len(p)] = <<o, "W">>
      BY <1>1, <1>4, <1>8, <1>11, <2>2
    <3>3. i - Len(p) = 2
      BY <1>5, <3>1, <3>2
    <3> QED
      BY <1>3, <3>1, <3>2, <3>3
  <2> QED
    BY <1>1, <2>1, <2>2
<1>12. ASSUME NEW s \in Side, NEW i \in DOMAIN z, z[i] = <<s, "W">>
       PROVE  "W" \in interest[s] /\ (Ready(s, "R") => i # 1 /\ z[i - 1] = <<s, "R">>)
  <2>1. CASE s = f
    <3>1. i \in 1..Len(p) /\ p[i] = <<f, "W">>
      BY <1>1, <1>5, <1>8, <1>12, <2>1
    <3>2. "W" \in interest[f] /\ (Ready(f, "R") => i = 2 /\ p[1] = <<f, "R">>)
      BY <1>4, <3>1
    <3>3. ASSUME Ready(f, "R") PROVE i # 1 /\ z[i - 1] = <<f, "R">>
      <4>1. i = 2 /\ 1 \in 1..Len(p) /\ i - 1 = 1
        BY <1>3, <3>1, <3>2, <3>3
      <4> QED
        BY <1>9, <3>2, <3>3, <4>1
    <3> QED
      BY <2>1, <3>2, <3>3
  <2>2. CASE s = o
    <3>1. i \in Int /\ i - Len(p) \in 1..Len(q) /\ q[i - Len(p)] = <<o, "W">>
      BY <1>1, <1>4, <1>8, <1>12, <2>2
    <3>2. "W" \in interest[o] /\ (Ready(o, "R") => i - Len(p) = 2 /\ q[1] = <<o, "R">>)
      BY <1>5, <3>1
    <3>3. ASSUME Ready(o, "R") PROVE i # 1 /\ z[i - 1] = <<o, "R">>
      <4>1. i - 1 = Len(p) + 1 /\ i # 1 /\ 1 \in 1..Len(q)
        BY <1>3, <3>1, <3>2, <3>3
      <4> QED
        BY <1>10, <3>2, <3>3, <4>1
    <3> QED
      BY <2>2, <3>2, <3>3
  <2> QED
    BY <1>1, <2>1, <2>2
<1>13. ReadBeforeWrite'
  BY <1>2, <1>11, Zenon DEF ReadBeforeWrite
<1> QED
  BY <1>2, <1>12, <1>13

LEMMA SelectFinished ==
  ASSUME IInv, FinishedInv, Select
  PROVE  FinishedInv'
<1>1. UNCHANGED <<interest, buf, closed, state>>
  BY DEF Select, record
<1>2. FinishedWaits'
  BY <1>1 DEF FinishedInv, FinishedWaits
<1>3. FinishedAreReadFirst'
  <2> SUFFICES ASSUME state = "FORWARDING", NEW s \in Side, closed[s],
                      NEW i \in DOMAIN todo', todo'[i] = <<s, "W">>
               PROVE  i # 1 /\ todo'[i - 1] = <<s, "R">>
    BY <1>1 DEF FinishedAreReadFirst
  <2>1. "W" \in interest[s]
    BY SelectOrder
  <2>2. "R" \in interest[s] /\ fin[s]
    BY <2>1 DEF FinishedInv, FinishedWaits, IInv, EofSeen
  <2>3. Ready(s, "R")
    BY <2>2 DEF Ready, CanRecv
  <2> QED
    BY <2>3, SelectOrder
<1> QED
  BY <1>2, <1>3, SelectOrder DEF FinishedInv

\* WRITE of a side whose end was read comes second, after its READ.
LEMMA TailFinished ==
  ASSUME IInv, FinishedInv, state = "FORWARDING", todo # <<>>, todo' = Tail(todo),
         NEW s \in Side, closed[s], NEW i \in DOMAIN todo', todo'[i] = <<s, "W">>
  PROVE  IF i = 1 THEN Head(todo) = <<s, "R">> ELSE todo'[i - 1] = <<s, "R">>
<1>1. /\ i + 1 \in DOMAIN todo /\ todo[i + 1] = <<s, "W">> /\ i \in Nat \ {0}
      /\ i # 1 /\ todo[i] = <<s, "R">> => todo'[i - 1] = <<s, "R">>
  BY TailOrder DEF FinishedInv
<1>2. i + 1 # 1 /\ (i + 1) - 1 = i
  BY <1>1
<1>3. todo[i] = <<s, "R">>
  BY <1>1, <1>2 DEF FinishedInv, FinishedAreReadFirst
<1>4. Head(todo) = todo[1]
  BY TailCells
<1> QED
  BY <1>1, <1>3, <1>4

LEMMA NotCalledFinished ==
  ASSUME IInv, FinishedInv, NotCalled
  PROVE  FinishedInv'
<1>1. todo # <<>> /\ todo' = Tail(todo) /\ UNCHANGED <<interest, buf, closed, state>>
  BY DEF NotCalled, record
<1>2. ReadBeforeWrite' /\ FinishedWaits'
  BY <1>1, TailOrder DEF FinishedInv, FinishedWaits
<1>3. FinishedAreReadFirst'
  <2> SUFFICES ASSUME state = "FORWARDING", NEW s \in Side, closed[s],
                      NEW i \in DOMAIN todo', todo'[i] = <<s, "W">>
               PROVE  IF i = 1 THEN interest[s] = {} ELSE todo'[i - 1] = <<s, "R">>
    BY <1>1 DEF FinishedAreReadFirst
  <2>1. IF i = 1 THEN Head(todo) = <<s, "R">> ELSE todo'[i - 1] = <<s, "R">>
    BY <1>1, TailFinished
  <2>2. ASSUME Head(todo) = <<s, "R">> PROVE interest[s] = {}
    <3>1. "R" \notin interest[s]
      BY <2>2 DEF NotCalled
    <3> QED
      BY <3>1 DEF FinishedInv, FinishedWaits
  <2> QED
    BY <2>1, <2>2
<1> QED
  BY <1>2, <1>3 DEF FinishedInv

\* Of the handlers of a side whose end was read only forward_read is called.
LEMMA CalledFinished ==
  ASSUME IInv, FinishedInv, NEW s \in Side, NEW op \in Op, Called(s, op),
         state = "FORWARDING", closed[s]
  PROVE  op = "R"
<1>1. interest[s] = {"R", "W"} /\ todo[1] = <<s, op>> /\ 1 \in DOMAIN todo
  BY TailCells DEF Called, FinishedInv, FinishedWaits
<1>2. op # "W"
  BY <1>1 DEF FinishedInv, FinishedAreReadFirst
<1> QED
  BY <1>2 DEF Op

\* A handler of a side whose end was not read, which stays in FORWARDING.
LEMMA StayFinished ==
  ASSUME IInv, FinishedInv, NEW s \in Side, NEW op \in Op, Called(s, op),
         state = "FORWARDING", ~closed[s],
         todo' = Tail(todo), closed' = closed, state' = state,
         interest'[Other(s)] = interest[Other(s)] \/ interest'[Other(s)] = {"R", "W"},
         B!CanWrite(buf[Other(s)]) => B!CanWrite(buf'[Other(s)])
  PROVE  FinishedInv'
<1>1. \A t \in Side : closed[t] => t = Other(s) /\ t # s
  BY SideFacts
<1>2. todo # <<>> /\ Head(todo) = <<s, op>>
  BY DEF Called
<1>3. FinishedWaits'
  BY <1>1 DEF FinishedInv, FinishedWaits
<1>4. FinishedAreReadFirst'
  <2> SUFFICES ASSUME NEW t \in Side, closed[t], NEW i \in DOMAIN todo', todo'[i] = <<t, "W">>
               PROVE  i # 1 /\ todo'[i - 1] = <<t, "R">>
    BY DEF FinishedAreReadFirst
  <2>1. IF i = 1 THEN Head(todo) = <<t, "R">> ELSE todo'[i - 1] = <<t, "R">>
    BY <1>2, TailFinished
  <2> QED
    BY <1>1, <1>2, <2>1
<1> QED
  BY <1>2, <1>3, <1>4, TailOrder DEF FinishedInv

\* A step out of FORWARDING.
LEMMA JumpFinished ==
  ASSUME IInv, FinishedInv, todo # <<>>, state' # "FORWARDING",
         todo' = Tail(todo) \/ todo' = <<>>
  PROVE  FinishedInv'
<1>1. ReadBeforeWrite'
  <2>1. CASE todo' = Tail(todo)
    BY <2>1, TailOrder DEF FinishedInv
  <2>2. CASE todo' = <<>>
    BY <2>2 DEF ReadBeforeWrite
  <2> QED
    BY <2>1, <2>2
<1> QED
  BY <1>1 DEF FinishedInv, FinishedWaits, FinishedAreReadFirst

LEMMA RecvEofFinished ==
  ASSUME IInv, FinishedInv, NEW s \in Side, RecvEof(s)
  PROVE  FinishedInv'
<1> DEFINE o == Other(s)
           c == [closed EXCEPT ![s] = TRUE]
<1>1. /\ Called(s, "R") /\ state = "FORWARDING" /\ "R" \in Op /\ B!CanWrite(buf[s])
      /\ todo # <<>> /\ Head(todo) = <<s, "R">>
  BY DEF RecvEof, Receiving, Reading, Called, Op
<1>2. o \in Side /\ o # s /\ \A t \in Side : t = s \/ t = o
  BY SideFacts
<1>3. CASE closed[o]
  <2>1. JumpDone(interest, buf, c)
    BY <1>3 DEF RecvEof
  <2>2. state' = "DONE" /\ (todo' = Tail(todo) \/ todo' = <<>>)
    BY <2>1 DEF JumpDone, EndConnection
  <2> QED
    BY <1>1, <2>2, JumpFinished
<1>4. CASE ~closed[o]
  <2>1. /\ interest' = [interest EXCEPT ![o] = {"W"}, ![s] = {}] /\ buf' = buf
        /\ closed' = c /\ todo' = Tail(todo) /\ state' = state
    BY <1>4 DEF RecvEof, Stay
  <2>2. interest'[s] = {} /\ \A t \in Side : c[t] => t = s
    BY <1>2, <1>4, <2>1 DEF IInv, TypeOK
  <2> HIDE DEF c
  <2>3. FinishedWaits'
    BY <1>1, <2>1, <2>2 DEF FinishedWaits
  <2>4. FinishedAreReadFirst'
    <3> SUFFICES ASSUME NEW i \in DOMAIN todo', todo'[i] = <<s, "W">> PROVE i = 1
      BY <2>1, <2>2 DEF FinishedAreReadFirst
    <3>1. todo[1] = <<s, "R">>
      BY <1>1, TailCells
    <3> QED
      BY <1>1, <2>1, <3>1, TailOrder DEF FinishedInv
  <2> QED
    BY <1>1, <2>1, <2>3, <2>4, TailOrder DEF FinishedInv
<1> QED
  BY <1>3, <1>4

LEMMA ReadingFinished ==
  ASSUME IInv, FinishedInv, NEW s \in Side, ReadFull(s) \/ RecvData(s) \/ RecvAgain(s)
  PROVE  FinishedInv'
<1>1. Called(s, "R") /\ state = "FORWARDING" /\ "R" \in Op
  BY DEF ReadFull, RecvData, RecvAgain, Receiving, Reading, Op
<1>2. Other(s) \in Side /\ Other(s) # s
  BY SideFacts
<1>3. ~closed[s]
  <2>1. CASE ReadFull(s)
    BY <1>1, <2>1 DEF ReadFull, FinishedInv, FinishedWaits
  <2>2. CASE RecvData(s)
    <3>1. Arrived(s) # 0
      BY <2>2 DEF RecvData
    <3>2. closed[s] => taken[s] = sent[s]
      BY <1>1 DEF IInv, EofSeen
    <3>3. taken[s] = sent[s] => Arrived(s) = 0
      <4>1. sent[s] \in Nat
        BY DEF IInv, TypeOK
      <4> QED
        BY <4>1 DEF Arrived
    <3> QED
      BY <3>1, <3>2, <3>3
  <2>3. CASE RecvAgain(s)
    BY <2>3 DEF RecvAgain
  <2> QED
    BY <2>1, <2>2, <2>3
<1>4. /\ todo' = Tail(todo) /\ closed' = closed /\ state' = state
      /\ buf'[Other(s)] = buf[Other(s)]
      /\ interest'[Other(s)] = interest[Other(s)] \/ interest'[Other(s)] = {"R", "W"}
  BY <1>2 DEF ReadFull, RecvData, RecvAgain, Stay, IInv, TypeOK
<1> QED
  BY <1>1, <1>3, <1>4, StayFinished

\* Sending on makes no less room.
LEMMA ReadAdvRoom ==
  ASSUME NEW x \in B!Buffers, NEW n \in 0..B!Readable(x), B!CanWrite(x)
  PROVE  B!CanWrite(B!ReadAdv(x, n))
BY ForwardingAssumption
   DEF B!Buffers, B!Readable, B!ReadAdv, B!Compact, B!CanWrite, B!WriteRoom

LEMMA WritingFinished ==
  ASSUME IInv, FinishedInv, NEW s \in Side, WriteNothing(s) \/ SendData(s) \/ SendAgain(s)
  PROVE  FinishedInv' /\ ~closed[s]
<1> DEFINE o == Other(s)
<1>1. Called(s, "W") /\ state = "FORWARDING" /\ "W" \in Op /\ todo # <<>>
  BY DEF WriteNothing, SendData, SendAgain, Sending, Writing, Called, Op
<1>2. o \in Side /\ o # s
  BY SideFacts
<1>3. ~closed[s]
  BY <1>1, CalledFinished
<1>4. CASE state' # "FORWARDING"
  <2>1. todo' = Tail(todo) \/ todo' = <<>>
    BY DEF WriteNothing, SendData, SendAgain, Stay, JumpDone, EndConnection
  <2> QED
    BY <1>1, <1>3, <1>4, <2>1, JumpFinished
<1>5. CASE state' = "FORWARDING"
  <2>1. CASE WriteNothing(s) \/ SendAgain(s)
    <3>1. /\ todo' = Tail(todo) /\ closed' = closed /\ buf' = buf
          /\ interest'[o] = interest[o]
      BY <1>2, <1>5, <2>1 DEF WriteNothing, SendAgain, Stay, JumpDone, IInv, TypeOK
    <3> QED
      BY <1>1, <1>3, <1>5, <3>1, StayFinished
  <2>2. CASE SendData(s)
    <3>1. PICK n \in 1..(Window - unread[s]) :
            /\ n <= B!Readable(buf[o])
            /\ LET b == [buf EXCEPT ![o] = B!ReadAdv(@, n)]
                   more == B!CanRead(b[o])
                   i == [interest EXCEPT ![s] = IF more THEN {"R", "W"} ELSE {"R"}]
               IN  IF Finished(closed, b) THEN JumpDone(i, b, closed) ELSE Stay(i, b, closed)
      BY <2>2 DEF SendData
    <3>2. /\ todo' = Tail(todo) /\ closed' = closed /\ interest'[o] = interest[o]
          /\ buf' = [buf EXCEPT ![o] = B!ReadAdv(@, n)]
      BY <1>2, <1>5, <3>1 DEF Stay, JumpDone, IInv, TypeOK
    <3>3. buf[o] \in B!Buffers /\ buf'[o] = B!ReadAdv(buf[o], n)
      BY <1>2, <3>2 DEF IInv, TypeOK
    <3>4. n \in 0..B!Readable(buf[o])
      BY <3>1, <3>3, BufferFacts
    <3>5. B!CanWrite(buf[o]) => B!CanWrite(buf'[o])
      BY <3>3, <3>4, ReadAdvRoom
    <3> QED
      BY <1>1, <1>3, <1>5, <3>2, <3>5, StayFinished
  <2> QED
    BY <2>1, <2>2
<1> QED
  BY <1>3, <1>4, <1>5

LEMMA ErrorFinished ==
  ASSUME IInv, FinishedInv, NEW s \in Side, RecvError(s) \/ SendError(s)
  PROVE  FinishedInv'
<1>1. /\ todo # <<>> /\ state' = "ERROR" /\ (todo' = Tail(todo) \/ todo' = <<>>)
  BY DEF RecvError, SendError, Receiving, Reading, Sending, Writing, Called, JumpError, EndConnection
<1> QED
  BY <1>1, JumpFinished

FinishedStep == \A s \in Side : closed[s] => out'[s] = out[s] /\ shut'[s] = shut[s]

LEMMA HandlerFinished ==
  ASSUME IInv, FinishedInv, NEW s \in Side, Handler(s)
  PROVE  FinishedInv' /\ FinishedStep
<1>1. CASE WriteNothing(s) \/ SendData(s) \/ SendAgain(s)
  <2>1. FinishedInv' /\ ~closed[s]
    BY <1>1, WritingFinished
  <2>2. \A t \in Side : t # s => out'[t] = out[t] /\ shut'[t] = shut[t]
    BY <1>1 DEF WriteNothing, SendData, SendAgain, IInv, TypeOK
  <2> QED
    BY <2>1, <2>2 DEF FinishedStep
<1>2. CASE ReadFull(s) \/ RecvData(s) \/ RecvAgain(s) \/ RecvEof(s) \/ RecvError(s) \/ SendError(s)
  <2>1. FinishedInv'
    BY <1>2, ReadingFinished, RecvEofFinished, ErrorFinished
  <2>2. UNCHANGED <<out, shut>>
    BY <1>2 DEF ReadFull, RecvData, RecvAgain, RecvEof, RecvError, SendError
  <2> QED
    BY <2>1, <2>2 DEF FinishedStep
<1> QED
  BY <1>1, <1>2 DEF Handler

LEMMA NextFinished == IInv /\ FinishedInv /\ [Next]_vars => FinishedInv' /\ FinishedStep
<1> SUFFICES ASSUME IInv, FinishedInv, [Next]_vars PROVE FinishedInv' /\ FinishedStep
  OBVIOUS
<1>1. CASE UNCHANGED <<todo, interest, buf, closed, state, out, shut>>
  BY <1>1 DEF FinishedInv, ReadBeforeWrite, FinishedWaits, FinishedAreReadFirst, FinishedStep
<1>2. ASSUME NEW s \in Side, Peer(s) PROVE FinishedInv' /\ FinishedStep
  BY <1>1, <1>2 DEF Peer, PeerSend, PeerFinish, PeerReset, PeerRead, record
<1>3. CASE Select
  BY <1>3, SelectFinished DEF FinishedStep, Select
<1>4. CASE NotCalled
  BY <1>4, NotCalledFinished DEF FinishedStep, NotCalled
<1>5. CASE Abort
  BY <1>1, <1>5 DEF Abort, record
<1>6. CASE UNCHANGED vars
  BY <1>1, <1>6 DEF vars
<1> QED
  BY <1>2, <1>3, <1>4, <1>5, <1>6, HandlerFinished DEF Next, Loop

LEMMA InitFinished == Init => FinishedInv
BY DEF Init, FinishedInv, ReadBeforeWrite, FinishedWaits, FinishedAreReadFirst

\* Once the end of a side was read nothing more is sent to it, in whatever order
\* the callbacks of the two sides are served: whoever finishes first receives
\* nothing from then on.
THEOREM FinishedAreForgotten == Spec => FinishedGetNothing
<1>1. IInv /\ FinishedInv /\ [Next]_vars => FinishedInv' /\ FinishedStep
  BY NextFinished
<1>2. FinishedStep => [\A s \in Side : closed[s] => out'[s] = out[s] /\ shut'[s] = shut[s]]_vars
  BY DEF FinishedStep
<1> QED
  BY <1>1, <1>2, InitFinished, InductiveInvariant, PTL DEF Spec, FinishedGetNothing
=============================================================================
