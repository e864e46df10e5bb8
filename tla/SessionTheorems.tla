-------------------------- MODULE SessionTheorems --------------------------
(***************************************************************************)
(* The life of the proxied sessions for any number of records, descriptors *)
(* and addresses, and whatever an administrator does: proofs.              *)
(***************************************************************************)
EXTENDS Session, CommonLemmas, FiniteSetTheorems, SequenceTheorems

Record == [phase : {"unborn", "live", "freed"}, state : State,
           cfd : Fd \cup {NoFd}, dfd : Fd \cup {NoFd},
           method : Supported \cup {NoMethod}, login : BOOLEAN,
           dns : {"none", "pending", "ready", "failed"}, addrs : 0..MaxAddrs,
           reply : Reply, err : {0, 1, 3, 4},
           told : Seq({"method", "auth", "reply"} \X (Reply \cup Method \cup {NoMethod}))]
Socket == {"free", "up", "connecting", "refused"}
Item   == [data : Session \cup {Nobody}, interest : SUBSET Op]

\* What a client was told before and after it was admitted, and once its
\* request was answered with c.
Negotiated   == {<< <<"method", m>> >> : m \in {2, NoMethod}}
Admission(l) == {<< <<"method", 0>> >>}
                \cup IF l THEN {<< <<"method", m>>, <<"auth", 0>> >> : m \in {2, NoMethod}} ELSE {}
Answer(l, c) == {Append(t, <<"reply", c>>) : t \in Admission(l)}

\* RepliesInOrder and Authenticated, of a record's messages.
InOrder(t) ==
  /\ Len(t) > 0 => t[1][1] = "method"
  /\ Len(t) > 1 => t[2][1] = IF t[1][2] = 0 THEN "reply" ELSE "auth"
  /\ Len(t) > 2 => t[1][2] # 0 /\ t[2][2] = 0 /\ t[3][1] = "reply"
  /\ Len(t) <= 3
Admitted(t, l) == \/ Len(t) > 0 /\ t[1] = <<"method", 0>>
                  \/ Len(t) > 1 /\ t[2] = <<"auth", 0>> /\ l

Early  == {"HELLO_READ", "HELLO_WRITE"}
Middle == {"AUTH_READ", "AUTH_WRITE"}
Asking == {"REQUEST_READ", "DNS_LOOKUP", "DEST_CONNECT", "REQUEST_WRITE"}
Final  == {"FORWARDING", "DONE"}
Late   == {"DEST_CONNECT", "REQUEST_WRITE", "FORWARDING", "DONE"}
Reading == {"HELLO_READ", "AUTH_READ", "REQUEST_READ"}
Writing == {"HELLO_WRITE", "AUTH_WRITE", "DNS_LOOKUP", "DEST_CONNECT", "REQUEST_WRITE"}

\* What a live session has gone through, by the state it is in.
Lived(r) ==
  /\ r.cfd \in Fd /\ r.cfd # r.dfd /\ r.state # "ERROR"
  /\ r.state \in Early => r.told = <<>>
  /\ r.state \in Middle => r.told \in Negotiated
  /\ r.state \in Asking => r.told \in Admission(r.login)
  /\ r.state \in Final => r.told \in Answer(r.login, 0)
  /\ r.state \notin Late => r.dfd = NoFd
  /\ r.state # "DNS_LOOKUP" => r.dns = "none"

Ended(r) == /\ r.cfd = NoFd /\ r.dfd = NoFd /\ r.dns = "none"
            /\ r.state \in {"DONE", "ERROR"} /\ InOrder(r.told)

RecordInv(r) == /\ r.phase = "unborn" => r = Unborn
                /\ r.phase = "live" => Lived(r)
                /\ r.phase = "freed" => Ended(r)

\* The interests of a session's own descriptors are those its state handles.
Watched(r, it) ==
  /\ r.state \in Reading => it[r.cfd].interest = {"R"}
  /\ r.state \in Writing => /\ it[r.cfd].interest = {"W"}
                            /\ r.dfd # NoFd => it[r.dfd].interest = {"W"}

\* A live session holds the sockets and the items of its descriptors.
Holds(s, r, k, it) ==
  /\ k[r.cfd] # "free" /\ it[r.cfd].data = s
  /\ r.dfd # NoFd => k[r.dfd] # "free" /\ it[r.dfd].data = s

\* An item nobody owns was left by a second attempt to connect.
LeftBy(r, i) == /\ i.interest = {"W"} /\ Admitted(r.told, r.login)
                /\ r.phase = "live" => r.state \in Late

FdInv(f) == /\ item[f].data = Nobody => item[f] = Unused /\ sock[f] = "free"
            /\ sock[f] # "free" => Owns(item[f].data, f)
            /\ item[f].data # Nobody /\ ~Owns(item[f].data, f) => LeftBy(ses[item[f].data], item[f])

LiveOnes == {s \in Session : Live(s)}
Born     == {s \in Session : ses[s].phase # "unborn"}

Counted == /\ IsFiniteSet(Born)
           /\ current = Cardinality(LiveOnes) /\ historic = Cardinality(Born)

Stopped == /\ status = "aborted" => \E s \in Session : Live(s) /\ ses[s].state = "DONE"
           /\ status = "dangling" => \E f \in Fd : Stale(f)

IInv ==
  /\ ses \in [Session -> Record]
  /\ sock \in [Fd -> Socket] /\ item \in [Fd -> Item]
  /\ todo \in SUBSET (Fd \X Op) /\ accepted \in SUBSET Supported
  /\ status \in {"running", "dangling", "aborted", "exited"}
  /\ \A s \in Session : RecordInv(ses[s])
  /\ \A s \in Session : Live(s) => Watched(ses[s], item) /\ Holds(s, ses[s], sock, item)
  /\ \A f \in Fd : FdInv(f)
  /\ Counted
  /\ Stopped
-----------------------------------------------------------------------------
(* What the client was told.                                               *)

Message == {"method", "auth", "reply"} \X (Reply \cup Method \cup {NoMethod})

\* What the client can be told is a message.
LEMMA MessageTypes ==
  /\ \A m \in {0, 2, NoMethod} : <<"method", m>> \in Message
  /\ \A c \in {0, 1} : <<"auth", c>> \in Message
  /\ \A c \in Reply : <<"reply", c>> \in Message
BY DEF Message, Reply, Method, Supported, NoMethod

\* A conversation of one, two or three messages.
LEMMA OneMessage ==
  ASSUME NEW a \in Message
  PROVE  /\ Append(<<>>, a) = <<a>> /\ <<a>> \in Seq(Message)
         /\ Len(<<a>>) = 1 /\ <<a>>[1] = a /\ <<a>> # <<>>
OBVIOUS

LEMMA TwoMessages ==
  ASSUME NEW a \in Message, NEW b \in Message
  PROVE  /\ Append(<<a>>, b) = <<a, b>> /\ <<a, b>> \in Seq(Message)
         /\ Len(<<a, b>>) = 2 /\ <<a, b>>[1] = a /\ <<a, b>>[2] = b /\ <<a, b>> # <<>>
<1> DEFINE s == Append(<<a>>, b)
           t == <<a, b>>
<1>1. t \in Seq(Message) /\ Len(t) = 2 /\ t[1] = a /\ t[2] = b /\ t # <<>>
  OBVIOUS
<1>2. s \in Seq(Message) /\ Len(s) = 2 /\ s[1] = a /\ s[2] = b
  BY OneMessage
<1> HIDE DEF s, t
<1>3. \A i \in 1..Len(s) : i = 1 \/ i = 2
  BY <1>2
<1>4. s = t
  BY <1>1, <1>2, <1>3, SeqEqual
<1> QED
  BY <1>1, <1>4 DEF s, t

LEMMA ThreeMessages ==
  ASSUME NEW a \in Message, NEW b \in Message, NEW c \in Message
  PROVE  /\ Append(<<a, b>>, c) = <<a, b, c>> /\ <<a, b, c>> \in Seq(Message)
         /\ Len(<<a, b, c>>) = 3 /\ <<a, b, c>> # <<>>
         /\ <<a, b, c>>[1] = a /\ <<a, b, c>>[2] = b /\ <<a, b, c>>[3] = c
<1> DEFINE s == Append(<<a, b>>, c)
           t == <<a, b, c>>
<1>1. /\ t \in Seq(Message) /\ Len(t) = 3 /\ t # <<>>
      /\ t[1] = a /\ t[2] = b /\ t[3] = c
  OBVIOUS
<1>2. s \in Seq(Message) /\ Len(s) = 3 /\ s[1] = a /\ s[2] = b /\ s[3] = c
  BY TwoMessages
<1> HIDE DEF s, t
<1>3. \A i \in 1..Len(s) : i = 1 \/ i = 2 \/ i = 3
  BY <1>2
<1>4. s = t
  BY <1>1, <1>2, <1>3, SeqEqual
<1> QED
  BY <1>1, <1>4 DEF s, t

\* The first message tells the method; the next one follows from it.
LEMMA AfterMethod ==
  ASSUME NEW m \in {0, 2, NoMethod}, NEW l
  PROVE  /\ Append(<<>>, <<"method", m>>) \in Seq(Message)
         /\ m = 0 => Append(<<>>, <<"method", m>>) \in Admission(l)
         /\ m # 0 => Append(<<>>, <<"method", m>>) \in Negotiated
<1> DEFINE a == <<"method", m>>
<1>1. a \in Message
  BY MessageTypes
<1> HIDE DEF a
<1>2. Append(<<>>, a) = <<a>> /\ <<a>> \in Seq(Message)
  BY <1>1, OneMessage
<1>3. m # 0 => m \in {2, NoMethod}
  OBVIOUS
<1> QED
  BY <1>2, <1>3, Zenon DEF a, Admission, Negotiated

\* A client that was told the method is told whether it logged in.
LEMMA AfterAuth ==
  ASSUME NEW t \in Negotiated, NEW l \in BOOLEAN
  PROVE  LET u == Append(t, <<"auth", IF l THEN 0 ELSE 1>>) IN
         /\ u \in Seq(Message) /\ InOrder(u)
         /\ l => u \in Admission(l)
<1> DEFINE c == IF l THEN 0 ELSE 1
           b == <<"auth", c>>
<1>1. PICK m \in {2, NoMethod} : t = << <<"method", m>> >>
  BY DEF Negotiated
<1> DEFINE a == <<"method", m>>
<1>2. a \in Message /\ b \in Message
  BY MessageTypes DEF NoMethod
<1>3. a[1] = "method" /\ a[2] # 0 /\ b[1] = "auth"
  BY DEF NoMethod
<1>4. t = <<a>>
  BY <1>1
<1>5. l => b = <<"auth", 0>>
  OBVIOUS
<1>6. l => <<a, b>> \in Admission(l)
  BY <1>5, Zenon DEF Admission
<1> HIDE DEF a, b
<1>7. Append(t, b) = <<a, b>> /\ <<a, b>> \in Seq(Message) /\ Len(<<a, b>>) = 2
      /\ <<a, b>>[1] = a /\ <<a, b>>[2] = b
  BY <1>2, <1>4, TwoMessages
<1>8. InOrder(<<a, b>>)
  BY <1>3, <1>7 DEF InOrder
<1> QED
  BY <1>6, <1>7, <1>8, Zenon DEF b, c

\* An admitted client is told the reply to its request, and nothing else.
LEMMA AfterReply ==
  ASSUME NEW l \in BOOLEAN, NEW t \in Admission(l), NEW c \in Reply
  PROVE  LET u == Append(t, <<"reply", c>>) IN
         /\ u \in Seq(Message) /\ InOrder(u) /\ Admitted(u, l) /\ u \in Answer(l, c)
         /\ u # <<>> /\ u[Len(u)] = <<"reply", c>>
         /\ Len(u) = IF u[1] = <<"method", 0>> THEN 2 ELSE 3
<1> DEFINE d == <<"reply", c>>
<1>0. d \in Message /\ d[1] = "reply"
  BY MessageTypes
<1>a. Append(t, d) \in Answer(l, c)
  BY Zenon DEF Answer
<1>1. CASE t = << <<"method", 0>> >>
  <2> DEFINE a == <<"method", 0>>
  <2>1. a \in Message /\ a[1] = "method" /\ a[2] = 0
    BY MessageTypes
  <2>2. t = <<a>>
    BY <1>1
  <2> HIDE DEF d
  <2>3. /\ Append(t, d) = <<a, d>> /\ <<a, d>> \in Seq(Message) /\ Len(<<a, d>>) = 2
        /\ <<a, d>>[1] = a /\ <<a, d>>[2] = d /\ <<a, d>> # <<>>
    BY <1>0, <2>1, <2>2, TwoMessages
  <2>4. InOrder(<<a, d>>) /\ Admitted(<<a, d>>, l)
    BY <1>0, <2>1, <2>3 DEF InOrder, Admitted
  <2> QED
    BY <1>a, <2>3, <2>4 DEF d
<1>2. CASE t # << <<"method", 0>> >>
  <2>1. PICK m \in {2, NoMethod} : l /\ t = << <<"method", m>>, <<"auth", 0>> >>
    BY <1>2 DEF Admission
  <2> DEFINE a == <<"method", m>>
             b == <<"auth", 0>>
  <2>2. a \in Message /\ b \in Message /\ a[1] = "method" /\ a[2] # 0 /\ b[1] = "auth" /\ b[2] = 0
        /\ a # <<"method", 0>> /\ b = <<"auth", 0>>
    BY MessageTypes DEF NoMethod
  <2>3. t = <<a, b>>
    BY <2>1
  <2> HIDE DEF d, a, b
  <2>4. /\ Append(t, d) = <<a, b, d>> /\ <<a, b, d>> \in Seq(Message) /\ Len(<<a, b, d>>) = 3
        /\ <<a, b, d>>[1] = a /\ <<a, b, d>>[2] = b /\ <<a, b, d>>[3] = d /\ <<a, b, d>> # <<>>
    BY <1>0, <2>2, <2>3, ThreeMessages
  <2>5. InOrder(<<a, b, d>>) /\ Admitted(<<a, b, d>>, l)
    BY <1>0, <2>1, <2>2, <2>4 DEF InOrder, Admitted
  <2> QED
    BY <1>a, <2>2, <2>4, <2>5 DEF d
<1> QED
  BY <1>1, <1>2

\* What holds of a client that was admitted, was told the method, or nothing.
LEMMA Beginnings ==
  /\ <<>> \in Seq(Message) /\ InOrder(<<>>)
  /\ \A t \in Negotiated : t \in Seq(Message) /\ InOrder(t)
  /\ \A l \in BOOLEAN : \A t \in Admission(l) :
       t \in Seq(Message) /\ InOrder(t) /\ Admitted(t, l)
<1>1. <<>> \in Seq(Message) /\ InOrder(<<>>)
  BY DEF InOrder
<1>2. ASSUME NEW m \in {0, 2, NoMethod}
      PROVE  /\ << <<"method", m>> >> \in Seq(Message) /\ InOrder(<< <<"method", m>> >>)
             /\ m = 0 => \A l : Admitted(<< <<"method", m>> >>, l)
  <2> DEFINE a == <<"method", m>>
  <2>1. a \in Message /\ a[1] = "method" /\ (m = 0 => a = <<"method", 0>>)
    BY MessageTypes
  <2> HIDE DEF a
  <2>2. <<a>> \in Seq(Message) /\ Len(<<a>>) = 1 /\ <<a>>[1] = a
    BY <2>1, OneMessage
  <2>3. InOrder(<<a>>)
    BY <2>1, <2>2 DEF InOrder
  <2>4. m = 0 => \A l : Admitted(<<a>>, l)
    BY <2>1, <2>2 DEF Admitted
  <2> QED
    BY <2>2, <2>3, <2>4 DEF a
<1>3. ASSUME NEW t \in Negotiated PROVE t \in Seq(Message) /\ InOrder(t)
  BY <1>2 DEF Negotiated
<1>4. ASSUME NEW l \in BOOLEAN, NEW t \in Admission(l)
      PROVE  t \in Seq(Message) /\ InOrder(t) /\ Admitted(t, l)
  <2>1. CASE t = << <<"method", 0>> >>
    BY <1>2, <2>1
  <2>2. CASE t # << <<"method", 0>> >>
    <3>1. PICK m \in {2, NoMethod} : l /\ t = << <<"method", m>>, <<"auth", 0>> >>
      BY <2>2 DEF Admission
    <3>2. << <<"method", m>> >> \in Negotiated
      BY DEF Negotiated
    <3>3. /\ Append(<< <<"method", m>> >>, <<"auth", 0>>) \in Seq(Message)
          /\ InOrder(Append(<< <<"method", m>> >>, <<"auth", 0>>))
      BY <3>1, <3>2, AfterAuth
    <3> DEFINE a == <<"method", m>>
               b == <<"auth", 0>>
    <3>4. a \in Message /\ b \in Message
      BY MessageTypes
    <3>5. t = <<a, b>>
      BY <3>1
    <3>6. Append(<<a>>, b) \in Seq(Message) /\ InOrder(Append(<<a>>, b))
      BY <3>3
    <3>7. b = <<"auth", 0>>
      OBVIOUS
    <3> HIDE DEF a, b
    <3>8. t = Append(<<a>>, b) /\ Len(t) = 2 /\ t[2] = b
      BY <3>4, <3>5, TwoMessages
    <3>9. Admitted(t, l)
      BY <3>1, <3>7, <3>8 DEF Admitted
    <3> QED
      BY <3>6, <3>8, <3>9
  <2> QED
    BY <2>1, <2>2
<1> QED
  BY <1>1, <1>3, <1>4
-----------------------------------------------------------------------------
(* The invariant, over the steps of one session.                           *)

\* No client yet: no descriptor is open and no item is used.
LEMMA InitInv == Init => IInv
<1> SUFFICES ASSUME Init PROVE IInv
  OBVIOUS
<1>1. \A s \in Session : ses[s] = Unborn
  BY DEF Init
<1>2. Unborn \in Record
  <2>1. <<>> \in Seq(Message)
    BY Beginnings
  <2>2. MaxAddrs \in Nat
    BY SessionAssumption
  <2> QED
    BY <2>1, <2>2 DEF Record, Unborn, NoFd, NoMethod, State, Readers, Writers, Reply, Message
<1>3. Unused \in Item
  BY DEF Unused, Item
<1>4. Unborn.phase = "unborn"
  BY DEF Unborn
<1>5. /\ ses \in [Session -> Record] /\ sock \in [Fd -> Socket] /\ item \in [Fd -> Item]
      /\ todo \in SUBSET (Fd \X Op) /\ accepted \in SUBSET Supported
      /\ status = "running"
  BY <1>2, <1>3 DEF Init, Socket, Supported
<1>6. \A s \in Session : RecordInv(ses[s]) /\ ~Live(s)
  BY <1>1, <1>4 DEF RecordInv, Live
<1>7. \A f \in Fd : FdInv(f)
  BY DEF Init, FdInv, Unused
<1>8. Counted
  <2>1. LiveOnes = {} /\ Born = {}
    BY <1>1, <1>4, <1>6 DEF LiveOnes, Born
  <2> QED
    BY <2>1, FS_EmptySet DEF Init, Counted
<1> QED
  BY <1>5, <1>6, <1>7, <1>8 DEF IInv, Stopped

\* Two sessions share no descriptor; what a session owns is open.
LEMMA Ownership ==
  ASSUME IInv
  PROVE  /\ \A s \in Session, f \in Fd : Owns(s, f) => item[f].data = s /\ sock[f] # "free"
         /\ \A f \in Fd : sock[f] # "free" => item[f].data \in Session /\ Owns(item[f].data, f)
         /\ \A s \in Session : Live(s) => ses[s].cfd \in Fd /\ ses[s].dfd \in Fd \cup {NoFd}
                                          /\ ses[s].cfd # ses[s].dfd /\ Owns(s, ses[s].cfd)
<1>1. \A s \in Session : Live(s) => Holds(s, ses[s], sock, item) /\ Lived(ses[s]) /\ ses[s] \in Record
  BY DEF IInv, RecordInv, Live
<1>2. NoFd \notin Fd
  BY DEF NoFd, Fd
<1>3. \A f \in Fd : FdInv(f) /\ item[f] \in Item
  BY DEF IInv
<1>4. \A s \in Session, f \in Fd : Owns(s, f) => item[f].data = s /\ sock[f] # "free"
  BY <1>1, <1>2 DEF Owns, Holds
<1>5. \A f \in Fd : sock[f] # "free" => item[f].data \in Session /\ Owns(item[f].data, f)
  BY <1>3 DEF FdInv, Item
<1>6. \A s \in Session : Live(s) => ses[s].cfd \in Fd /\ ses[s].dfd \in Fd \cup {NoFd}
                                   /\ ses[s].cfd # ses[s].dfd /\ Owns(s, ses[s].cfd)
  BY <1>1 DEF Lived, Record, Owns
<1> QED
  BY <1>4, <1>5, <1>6

\* The numbers of sessions, when those of a step are known.
LEMMA SameCount ==
  ASSUME IInv, \A t \in Session : Live(t)' <=> Live(t),
         \A t \in Session : ses'[t].phase # "unborn" <=> ses[t].phase # "unborn",
         UNCHANGED <<current, historic>>
  PROVE  Counted'
<1>1. LiveOnes' = LiveOnes /\ Born' = Born
  BY DEF LiveOnes, Born
<1> QED
  BY <1>1 DEF IInv, Counted

\* The handler goes on: the record and the interests of its two descriptors
\* change, and nothing else.
LEMMA ContinueKeeps ==
  ASSUME IInv, status = "running",
         NEW s \in Session, NEW f \in Fd, NEW op \in Op, Live(s),
         NEW r \in Record, NEW it \in [Fd -> Item],
         r.phase = "live", r.cfd = ses[s].cfd, r.dfd = ses[s].dfd, Lived(r), Watched(r, it),
         Admitted(ses[s].told, ses[s].login) => Admitted(r.told, r.login),
         ses[s].state \in Late => r.state \in Late,
         \A g \in Fd : it[g].data = item[g].data,
         \A g \in Fd \ {r.cfd, r.dfd} : it[g] = item[g],
         Continue(s, f, op, r, it)
  PROVE  IInv'
<1>1. /\ ses' = [ses EXCEPT ![s] = r] /\ sock' = sock /\ item' = it
      /\ todo' = todo \ {<<f, op>>} /\ UNCHANGED <<accepted, status, current, historic>>
  BY DEF Continue, Return
<1>2. /\ ses' \in [Session -> Record] /\ sock' \in [Fd -> Socket] /\ item' \in [Fd -> Item]
      /\ todo' \in SUBSET (Fd \X Op) /\ accepted' \in SUBSET Supported /\ status' = "running"
  BY <1>1 DEF IInv
<1>3. ses'[s] = r /\ \A t \in Session \ {s} : ses'[t] = ses[t]
  BY <1>1 DEF IInv
<1>4. \A t \in Session : (Live(t)' <=> Live(t)) /\ (\A g \in Fd : Owns(t, g)' <=> Owns(t, g))
  BY <1>3 DEF Live, Owns
<1>5. \A t \in Session : RecordInv(ses'[t])
  BY <1>3 DEF IInv, RecordInv
<1>6. ASSUME NEW t \in Session, Live(t)'
      PROVE  Watched(ses'[t], item') /\ Holds(t, ses'[t], sock', item')
  <2>1. Watched(ses[t], item) /\ Holds(t, ses[t], sock, item)
    BY <1>4, <1>6 DEF IInv
  <2>2. Holds(t, ses'[t], sock', item')
    BY <1>1, <1>3, <1>4, <1>6, <2>1, Ownership DEF Holds
  <2>3. CASE t = s
    BY <1>1, <1>3, <2>2, <2>3
  <2>4. CASE t # s
    <3>1. item[ses[t].cfd].data = t /\ (ses[t].dfd # NoFd => item[ses[t].dfd].data = t)
      BY <2>1 DEF Holds
    <3>2. item[r.cfd].data = s /\ (r.dfd # NoFd => item[r.dfd].data = s)
      BY DEF IInv, Holds
    <3>3. ses[t].cfd \in Fd /\ ses[t].dfd \in Fd \cup {NoFd} /\ r.dfd \in Fd \cup {NoFd} /\ NoFd \notin Fd
      BY <1>4, <1>6, Ownership DEF NoFd, Fd
    <3>4. it[ses[t].cfd] = item[ses[t].cfd] /\ (ses[t].dfd # NoFd => it[ses[t].dfd] = item[ses[t].dfd])
      BY <2>4, <3>1, <3>2, <3>3
    <3> QED
      BY <1>1, <1>3, <2>1, <2>2, <2>4, <3>4 DEF Watched
  <2> QED
    BY <2>3, <2>4
<1>7. ASSUME NEW g \in Fd PROVE FdInv(g)'
  <2>1. FdInv(g) /\ item[g] \in Item /\ it[g] \in Item /\ it[g].data = item[g].data
    BY DEF IInv
  <2>0. item'[g].data = item[g].data /\ item'[g] = it[g]
    BY <1>1, <2>1
  <2>2. item[g].data = Nobody => it[g] = Unused /\ sock[g] = "free"
    <3>1. item[r.cfd].data = s /\ (r.dfd # NoFd => item[r.dfd].data = s) /\ NoFd \notin Fd
      BY DEF IInv, Holds, NoFd, Fd
    <3>2. Nobody # s
      BY SessionAssumption
    <3> QED
      BY <2>1, <3>1, <3>2 DEF FdInv
  <2>3. sock[g] # "free" => Owns(item[g].data, g)'
    BY <1>3, <2>0, Ownership DEF Owns, Live
  <2>4. ASSUME item[g].data # Nobody, ~Owns(item[g].data, g)'
        PROVE  LeftBy(ses'[item[g].data], it[g])
    <3>1. item[g].data \in Session
      BY <2>1, <2>4 DEF Item
    <3>0. ~Owns(item[g].data, g)
      BY <1>3, <2>0, <2>4, <3>1 DEF Owns, Live
    <3>2. LeftBy(ses[item[g].data], item[g]) /\ ~Owns(item[g].data, g)
      BY <2>1, <2>4, <3>0 DEF FdInv
    <3>3. it[g] = item[g]
      <4>1. item[g].data = s => g \notin {r.cfd, r.dfd}
        BY <3>2 DEF Owns
      <4>2. item[g].data # s => ~Owns(s, g)
        BY Ownership
      <4> QED
        BY <4>1, <4>2 DEF Owns
    <3> QED
      BY <1>3, <3>1, <3>2, <3>3 DEF LeftBy, Live
  <2> QED
    BY <1>1, <2>1, <2>2, <2>3, <2>4 DEF FdInv
<1>8. Counted'
  BY <1>1, <1>3, <1>4, SameCount DEF Live
<1> QED
  BY <1>2, <1>5, <1>6, <1>7, <1>8 DEF IInv, Stopped

\* What end_connection leaves of the tables.
LEMMA ClosedTables ==
  ASSUME NEW k \in [Fd -> Socket], NEW it \in [Fd -> Item],
         NEW c \in Fd, NEW d \in Fd \cup {NoFd}
  PROVE  /\ Close(Close(k, c), d) \in [Fd -> Socket]
         /\ \A g \in Fd : Close(Close(k, c), d)[g] = IF g \in {c, d} THEN "free" ELSE k[g]
         /\ Unregister(Unregister(it, c), d) \in [Fd -> Item]
         /\ \A g \in Fd : Unregister(Unregister(it, c), d)[g] = IF g \in {c, d} THEN Unused ELSE it[g]
<1>1. "free" \in Socket /\ Unused \in Item /\ NoFd \notin Fd
  BY DEF Socket, Unused, Item, NoFd, Fd
<1>2. Close(k, c) = [k EXCEPT ![c] = "free"] /\ Unregister(it, c) = [it EXCEPT ![c] = Unused]
  BY <1>1 DEF Close, Unregister
<1> QED
  BY <1>1, <1>2 DEF Close, Unregister

\* end_connection: the record is freed, its descriptors are free again.
LEMMA DestroyKeeps ==
  ASSUME IInv, status = "running",
         NEW s \in Session, NEW f \in Fd, NEW op \in Op, Live(s),
         NEW r \in Record, NEW k \in [Fd -> Socket],
         r.cfd = ses[s].cfd, r.state \in {"DONE", "ERROR"}, InOrder(r.told), r.dns # "pending",
         Admitted(ses[s].told, ses[s].login) => Admitted(r.told, r.login),
         \/ r.dfd = ses[s].dfd /\ k = sock
         \/ /\ r.dfd = NoFd /\ k = LeftSockets(s)
            /\ ses[s].state = "DEST_CONNECT" /\ Admitted(r.told, r.login),
         Destroy(s, f, op, r, k, item)
  PROVE  IInv'
<1> DEFINE q == ses'[s]
           c == ses[s].cfd
           d == ses[s].dfd
<1>0. /\ ses \in [Session -> Record] /\ sock \in [Fd -> Socket] /\ item \in [Fd -> Item]
      /\ c \in Fd /\ d \in Fd \cup {NoFd} /\ r.dfd \in Fd \cup {NoFd} /\ NoFd \notin Fd
      /\ s # Nobody /\ c # d
  BY Ownership, SessionAssumption DEF IInv, Record, NoFd, Fd
<1>1. /\ sock' = Close(Close(k, c), r.dfd)
      /\ item' = Unregister(Unregister(item, c), r.dfd)
      /\ todo' = todo \ {<<f, op>>} /\ UNCHANGED <<accepted, status, historic>>
      /\ current' = IF item[c] # Unused THEN current - 1 ELSE current
  BY DEF Destroy, Return
<1>2. /\ sock' \in [Fd -> Socket] /\ item' \in [Fd -> Item]
      /\ \A g \in Fd : sock'[g] = IF g \in {c, r.dfd} THEN "free" ELSE k[g]
      /\ \A g \in Fd : item'[g] = IF g \in {c, r.dfd} THEN Unused ELSE item[g]
  <2>1. c \in Fd /\ r.dfd \in Fd \cup {NoFd} /\ k \in [Fd -> Socket] /\ item \in [Fd -> Item]
    BY <1>0
  <2> HIDE DEF c
  <2> QED
    BY <1>1, <2>1, ClosedTables
<1>3. \A g \in Fd : sock'[g] = IF g \in {c, d} THEN "free" ELSE sock[g]
  BY <1>0, <1>2 DEF LeftSockets, Close
<1>4. /\ ses' \in [Session -> Record] /\ \A t \in Session \ {s} : ses'[t] = ses[t]
      /\ q.phase = "freed" /\ q.cfd = NoFd /\ q.dfd = NoFd /\ q.dns = "none"
      /\ q.state = r.state /\ q.told = r.told /\ q.login = r.login
  <2> DEFINE e == [r EXCEPT !.phase = "freed", !.cfd = NoFd, !.dfd = NoFd, !.addrs = 0,
                            !.dns = IF @ = "pending" THEN @ ELSE "none"]
  <2>1. ses' = [ses EXCEPT ![s] = e]
    BY DEF Destroy, Return
  <2>2. /\ e \in Record /\ e.phase = "freed" /\ e.cfd = NoFd /\ e.dfd = NoFd /\ e.dns = "none"
        /\ e.state = r.state /\ e.told = r.told /\ e.login = r.login
    <3>1. 0 \in 0..MaxAddrs
      BY SessionAssumption
    <3>2. e = [r EXCEPT !.phase = "freed", !.cfd = NoFd, !.dfd = NoFd, !.addrs = 0, !.dns = "none"]
      BY DEF Record
    <3> HIDE DEF e
    <3> QED
      BY <3>1, <3>2 DEF Record
  <2> HIDE DEF e
  <2> QED
    BY <1>0, <2>1, <2>2
<1> HIDE DEF q
<1>5. /\ todo' \in SUBSET (Fd \X Op) /\ accepted' \in SUBSET Supported /\ status' = "running"
  BY <1>1 DEF IInv
<1>6. \A t \in Session \ {s} : /\ Live(t)' <=> Live(t)
                              /\ \A g \in Fd : Owns(t, g)' <=> Owns(t, g)
  BY <1>4 DEF Live, Owns
<1>7. ~Live(s)' /\ \A g \in Fd : ~Owns(s, g)'
  BY <1>4 DEF Live, Owns, q
<1>8. \A t \in Session : RecordInv(ses'[t])
  <2>1. RecordInv(q)
    BY <1>4 DEF RecordInv, Ended
  <2> QED
    BY <1>4, <2>1 DEF IInv, q
<1>9. ASSUME NEW t \in Session, Live(t)'
      PROVE  Watched(ses'[t], item') /\ Holds(t, ses'[t], sock', item')
  <2>1. t # s /\ Live(t) /\ ses'[t] = ses[t]
    BY <1>4, <1>6, <1>7, <1>9
  <2>2. Watched(ses[t], item) /\ Holds(t, ses[t], sock, item)
    BY <2>1 DEF IInv
  <2>3. \A g \in Fd : Owns(t, g) => item'[g] = item[g] /\ sock'[g] = sock[g]
    <3>1. \A g \in {c, d} \cap Fd : Owns(s, g)
      BY DEF Owns
    <3>2. \A g \in Fd : Owns(t, g) => ~Owns(s, g)
      BY <2>1, Ownership
    <3>3. \A g \in Fd : Owns(t, g) => g \notin {c, d, r.dfd}
      BY <1>0, <3>1, <3>2
    <3> QED
      BY <1>2, <1>3, <3>3
  <2>4. ses[t].cfd \in Fd /\ ses[t].dfd \in Fd \cup {NoFd}
        /\ Owns(t, ses[t].cfd) /\ (ses[t].dfd # NoFd => Owns(t, ses[t].dfd))
    BY <2>1, Ownership DEF Owns
  <2> QED
    BY <2>1, <2>2, <2>3, <2>4 DEF Watched, Holds
<1>10. ASSUME NEW g \in Fd PROVE FdInv(g)'
  <2>1. FdInv(g) /\ item[g] \in Item /\ Unused.data = Nobody
    BY DEF IInv, Unused
  <2>2. CASE item'[g] = Unused
    <3>1. sock'[g] = "free"
      BY <1>0, <1>2, <1>3, <2>1, <2>2 DEF FdInv
    <3> QED
      BY <2>1, <2>2, <3>1 DEF FdInv
  <2>3. CASE item'[g] # Unused /\ item[g].data = s
    <3>1. item'[g] = item[g] /\ g \notin {c, r.dfd}
      BY <1>2, <2>3
    <3>2. sock'[g] = "free"
      <4>1. sock[g] # "free" => g \in {c, d}
        BY <2>3, Ownership DEF Owns
      <4> QED
        BY <1>3, <4>1
    <3>3. LeftBy(q, item[g])
      <4>1. CASE g = d
        <5>1. ses[s].state = "DEST_CONNECT" /\ Admitted(r.told, r.login)
          BY <3>1, <4>1
        <5>2. item[g].interest = {"W"}
          BY <1>0, <4>1, <5>1 DEF IInv, Watched, Writing
        <5> QED
          BY <1>4, <5>1, <5>2 DEF LeftBy
      <4>2. CASE g # d
        <5>1. ~Owns(s, g)
          BY <3>1, <4>2 DEF Owns
        <5>2. LeftBy(ses[s], item[g])
          BY <1>0, <2>1, <2>3, <5>1 DEF FdInv
        <5> QED
          BY <1>4, <5>2 DEF LeftBy
      <4> QED
        BY <4>1, <4>2
    <3> QED
      BY <1>0, <2>3, <3>1, <3>2, <3>3 DEF FdInv, q
  <2>4. CASE item'[g] # Unused /\ item[g].data # s
    <3> DEFINE o == item[g].data
    <3>1. item'[g] = item[g]
      BY <1>2, <2>4
    <3>2. sock'[g] = sock[g]
      BY <1>0, <1>3, <2>4 DEF IInv, Holds
    <3>3. o # Nobody
      BY <2>1, <2>4, <3>1 DEF FdInv
    <3>4. o \in Session \ {s}
      BY <2>1, <2>4, <3>3 DEF Item
    <3>5. Owns(item[g].data, g)' <=> Owns(item[g].data, g)
      BY <1>4, <3>1, <3>4 DEF Owns, Live
    <3> QED
      BY <1>4, <2>1, <3>1, <3>2, <3>3, <3>4, <3>5 DEF FdInv
  <2> QED
    BY <2>2, <2>3, <2>4
<1>11. Counted'
  <2>1. Born' = Born /\ LiveOnes' = LiveOnes \ {s} /\ s \in LiveOnes /\ LiveOnes \subseteq Born
    <3>1. Born' = Born
      BY <1>4 DEF Born, Live, q
    <3>2. LiveOnes' = LiveOnes \ {s} /\ s \in LiveOnes
      BY <1>6, <1>7 DEF LiveOnes
    <3>3. LiveOnes \subseteq Born
      BY DEF LiveOnes, Born, Live
    <3> QED
      BY <3>1, <3>2, <3>3
  <2>2. IsFiniteSet(LiveOnes)
    BY <2>1, FS_Subset DEF IInv, Counted
  <2>3. Cardinality(LiveOnes \ {s}) = Cardinality(LiveOnes) - 1
    BY <2>1, <2>2, FS_RemoveElement
  <2>4. current' = current - 1
    <3>1. item[c].data = s /\ Unused.data = Nobody
      BY DEF IInv, Holds, Unused
    <3> QED
      BY <1>0, <1>1, <3>1
  <2> QED
    BY <1>1, <2>1, <2>3, <2>4 DEF IInv, Counted
<1> QED
  BY <1>4, <1>2, <1>5, <1>8, <1>9, <1>10, <1>11 DEF IInv, Stopped

\* The kernel gives a free number, and a session that has begun keeps its type.
LEMMA LowestIsFree ==
  ASSUME NEW k \in [Fd -> Socket], FreeFds(k) # {}
  PROVE  LowestFree(k) \in Fd /\ k[LowestFree(k)] = "free"
<1>1. FreeFds(k) \in SUBSET Nat
  BY DEF FreeFds, Fd
<1>2. \E f \in FreeFds(k) : \A g \in FreeFds(k) : f <= g
  BY <1>1, Least
<1>3. LowestFree(k) \in FreeFds(k)
  BY <1>2, Zenon DEF LowestFree
<1> QED
  BY <1>3 DEF FreeFds

\* A session gets a descriptor d whose item is unused: its first one, or that
\* of another attempt to connect, which closes the one before.
LEMMA OpensKeeps ==
  ASSUME IInv, status = "running",
         NEW s \in Session, NEW r \in Record, r.phase = "live", Lived(r),
         NEW d \in Fd, item[d] = Unused, NEW i \in SUBSET Op,
         ses' = [ses EXCEPT ![s] = r],
         item' = [item EXCEPT ![d] = [data |-> s, interest |-> i]],
         sock' \in [Fd -> Socket], sock'[d] # "free",
         \A g \in Fd \ {d} : sock'[g] = IF g = ses[s].dfd THEN "free" ELSE sock[g],
         todo' \in SUBSET (Fd \X Op), UNCHANGED <<accepted, status>>,
         Watched(r, item'), Counted',
         \/ ~Live(s) /\ ses[s] = Unborn /\ r.cfd = d /\ r.dfd = NoFd
         \/ /\ Live(s) /\ ses[s].state = "DEST_CONNECT" /\ r.state \in Late
            /\ r.cfd = ses[s].cfd /\ r.dfd = d /\ r.told = ses[s].told /\ r.login = ses[s].login
  PROVE  IInv'
<1> DEFINE e == ses[s].dfd
<1>0. /\ ses \in [Session -> Record] /\ sock \in [Fd -> Socket] /\ item \in [Fd -> Item]
      /\ NoFd \notin Fd /\ s # Nobody /\ e \in Fd \cup {NoFd}
  BY SessionAssumption DEF IInv, Record, NoFd, Fd
<1>1. /\ ses' \in [Session -> Record] /\ item' \in [Fd -> Item] /\ accepted' \in SUBSET Supported
      /\ status' = "running" /\ ses'[s] = r /\ \A t \in Session \ {s} : ses'[t] = ses[t]
      /\ item'[d] = [data |-> s, interest |-> i] /\ \A g \in Fd \ {d} : item'[g] = item[g]
  BY <1>0 DEF IInv, Item
<1>2. item[d].data = Nobody /\ sock[d] = "free"
  BY DEF IInv, FdInv, Unused
<1>3. \A t \in Session : ~Owns(t, d)
  BY <1>2, Ownership
<1>4. \A t \in Session \ {s} : /\ Live(t)' <=> Live(t)
                              /\ \A g \in Fd : Owns(t, g)' <=> Owns(t, g)
  BY <1>1 DEF Live, Owns
<1>5. \A g \in Fd : Owns(s, g)' <=> g = d \/ (Live(s) /\ g = ses[s].cfd)
  BY <1>0, <1>1 DEF Owns, Live
<1>6. \A t \in Session : RecordInv(ses'[t])
  BY <1>1 DEF IInv, RecordInv
<1>7. ASSUME NEW t \in Session, Live(t)'
      PROVE  Watched(ses'[t], item') /\ Holds(t, ses'[t], sock', item')
  <2>1. CASE t # s
    <3>1. Live(t) /\ ses'[t] = ses[t] /\ Watched(ses[t], item) /\ Holds(t, ses[t], sock, item)
      BY <1>1, <1>4, <1>7, <2>1 DEF IInv
    <3>2. e \in Fd => Owns(s, e)
      BY <1>0 DEF Owns, Unborn
    <3>3. \A g \in Fd : Owns(t, g) => item'[g] = item[g] /\ sock'[g] = sock[g]
      <4>1. \A g \in Fd : Owns(t, g) => g # d /\ g # e
        BY <1>3, <2>1, <3>2, Ownership
      <4> QED
        BY <1>1, <4>1
    <3>4. ses[t].cfd \in Fd /\ ses[t].dfd \in Fd \cup {NoFd}
          /\ Owns(t, ses[t].cfd) /\ (ses[t].dfd # NoFd => Owns(t, ses[t].dfd))
      BY <3>1, Ownership DEF Owns
    <3> QED
      BY <3>1, <3>3, <3>4 DEF Watched, Holds
  <2>2. CASE t = s
    <3>1. CASE ~Live(s)
      BY <1>1, <2>2, <3>1 DEF Holds
    <3>2. CASE Live(s)
      <4>1. Holds(s, ses[s], sock, item) /\ ses[s].cfd \in Fd /\ ses[s].cfd # e /\ ses[s].cfd # d
        BY <1>2, <3>2, Ownership DEF IInv
      <4> QED
        BY <1>1, <2>2, <3>2, <4>1 DEF Holds
    <3> QED
      BY <3>1, <3>2
  <2> QED
    BY <2>1, <2>2
<1>8. ASSUME NEW g \in Fd PROVE FdInv(g)'
  <2>1. CASE g = d
    <3>1. Owns(item[g].data, g)'
      BY <1>1, <2>1 DEF Owns, Live
    <3> QED
      BY <1>0, <1>1, <2>1, <3>1 DEF FdInv
  <2>2. CASE g # d
    <3>1. FdInv(g) /\ item'[g] = item[g] /\ item[g] \in Item
      BY <1>1, <2>2 DEF IInv
    <3>2. item[g].data = Nobody => item'[g] = Unused /\ sock'[g] = "free"
      BY <2>2, <3>1 DEF FdInv
    <3>3. CASE item[g].data \in Session \ {s}
      <4>1. Owns(item[g].data, g)' <=> Owns(item[g].data, g)
        BY <1>1, <3>1, <3>3 DEF Owns, Live
      <4> QED
        BY <1>1, <2>2, <3>1, <3>2, <3>3, <4>1 DEF FdInv
    <3>4. CASE item[g].data = s
      <4>1. ~Owns(s, g) => LeftBy(ses[s], item[g])
        BY <1>0, <3>1, <3>4 DEF FdInv
      <4>2. Live(s)
        <5>1. ~Admitted(<<>>, FALSE)
          BY DEF Admitted
        <5>2. ~Live(s) => ~Owns(s, g) /\ ses[s].told = <<>> /\ ses[s].login = FALSE
          BY DEF Unborn, Owns
        <5> QED
          BY <4>1, <5>1, <5>2 DEF LeftBy
      <4>3. sock'[g] # "free" => Owns(s, g)'
        <5>1. sock'[g] # "free" => sock[g] # "free" /\ g # e
          BY <2>2
        <5>2. sock[g] # "free" /\ g # e => g = ses[s].cfd
          BY <3>4, Ownership DEF Owns
        <5> QED
          BY <1>5, <4>2, <5>1, <5>2
      <4>4. ~Owns(s, g)' => LeftBy(r, item[g])
        <5>1. CASE g = e
          <6>1. item[g].interest = {"W"}
            BY <1>0, <4>2, <5>1 DEF IInv, Watched, Writing
          <6>2. ses[s].login \in BOOLEAN /\ ses[s].told \in Admission(ses[s].login)
            BY <1>0, <4>2 DEF IInv, RecordInv, Lived, Asking, Live, Record
          <6> QED
            BY <4>2, <6>1, <6>2, Beginnings DEF LeftBy
        <5>2. CASE g # e
          BY <1>5, <4>1, <4>2, <5>2 DEF LeftBy, Owns
        <5> QED
          BY <5>1, <5>2
      <4>5. (Owns(item[g].data, g)' <=> Owns(s, g)') /\ ses'[item'[g].data] = r
        BY <1>1, <3>1, <3>4 DEF Owns, Live
      <4> QED
        BY <3>1, <3>2, <3>4, <4>3, <4>4, <4>5 DEF FdInv
    <3> QED
      <4>1. CASE item[g].data = Nobody
        BY <3>1, <3>2, <4>1 DEF FdInv
      <4> QED
        BY <3>1, <3>3, <3>4, <4>1 DEF Item
  <2> QED
    BY <2>1, <2>2
<1> QED
  BY <1>1, <1>6, <1>7, <1>8 DEF IInv, Stopped

\* handle_read_master: a client gets a record, a descriptor and an item, or the
\* server ends.
LEMMA AcceptKeeps ==
  ASSUME IInv, NEW s \in Session, Accept(s)
  PROVE  IInv'
<1> DEFINE f == LowestFree(sock)
           r == [Unborn EXCEPT !.phase = "live", !.cfd = f]
<1>0. /\ ses \in [Session -> Record] /\ sock \in [Fd -> Socket] /\ item \in [Fd -> Item]
      /\ NoFd \notin Fd
  BY DEF IInv, NoFd, Fd
<1>1. f \in Fd /\ sock[f] = "free"
  BY <1>0, LowestIsFree DEF Accept
<1>2. ses[s] = Unborn /\ ~Live(s)
  BY DEF Accept, IInv, RecordInv, Live
<1>3. /\ status = "running" /\ item[f] = Unused
      /\ ses' = [ses EXCEPT ![s] = r] /\ sock' = [sock EXCEPT ![f] = "up"]
      /\ item' = [item EXCEPT ![f] = [data |-> s, interest |-> {"R"}]]
      /\ current' = current + 1 /\ historic' = historic + 1
      /\ UNCHANGED <<todo, accepted, status>>
  BY DEF Accept, BetweenIterations
<1> HIDE DEF f
<1>4. /\ r \in Record /\ r.phase = "live" /\ r.cfd = f /\ r.dfd = NoFd /\ r.told = <<>>
      /\ r.state = "HELLO_READ" /\ r.dns = "none"
  <2>1. Unborn \in Record
    <3>1. Unborn = ses[s]
      BY <1>2
    <3> QED
      BY <1>0, <3>1
  <2> QED
    BY <1>1, <2>1 DEF Record, Unborn
<1> HIDE DEF r
<1>5. Lived(r)
  BY <1>0, <1>1, <1>4 DEF Lived, Early, Middle, Asking, Final
<1>6. sock' \in [Fd -> Socket] /\ sock'[f] # "free" /\ \A g \in Fd \ {f} : sock'[g] = sock[g]
  BY <1>0, <1>1, <1>3 DEF Socket
<1>7. item'[f].interest = {"R"}
  BY <1>0, <1>1, <1>3
<1>8. Watched(r, item')
  BY <1>4, <1>7 DEF Watched, Writing
<1>9. Counted'
  <2>1. ses'[s] = r /\ \A t \in Session \ {s} : ses'[t] = ses[t]
    BY <1>0, <1>3
  <2>2. s \notin Born /\ Born' = Born \cup {s}
    BY <1>2, <1>4, <2>1 DEF Born, Unborn
  <2>3. s \notin LiveOnes /\ LiveOnes' = LiveOnes \cup {s}
    BY <1>2, <1>4, <2>1 DEF LiveOnes, Live
  <2>4. LiveOnes \subseteq Born
    BY DEF LiveOnes, Born, Live
  <2>5. IsFiniteSet(LiveOnes) /\ IsFiniteSet(Born)
    BY <2>4, FS_Subset DEF IInv, Counted
  <2>6. /\ Cardinality(LiveOnes') = Cardinality(LiveOnes) + 1
        /\ Cardinality(Born') = Cardinality(Born) + 1 /\ IsFiniteSet(Born')
    BY <2>2, <2>3, <2>5, FS_AddElement
  <2> QED
    BY <1>3, <2>6 DEF IInv, Counted
<1>10. \A g \in Fd \ {f} : sock'[g] = IF g = ses[s].dfd THEN "free" ELSE sock[g]
  BY <1>0, <1>2, <1>6 DEF Unborn
<1>11. todo' \in SUBSET (Fd \X Op) /\ {"R"} \in SUBSET Op
  BY <1>3 DEF IInv, Op
<1> QED
  BY <1>1, <1>2, <1>3, <1>4, <1>5, <1>6, <1>8, <1>9, <1>10, <1>11, OpensKeeps

\* No descriptor, and a refused one, are the two an attempt starts from.
LEMMA ConnectStartsKeeps ==
  ASSUME IInv, NEW s \in Session, NEW f \in Fd, ConnectStarts(s, f)
  PROVE  IInv'
<1> DEFINE k == LeftSockets(s)
           d == LowestFree(k)
           e == ses[s].dfd
<1>0. /\ ses \in [Session -> Record] /\ sock \in [Fd -> Socket] /\ item \in [Fd -> Item]
      /\ NoFd \notin Fd /\ "W" \in Op
  BY DEF IInv, NoFd, Fd, Op
<1>1. status = "running" /\ Live(s) /\ ses[s].state = "DEST_CONNECT"
  BY DEF ConnectStarts, Retrying, Connecting, Runs, Called
<1>2. /\ Lived(ses[s]) /\ ses[s] \in Record /\ e \in Fd \cup {NoFd}
      /\ Holds(s, ses[s], sock, item) /\ Watched(ses[s], item)
  BY <1>0, <1>1 DEF IInv, RecordInv, Live, Record
<1>3. k \in [Fd -> Socket] /\ \A g \in Fd : k[g] = IF g = e THEN "free" ELSE sock[g]
  BY <1>0, <1>2 DEF LeftSockets, Close, Socket
<1> HIDE DEF k
<1>4. d \in Fd /\ k[d] = "free"
  BY <1>3, LowestIsFree DEF ConnectStarts, k
<1>5. PICK n \in 1..LeftAddrs(s), up \in BOOLEAN :
        LET r  == [ses[s] EXCEPT !.dfd = d, !.addrs = n]
            it == [item EXCEPT ![d] = [data |-> s, interest |-> {"W"}]]
        IN  Return(s, f, "W",
                   IF up THEN [r EXCEPT !.state = "REQUEST_WRITE", !.reply = 0] ELSE r,
                   [k EXCEPT ![d] = IF up THEN "up" ELSE "connecting"],
                   IF up THEN SetInterest(it, r.cfd, {"W"}) ELSE it)
  BY DEF ConnectStarts, k
<1>6. item[d] = Unused /\ UNCHANGED <<current, historic>>
  BY DEF ConnectStarts, k
<1> HIDE DEF d
<1> DEFINE r0 == [ses[s] EXCEPT !.dfd = d, !.addrs = n]
           r  == IF up THEN [r0 EXCEPT !.state = "REQUEST_WRITE", !.reply = 0] ELSE r0
           it == [item EXCEPT ![d] = [data |-> s, interest |-> {"W"}]]
<1>7. n \in 0..MaxAddrs
  <2>1. ses[s].addrs \in 0..MaxAddrs /\ MaxAddrs \in Nat
    BY <1>2, SessionAssumption DEF Record
  <2> QED
    BY <2>1 DEF LeftAddrs
<1>8. /\ r \in Record /\ r.phase = "live" /\ r.cfd = ses[s].cfd /\ r.dfd = d /\ r.dns = "none"
      /\ r.told = ses[s].told /\ r.login = ses[s].login
      /\ r.state \in {"DEST_CONNECT", "REQUEST_WRITE"}
  <2>1. /\ r0 \in Record /\ r0.phase = "live" /\ r0.cfd = ses[s].cfd /\ r0.dfd = d
        /\ r0.dns = "none" /\ r0.told = ses[s].told /\ r0.login = ses[s].login
        /\ r0.state = "DEST_CONNECT"
    <3>1. ses[s].dns = "none" /\ ses[s].phase = "live"
      BY <1>1, <1>2 DEF Lived, Live
    <3>2. ses[s] \in Record /\ ses[s].state = "DEST_CONNECT"
      BY <1>1, <1>2
    <3> QED
      BY <1>4, <1>7, <3>1, <3>2 DEF Record
  <2> HIDE DEF r0
  <2>2. CASE up
    <3>1. "REQUEST_WRITE" \in State /\ 0 \in Reply
      BY DEF State, Writers, Reply
    <3> QED
      BY <2>1, <2>2, <3>1 DEF Record
  <2>3. CASE ~up
    BY <2>1, <2>3
  <2> QED
    BY <2>2, <2>3
<1>9. ses[s].cfd \in Fd /\ ses[s].cfd # d /\ item[ses[s].cfd] = [data |-> s, interest |-> {"W"}]
  <2>1. item[ses[s].cfd] \in Item /\ ses[s].cfd \in Fd
    BY <1>0, <1>2 DEF Lived
  <2>2. item[ses[s].cfd].data = s /\ item[ses[s].cfd].interest = {"W"}
    BY <1>1, <1>2 DEF Holds, Watched, Writing
  <2>3. Unused.data # s
    BY SessionAssumption DEF Unused
  <2> QED
    BY <1>6, <2>1, <2>2, <2>3 DEF Item
<1>10. /\ ses' = [ses EXCEPT ![s] = r] /\ sock' = [k EXCEPT ![d] = IF up THEN "up" ELSE "connecting"]
       /\ item' = it /\ todo' = todo \ {<<f, "W">>} /\ UNCHANGED <<accepted, status>>
  <2>1. /\ ses' = [ses EXCEPT ![s] = r] /\ sock' = [k EXCEPT ![d] = IF up THEN "up" ELSE "connecting"]
        /\ item' = IF up THEN SetInterest(it, r0.cfd, {"W"}) ELSE it
        /\ todo' = todo \ {<<f, "W">>} /\ UNCHANGED <<accepted, status>>
    BY <1>5 DEF Return
  <2>2. r0.cfd = ses[s].cfd
    BY <1>2 DEF Record
  <2>3. it[ses[s].cfd] = [data |-> s, interest |-> {"W"}] /\ it \in [Fd -> Item]
    BY <1>0, <1>4, <1>9 DEF Item
  <2> HIDE DEF it
  <2>4. SetInterest(it, ses[s].cfd, {"W"}) = it
    BY <1>9, <2>3 DEF SetInterest
  <2> QED
    BY <2>1, <2>2, <2>4
<1> HIDE DEF r, r0
<1>11. Lived(r)
  BY <1>1, <1>2, <1>4, <1>8, <1>9 DEF Lived, Early, Middle, Asking, Final, Late
<1>12. /\ sock' \in [Fd -> Socket] /\ sock'[d] # "free"
       /\ \A g \in Fd \ {d} : sock'[g] = IF g = e THEN "free" ELSE sock[g]
  BY <1>3, <1>4, <1>10 DEF Socket
<1>13. Watched(r, item')
  <2>1. it[r.cfd].interest = {"W"} /\ it[r.dfd].interest = {"W"}
    BY <1>0, <1>4, <1>8, <1>9
  <2> QED
    BY <1>8, <1>10, <2>1 DEF Watched, Reading
<1>14. Counted'
  <2>1. ses'[s] = r /\ \A t \in Session \ {s} : ses'[t] = ses[t]
    BY <1>0, <1>10
  <2>2. ses[s].phase = "live"
    BY <1>1 DEF Live
  <2> QED
    BY <1>6, <1>8, <2>1, <2>2, SameCount DEF Live
<1>15. todo' \in SUBSET (Fd \X Op) /\ {"W"} \in SUBSET Op
  BY <1>0, <1>10 DEF IInv
<1>16. r.state \in Late
  BY <1>8 DEF Late
<1> QED
  BY <1>1, <1>4, <1>6, <1>8, <1>10, <1>11, <1>12, <1>13, <1>14, <1>15, <1>16, OpensKeeps
-----------------------------------------------------------------------------
(* The steps of the resolver, the kernel, the selector and the administrator. *)

\* A record or a socket changes in what the invariant does not speak of.
LEMMA ResolveKeeps ==
  ASSUME IInv, NEW s \in Session, Resolve(s)
  PROVE  IInv'
<1>0. ses \in [Session -> Record] /\ ses[s] \in Record /\ status = "running" /\ ses[s].dns = "pending"
  BY DEF IInv, Resolve
<1>1. PICK a \in {"ready", "failed"} : ses' = [ses EXCEPT ![s].dns = a]
  BY DEF Resolve
<1>2. UNCHANGED <<sock, item, todo, accepted, current, historic, status>>
  BY DEF Resolve
<1> DEFINE r == [ses[s] EXCEPT !.dns = a]
<1>3. /\ r \in Record /\ r.phase = ses[s].phase /\ r.state = ses[s].state /\ r.cfd = ses[s].cfd
      /\ r.dfd = ses[s].dfd /\ r.told = ses[s].told /\ r.login = ses[s].login
  BY <1>0 DEF Record
<1>4. ses' \in [Session -> Record] /\ ses'[s] = r /\ \A t \in Session \ {s} : ses'[t] = ses[t]
  BY <1>0, <1>1, <1>3
<1>5. ses[s].phase = "live" /\ Lived(ses[s]) /\ ses[s].state = "DNS_LOOKUP"
  <2>1. RecordInv(ses[s]) /\ ses[s].phase \in {"unborn", "live", "freed"}
    BY <1>0 DEF IInv, Record
  <2>2. ses[s].phase = "live"
    BY <1>0, <2>1 DEF RecordInv, Unborn, Ended
  <2> QED
    BY <1>0, <2>1, <2>2 DEF RecordInv, Lived
<1> HIDE DEF r
<1>6. RecordInv(r)
  BY <1>3, <1>5 DEF RecordInv, Lived
<1>7. \A t \in Session : /\ RecordInv(ses'[t])
                        /\ ses'[t].phase = ses[t].phase /\ ses'[t].state = ses[t].state
                        /\ ses'[t].cfd = ses[t].cfd /\ ses'[t].dfd = ses[t].dfd
                        /\ ses'[t].told = ses[t].told /\ ses'[t].login = ses[t].login
  BY <1>3, <1>4, <1>6 DEF IInv
<1>8. \A t \in Session : (Live(t)' <=> Live(t)) /\ (\A g \in Fd : Owns(t, g)' <=> Owns(t, g))
  BY <1>7 DEF Live, Owns
<1>9. ASSUME NEW t \in Session, Live(t)'
      PROVE  Watched(ses'[t], item') /\ Holds(t, ses'[t], sock', item')
  <2>1. Watched(ses[t], item) /\ Holds(t, ses[t], sock, item)
    BY <1>8, <1>9 DEF IInv
  <2>2. ses'[t].state = ses[t].state /\ ses'[t].cfd = ses[t].cfd /\ ses'[t].dfd = ses[t].dfd
    BY <1>7
  <2> QED
    BY <1>2, <2>1, <2>2 DEF Watched, Holds
<1>10. ASSUME NEW g \in Fd PROVE FdInv(g)'
  <2>1. FdInv(g) /\ item[g].data \in Session \cup {Nobody} /\ item'[g] = item[g] /\ sock'[g] = sock[g]
    BY <1>2 DEF IInv, Item
  <2>2. item[g].data \in Session =>
          /\ Owns(item[g].data, g)' <=> Owns(item[g].data, g)
          /\ LeftBy(ses'[item[g].data], item[g]) <=> LeftBy(ses[item[g].data], item[g])
    BY <1>7, <2>1 DEF Owns, Live, LeftBy
  <2>3. sock'[g] = "free" \/ item[g].data # Nobody
    BY <2>1 DEF FdInv
  <2> QED
    BY <2>1, <2>2, <2>3 DEF FdInv
<1>11. Counted'
  BY <1>2, <1>7, <1>8, SameCount
<1> QED
  BY <1>0, <1>2, <1>4, <1>7, <1>9, <1>10, <1>11 DEF IInv, Stopped

\* A connection attempt ends in the kernel.
LEMMA ConnectEndsKeeps ==
  ASSUME IInv, NEW f \in Fd, ConnectEnds(f)
  PROVE  IInv'
<1>1. /\ status = "running" /\ UNCHANGED <<ses, item, todo, accepted, current, historic, status>>
      /\ sock' \in [Fd -> Socket] /\ \A g \in Fd : sock'[g] = "free" <=> sock[g] = "free"
  BY DEF ConnectEnds, IInv, Socket
<1>2. ASSUME NEW t \in Session, Live(t)'
      PROVE  Watched(ses'[t], item') /\ Holds(t, ses'[t], sock', item')
  <2>1. Live(t) /\ ses'[t] = ses[t]
    BY <1>1, <1>2 DEF Live
  <2>2. ses[t].cfd \in Fd /\ ses[t].dfd \in Fd \cup {NoFd}
    BY <2>1, Ownership
  <2> QED
    BY <1>1, <2>1, <2>2 DEF IInv, Watched, Holds
<1>3. ASSUME NEW g \in Fd PROVE FdInv(g)'
  <2>1. FdInv(g) /\ (sock'[g] = "free" <=> sock[g] = "free")
    BY <1>1 DEF IInv
  <2> QED
    BY <1>1, <2>1 DEF FdInv, Owns, Live, LeftBy
<1>4. Counted'
  BY <1>1, SameCount DEF Live
<1> QED
  BY <1>1, <1>2, <1>3, <1>4 DEF IInv, Stopped

\* The steps that leave the records and the tables alone.
LEMMA QuietKeeps ==
  ASSUME IInv, UNCHANGED <<ses, sock, item, current, historic>>,
         todo' \in SUBSET (Fd \X Op), accepted' \in SUBSET Supported,
         status' \in {"running", "dangling", "aborted", "exited"}, Stopped'
  PROVE  IInv'
<1>1. \A t \in Session : Live(t)' => Watched(ses'[t], item') /\ Holds(t, ses'[t], sock', item')
  BY DEF IInv, Live
<1>2. \A g \in Fd : FdInv(g)'
  BY DEF IInv, FdInv, Owns, Live
<1>3. Counted'
  BY SameCount DEF Live
<1> QED
  BY <1>1, <1>2, <1>3 DEF IInv

\* An item whose callback would run without a record, or unhandled.
LEMMA DanglingIsStale ==
  ASSUME IInv, CallDangling
  PROVE  \E f \in Fd : Stale(f)
<1>1. PICK s \in Session, f \in Fd, op \in Op : Called(s, f, op) /\ ~Live(s)
  BY DEF CallDangling
<1>2. item[f].data = s /\ Nobody # s /\ Unused.data = Nobody
  BY <1>1, SessionAssumption DEF Called, Unused
<1> QED
  BY <1>1, <1>2 DEF Stale, Owns

\* A live session whose state has no handler for what it waits for is in DONE.
LEMMA UnhandledIsDone ==
  ASSUME IInv, CallUnhandled
  PROVE  \E s \in Session : Live(s) /\ ses[s].state = "DONE"
<1>1. PICK s \in Session, f \in Fd, op \in Op :
        Called(s, f, op) /\ Live(s) /\ ses[s].state \notin IF op = "R" THEN Readers ELSE Writers
  BY DEF CallUnhandled
<1>2. /\ item[f].data = s /\ op \in item[f].interest /\ op \in {"R", "W"} /\ s # Nobody
      /\ ses[s].phase = "live" /\ ses[s] \in Record /\ Lived(ses[s]) /\ Watched(ses[s], item)
      /\ FdInv(f)
  BY <1>1, SessionAssumption DEF Called, Live, IInv, RecordInv, Op
<1>3. ses[s].state \in Reading \cup Writing \cup {"FORWARDING", "DONE"}
  BY <1>2 DEF Lived, Record, State, Readers, Writers, Reading, Writing
<1>4. CASE Owns(s, f)
  <2>1. f = ses[s].cfd \/ (f = ses[s].dfd /\ ses[s].dfd # NoFd)
    BY <1>4 DEF Owns, NoFd, Fd
  <2>2. ses[s].state \in Reading => op = "R"
    BY <1>2, <2>1 DEF Watched, Lived, Reading, Late
  <2>3. ses[s].state \in Writing => op = "W"
    BY <1>2, <2>1 DEF Watched
  <2> QED
    BY <1>1, <1>2, <1>3, <2>2, <2>3 DEF Reading, Writing, Readers, Writers
<1>5. CASE ~Owns(s, f)
  <2>1. op = "W" /\ ses[s].state \in Late
    BY <1>2, <1>5 DEF FdInv, LeftBy
  <2> QED
    BY <1>1, <2>1 DEF Late, Writers
<1> QED
  BY <1>4, <1>5

\* The steps of the selector's loop.
LEMMA LoopKeeps ==
  ASSUME IInv, Select \/ NotCalled \/ CallDangling \/ CallUnhandled
               \/ AcceptFails \/ ChangeAuthMethods \/ UNCHANGED vars
  PROVE  IInv'
<1>1. CASE Select
  <2>1. /\ UNCHANGED <<ses, sock, item, accepted, current, historic, status>>
        /\ status = "running" /\ todo' \in SUBSET (Fd \X Op)
    BY <1>1 DEF Select, BetweenIterations
  <2> QED
    BY <2>1, QuietKeeps DEF IInv, Stopped
<1>2. CASE NotCalled
  <2>1. /\ UNCHANGED <<ses, sock, item, accepted, current, historic, status>>
        /\ status = "running" /\ todo' \in SUBSET (Fd \X Op)
    BY <1>2 DEF NotCalled, IInv
  <2> QED
    BY <2>1, QuietKeeps DEF IInv, Stopped
<1>3. CASE CallDangling
  <2>1. UNCHANGED <<ses, sock, item, todo, accepted, current, historic>> /\ status' = "dangling"
    BY <1>3 DEF CallDangling
  <2>2. (\E f \in Fd : Stale(f))'
    BY <1>3, <2>1, DanglingIsStale DEF Stale, Owns, Live
  <2> QED
    BY <2>1, <2>2, QuietKeeps DEF IInv, Stopped
<1>4. CASE CallUnhandled
  <2>1. UNCHANGED <<ses, sock, item, todo, accepted, current, historic>> /\ status' = "aborted"
    BY <1>4 DEF CallUnhandled
  <2>2. (\E s \in Session : Live(s) /\ ses[s].state = "DONE")'
    BY <1>4, <2>1, UnhandledIsDone DEF Live
  <2> QED
    BY <2>1, <2>2, QuietKeeps DEF IInv, Stopped
<1>5. CASE AcceptFails
  <2>1. UNCHANGED <<ses, sock, item, todo, accepted, current, historic>> /\ status' = "exited"
    BY <1>5 DEF AcceptFails
  <2> QED
    BY <2>1, QuietKeeps DEF IInv, Stopped
<1>6. CASE ChangeAuthMethods
  <2>1. /\ UNCHANGED <<ses, sock, item, todo, current, historic, status>> /\ status = "running"
        /\ accepted' \in SUBSET {0, 2}
    BY <1>6, SessionAssumption DEF ChangeAuthMethods, BetweenIterations
  <2> QED
    BY <2>1, QuietKeeps DEF IInv, Stopped, Supported
<1>7. CASE UNCHANGED vars
  <2>1. UNCHANGED <<ses, sock, item, todo, accepted, current, historic, status>>
    BY <1>7 DEF vars
  <2>2. Stopped'
    BY <2>1 DEF IInv, Stopped, Live, Stale, Owns
  <2> QED
    BY <2>1, <2>2, QuietKeeps DEF IInv
<1> QED
  BY <1>1, <1>2, <1>3, <1>4, <1>5, <1>6, <1>7
-----------------------------------------------------------------------------
(* The handlers.                                                           *)

\* What setting the interest of one descriptor does to the items.
LEMMA SetInterestFacts ==
  ASSUME NEW it \in [Fd -> Item], NEW f \in Fd \cup {NoFd}, NEW i \in SUBSET Op
  PROVE  /\ SetInterest(it, f, i) \in [Fd -> Item]
         /\ \A g \in Fd : SetInterest(it, f, i)[g].data = it[g].data
         /\ \A g \in Fd \ {f} : SetInterest(it, f, i)[g] = it[g]
         /\ f \in Fd /\ it[f] # Unused => SetInterest(it, f, i)[f].interest = i
BY DEF SetInterest, Item

\* A handler runs for a session that lives; before a connection is attempted,
\* for the client's descriptor.
LEMMA RunsFacts ==
  ASSUME IInv, NEW s \in Session, NEW f \in Fd, NEW op \in Op, NEW st, Runs(s, f, op, st)
  PROVE  /\ status = "running" /\ Live(s) /\ ses[s].phase = "live" /\ ses[s].state = st
         /\ ses[s] \in Record /\ Lived(ses[s])
         /\ item[f].data = s /\ item[f] # Unused /\ op \in item[f].interest
         /\ st \notin Late => f = ses[s].cfd /\ ses[s].dfd = NoFd
<1>1. /\ status = "running" /\ Live(s) /\ ses[s].phase = "live" /\ ses[s].state = st
      /\ ses[s] \in Record /\ Lived(ses[s])
      /\ item[f].data = s /\ op \in item[f].interest /\ FdInv(f)
  BY DEF Runs, Called, Live, IInv, RecordInv
<1>2. item[f] # Unused /\ s # Nobody
  BY <1>1, SessionAssumption DEF Unused
<1>3. st \notin Late => Owns(s, f) /\ ses[s].dfd = NoFd
  BY <1>1, <1>2 DEF FdInv, LeftBy, Lived
<1>4. NoFd # f
  BY DEF NoFd, Fd
<1> QED
  BY <1>1, <1>2, <1>3, <1>4 DEF Owns

\* A handler of the handshake goes on and waits for one operation.
LEMMA HandshakeKeeps ==
  ASSUME IInv, NEW s \in Session, NEW f \in Fd, NEW op \in Op,
         NEW st, st \notin Late, Runs(s, f, op, st),
         NEW r \in Record, r.phase = "live", r.cfd = ses[s].cfd, r.dfd = NoFd, Lived(r),
         NEW i \in SUBSET Op, r.state \in Reading => i = {"R"}, r.state \in Writing => i = {"W"},
         Admitted(ses[s].told, ses[s].login) => Admitted(r.told, r.login),
         Continue(s, f, op, r, SetInterest(item, f, i))
  PROVE  IInv'
<1> DEFINE it == SetInterest(item, f, i)
<1>1. /\ status = "running" /\ Live(s) /\ ses[s].state = st /\ item[f] # Unused
      /\ f = ses[s].cfd /\ ses[s].dfd = NoFd
  BY RunsFacts
<1>2. /\ it \in [Fd -> Item] /\ \A g \in Fd : it[g].data = item[g].data
      /\ \A g \in Fd \ {f} : it[g] = item[g]
      /\ it[f].interest = i
  BY <1>1, SetInterestFacts DEF IInv
<1>3. Continue(s, f, op, r, it)
  OBVIOUS
<1> HIDE DEF it
<1>4. Watched(r, it)
  BY <1>1, <1>2 DEF Watched
<1>5. r.dfd = ses[s].dfd /\ (ses[s].state \in Late => r.state \in Late)
      /\ \A g \in Fd \ {r.cfd, r.dfd} : it[g] = item[g]
  BY <1>1, <1>2
<1> QED
  BY <1>1, <1>2, <1>3, <1>4, <1>5, ContinueKeeps

\* The message is incomplete: the record and the interest stay.
LEMMA ReadMoreKeeps ==
  ASSUME IInv, NEW s \in Session, NEW f \in Fd, ReadMore(s, f)
  PROVE  IInv'
<1>1. PICK st \in {"HELLO_READ", "AUTH_READ", "REQUEST_READ"} : Runs(s, f, "R", st)
  BY DEF ReadMore
<1>2. "R" \in Op
  BY DEF Op
<1>3. /\ status = "running" /\ Live(s) /\ ses[s].phase = "live"
      /\ ses[s] \in Record /\ Lived(ses[s])
  BY <1>1, <1>2, RunsFacts
<1>4. Watched(ses[s], item) /\ item \in [Fd -> Item]
  BY <1>3 DEF IInv
<1>5. Continue(s, f, "R", ses[s], item)
  BY DEF ReadMore
<1> QED
  BY <1>2, <1>3, <1>4, <1>5, ContinueKeeps

\* A handler ends the session from whatever state it is in.
LEMMA FailKeeps ==
  ASSUME IInv, NEW s \in Session, NEW f \in Fd, NEW op \in Op, NEW st, Runs(s, f, op, st),
         NEW r \in Record, r.cfd = ses[s].cfd, r.dfd = ses[s].dfd, InOrder(r.told), r.dns # "pending",
         Admitted(ses[s].told, ses[s].login) => Admitted(r.told, r.login),
         Fail(s, f, op, r, sock, item)
  PROVE  IInv'
<1> DEFINE e == [r EXCEPT !.state = "ERROR"]
<1>1. status = "running" /\ Live(s)
  BY RunsFacts
<1>2. /\ e \in Record /\ e.cfd = r.cfd /\ e.dfd = r.dfd /\ e.told = r.told /\ e.dns = r.dns
      /\ e.login = r.login /\ e.state = "ERROR"
  BY DEF Record, State
<1>3. Destroy(s, f, op, e, sock, item)
  BY DEF Fail
<1> HIDE DEF e
<1>4. sock \in [Fd -> Socket]
  BY DEF IInv
<1> QED
  BY <1>1, <1>2, <1>3, <1>4, DestroyKeeps

\* The messages of a live session, in whatever state.
LEMMA LivedInOrder ==
  ASSUME NEW r \in Record, Lived(r)
  PROVE  InOrder(r.told)
<1>1. r.state \in Early \cup Middle \cup Asking \cup Final /\ r.login \in BOOLEAN
  BY DEF Record, State, Readers, Writers, Lived, Early, Middle, Asking, Final
<1>2. CASE r.state \in Final
  <2>1. PICK t \in Admission(r.login) : r.told = Append(t, <<"reply", 0>>)
    BY <1>2 DEF Lived, Answer
  <2> QED
    BY <1>1, <2>1, AfterReply DEF Reply
<1>3. CASE r.state \notin Final
  BY <1>1, <1>3, Beginnings DEF Lived
<1> QED
  BY <1>2, <1>3

\* Both sides of a set of one or two methods have a greatest one in common.
LEMMA ChosenType ==
  ASSUME accepted \in SUBSET Supported, NEW offered \in SUBSET Method
  PROVE  Chosen(offered) \in Supported \cup {NoMethod}
<1> DEFINE both == offered \cap accepted
<1>1. both \subseteq {0, 2}
  BY DEF Supported
<1>2. both # {} => \E m \in both : \A n \in both : n <= m
  <2>1. CASE 2 \in both
    BY <1>1, <2>1
  <2>2. CASE 2 \notin both
    BY <1>1, <2>2
  <2> QED
    BY <2>1, <2>2
<1>3. both # {} => (CHOOSE m \in both : \A n \in both : n <= m) \in both
  BY <1>2, Zenon
<1> QED
  BY <1>1, <1>3 DEF Chosen, Supported

\* The handlers of the greeting.
LEMMA HelloKeeps ==
  ASSUME IInv, NEW s \in Session, NEW f \in Fd,
         HelloFails(s, f) \/ HelloDone(s, f) \/ HelloWrite(s, f)
  PROVE  IInv'
<1>0. "R" \in Op /\ "W" \in Op
  BY DEF Op
<1>1. CASE HelloFails(s, f)
  <2>1. Runs(s, f, "R", "HELLO_READ") /\ Fail(s, f, "R", ses[s], sock, item)
    BY <1>1 DEF HelloFails
  <2>2. ses[s] \in Record /\ Lived(ses[s]) /\ ses[s].state = "HELLO_READ"
    BY <1>0, <2>1, RunsFacts
  <2>3. InOrder(ses[s].told) /\ ses[s].dns # "pending"
    BY <2>2, LivedInOrder DEF Lived
  <2> QED
    BY <1>0, <2>1, <2>2, <2>3, FailKeeps
<1>2. CASE HelloDone(s, f)
  <2>1. PICK offered \in SUBSET Method :
          Continue(s, f, "R", [ses[s] EXCEPT !.state = "HELLO_WRITE", !.method = Chosen(offered)],
                   SetInterest(item, f, {"W"}))
    BY <1>2 DEF HelloDone
  <2> DEFINE r == [ses[s] EXCEPT !.state = "HELLO_WRITE", !.method = Chosen(offered)]
  <2>2. Runs(s, f, "R", "HELLO_READ") /\ "HELLO_READ" \notin Late
    BY <1>2 DEF HelloDone, Late
  <2>3. /\ ses[s] \in Record /\ Lived(ses[s]) /\ ses[s].state = "HELLO_READ" /\ ses[s].phase = "live"
        /\ ses[s].dfd = NoFd
    BY <1>0, <2>2, RunsFacts
  <2>4. Chosen(offered) \in Supported \cup {NoMethod}
    BY ChosenType DEF IInv
  <2>5. /\ r \in Record /\ r.phase = "live" /\ r.cfd = ses[s].cfd /\ r.dfd = NoFd
        /\ r.state = "HELLO_WRITE" /\ r.told = ses[s].told /\ r.login = ses[s].login
        /\ r.dns = ses[s].dns
    BY <2>3, <2>4 DEF Record, State, Writers
  <2>6. Continue(s, f, "R", r, SetInterest(item, f, {"W"}))
    BY <2>1
  <2> HIDE DEF r
  <2>7. Lived(r)
    BY <2>3, <2>5 DEF Lived, Early, Middle, Asking, Final, Late
  <2>8. {"W"} \in SUBSET Op /\ r.state \notin Reading
    BY <1>0, <2>5 DEF Reading
  <2> QED
    BY <1>0, <2>2, <2>5, <2>6, <2>7, <2>8, HandshakeKeeps
<1>3. CASE HelloWrite(s, f)
  <2>1. Runs(s, f, "W", "HELLO_WRITE") /\ "HELLO_WRITE" \notin Late
    BY <1>3 DEF HelloWrite, Late
  <2>2. /\ ses[s] \in Record /\ Lived(ses[s]) /\ ses[s].state = "HELLO_WRITE" /\ ses[s].phase = "live"
        /\ ses[s].dfd = NoFd
    BY <1>0, <2>1, RunsFacts
  <2>3. CASE Fail(s, f, "W", ses[s], sock, item)
    <3>1. InOrder(ses[s].told) /\ ses[s].dns # "pending"
      BY <2>2, LivedInOrder DEF Lived
    <3> QED
      BY <1>0, <2>1, <2>2, <2>3, <3>1, FailKeeps
  <2> DEFINE m == ses[s].method
             next == IF m = 0 THEN "REQUEST_READ" ELSE "AUTH_READ"
             r == Tell([ses[s] EXCEPT !.state = next], "method", m)
  <2>4. CASE Continue(s, f, "W", r, SetInterest(item, f, {"R"}))
    <3>1. m \in {0, 2, NoMethod} /\ ses[s].told = <<>> /\ ses[s].dns = "none" /\ ses[s].login \in BOOLEAN
      BY <2>2 DEF Record, Supported, Lived, Early
    <3> DEFINE t == Append(<<>>, <<"method", m>>)
    <3>2. /\ t \in Seq(Message) /\ (m = 0 => t \in Admission(ses[s].login))
          /\ (m # 0 => t \in Negotiated)
      BY <3>1, AfterMethod
    <3>3. next \in State /\ next \in {"REQUEST_READ", "AUTH_READ"}
      BY DEF State, Readers
    <3>4. r = [ses[s] EXCEPT !.state = next, !.told = t]
      BY <2>2, <3>1 DEF Tell, Record
    <3>5. (next = "REQUEST_READ" => m = 0) /\ (next = "AUTH_READ" => m # 0)
      OBVIOUS
    <3> HIDE DEF r, t, next, m
    <3>6. /\ r \in Record /\ r.phase = "live" /\ r.cfd = ses[s].cfd /\ r.dfd = NoFd
          /\ r.state = next /\ r.told = t /\ r.login = ses[s].login /\ r.dns = "none"
      BY <2>2, <3>1, <3>2, <3>3, <3>4 DEF Record, Message
    <3>7. Lived(r)
      BY <2>2, <3>2, <3>3, <3>5, <3>6 DEF Lived, Early, Middle, Asking, Final, Late
    <3>8. ~Admitted(<<>>, ses[s].login)
      BY DEF Admitted
    <3>9. {"R"} \in SUBSET Op /\ r.state \notin Writing
      BY <1>0, <3>3, <3>6 DEF Writing
    <3> QED
      BY <1>0, <2>1, <2>4, <3>1, <3>6, <3>7, <3>8, <3>9, HandshakeKeeps
  <2> QED
    BY <1>3, <2>3, <2>4 DEF HelloWrite
<1> QED
  BY <1>1, <1>2, <1>3

\* The handlers of the authentication.
LEMMA AuthKeeps ==
  ASSUME IInv, NEW s \in Session, NEW f \in Fd,
         AuthFails(s, f) \/ AuthDone(s, f) \/ AuthWrite(s, f) \/ AuthWriteFails(s, f)
  PROVE  IInv'
<1>0. "R" \in Op /\ "W" \in Op
  BY DEF Op
<1>1. CASE AuthFails(s, f)
  <2>1. Runs(s, f, "R", "AUTH_READ") /\ Fail(s, f, "R", ses[s], sock, item)
    BY <1>1 DEF AuthFails
  <2>2. ses[s] \in Record /\ Lived(ses[s]) /\ ses[s].state = "AUTH_READ"
    BY <1>0, <2>1, RunsFacts
  <2>3. InOrder(ses[s].told) /\ ses[s].dns # "pending"
    BY <2>2, LivedInOrder DEF Lived
  <2> QED
    BY <1>0, <2>1, <2>2, <2>3, FailKeeps
<1>2. CASE AuthWriteFails(s, f)
  <2>1. Runs(s, f, "W", "AUTH_WRITE") /\ Fail(s, f, "W", ses[s], sock, item)
    BY <1>2 DEF AuthWriteFails
  <2>2. ses[s] \in Record /\ Lived(ses[s]) /\ ses[s].state = "AUTH_WRITE"
    BY <1>0, <2>1, RunsFacts
  <2>3. InOrder(ses[s].told) /\ ses[s].dns # "pending"
    BY <2>2, LivedInOrder DEF Lived
  <2> QED
    BY <1>0, <2>1, <2>2, <2>3, FailKeeps
<1>3. CASE AuthDone(s, f)
  <2>1. Runs(s, f, "R", "AUTH_READ") /\ "AUTH_READ" \notin Late
    BY <1>3 DEF AuthDone, Late
  <2>2. PICK ok \in BOOLEAN :
          Continue(s, f, "R", [ses[s] EXCEPT !.state = "AUTH_WRITE", !.login = ok],
                   SetInterest(item, f, {"W"}))
    BY <1>3 DEF AuthDone
  <2> DEFINE r == [ses[s] EXCEPT !.state = "AUTH_WRITE", !.login = ok]
  <2>3. /\ ses[s] \in Record /\ Lived(ses[s]) /\ ses[s].state = "AUTH_READ" /\ ses[s].phase = "live"
        /\ ses[s].dfd = NoFd
    BY <1>0, <2>1, RunsFacts
  <2>4. /\ r \in Record /\ r.phase = "live" /\ r.cfd = ses[s].cfd /\ r.dfd = NoFd
        /\ r.state = "AUTH_WRITE" /\ r.told = ses[s].told /\ r.dns = ses[s].dns
    BY <2>3 DEF Record, State, Writers
  <2>5. Continue(s, f, "R", r, SetInterest(item, f, {"W"}))
    BY <2>2
  <2> HIDE DEF r
  <2>6. Lived(r) /\ ses[s].told \in Negotiated
    BY <2>3, <2>4 DEF Lived, Early, Middle, Asking, Final, Late
  <2>7. ~Admitted(ses[s].told, ses[s].login)
    <3>1. PICK m \in {2, NoMethod} : ses[s].told = << <<"method", m>> >>
      BY <2>6 DEF Negotiated
    <3>2. <<"method", m>> # <<"method", 0>>
      BY DEF NoMethod
    <3> QED
      BY <3>1, <3>2 DEF Admitted
  <2>8. {"W"} \in SUBSET Op /\ r.state \notin Reading
    BY <1>0, <2>4 DEF Reading
  <2> QED
    BY <1>0, <2>1, <2>4, <2>5, <2>6, <2>7, <2>8, HandshakeKeeps
<1>4. CASE AuthWrite(s, f)
  <2>1. Runs(s, f, "W", "AUTH_WRITE") /\ "AUTH_WRITE" \notin Late
    BY <1>4 DEF AuthWrite, Late
  <2>2. /\ ses[s] \in Record /\ Lived(ses[s]) /\ ses[s].state = "AUTH_WRITE" /\ ses[s].phase = "live"
        /\ ses[s].dfd = NoFd
    BY <1>0, <2>1, RunsFacts
  <2>3. /\ ses[s].told \in Negotiated /\ ses[s].dns = "none" /\ ses[s].login \in BOOLEAN
        /\ InOrder(ses[s].told)
    BY <2>2, LivedInOrder DEF Lived, Middle, Record
  <2> DEFINE c == IF ses[s].login THEN 0 ELSE 1
             t == Append(ses[s].told, <<"auth", c>>)
             q == Tell(ses[s], "auth", c)
  <2>4. t \in Seq(Message) /\ InOrder(t) /\ (ses[s].login => t \in Admission(ses[s].login))
    BY <2>3, AfterAuth
  <2>5. q = [ses[s] EXCEPT !.told = t]
    BY DEF Tell
  <2>6. /\ ses[s].login => Continue(s, f, "W", [q EXCEPT !.state = "REQUEST_READ"], SetInterest(item, f, {"R"}))
        /\ ~ses[s].login => Fail(s, f, "W", q, sock, item)
    BY <1>4 DEF AuthWrite
  <2> HIDE DEF q, t
  <2>7. /\ q \in Record /\ q.phase = "live" /\ q.cfd = ses[s].cfd /\ q.dfd = NoFd
        /\ q.told = t /\ q.login = ses[s].login /\ q.dns = "none"
    BY <2>2, <2>3, <2>4, <2>5 DEF Record, Message
  <2>a. ~Admitted(ses[s].told, ses[s].login)
    <3>1. PICK m \in {2, NoMethod} : ses[s].told = << <<"method", m>> >>
      BY <2>3 DEF Negotiated
    <3>2. <<"method", m>> # <<"method", 0>>
      BY DEF NoMethod
    <3> QED
      BY <3>1, <3>2 DEF Admitted
  <2>8. CASE ses[s].login
    <3> DEFINE r == [q EXCEPT !.state = "REQUEST_READ"]
    <3>1. /\ r \in Record /\ r.phase = "live" /\ r.cfd = ses[s].cfd /\ r.dfd = NoFd
          /\ r.state = "REQUEST_READ" /\ r.told = t /\ r.login = ses[s].login /\ r.dns = "none"
      BY <2>7 DEF Record, State, Readers
    <3>2. Continue(s, f, "W", r, SetInterest(item, f, {"R"}))
      BY <2>6, <2>8
    <3> HIDE DEF r
    <3>3. Lived(r)
      BY <2>2, <2>4, <2>8, <3>1 DEF Lived, Early, Middle, Asking, Final, Late
    <3>4. {"R"} \in SUBSET Op /\ r.state \notin Writing
      BY <1>0, <3>1 DEF Writing
    <3> QED
      BY <1>0, <2>1, <2>a, <3>1, <3>2, <3>3, <3>4, HandshakeKeeps
  <2>9. CASE ~ses[s].login
    <3>1. Fail(s, f, "W", q, sock, item)
      BY <2>6, <2>9
    <3> QED
      BY <1>0, <2>1, <2>2, <2>4, <2>7, <2>a, <3>1, FailKeeps
  <2> QED
    BY <2>8, <2>9
<1> QED
  BY <1>1, <1>2, <1>3, <1>4

\* From the request to the attempt to connect, the client's descriptor waits.
LEMMA AwaitKeeps ==
  ASSUME IInv, NEW s \in Session, NEW f \in Fd, NEW op \in Op,
         NEW st \in {"REQUEST_READ", "DNS_LOOKUP"}, Runs(s, f, op, st),
         NEW next \in {"DNS_LOOKUP", "DEST_CONNECT", "REQUEST_WRITE"},
         NEW r \in Record, r.phase = "live", r.cfd = ses[s].cfd, r.dfd = ses[s].dfd,
         r.told = ses[s].told, r.login = ses[s].login,
         next # "DNS_LOOKUP" => r.dns = "none",
         AwaitWrite(s, f, op, next, r)
  PROVE  IInv'
<1> DEFINE q == [r EXCEPT !.state = next]
<1>1. st \notin Late
  BY DEF Late
<1>2. ses[s] \in Record /\ Lived(ses[s]) /\ ses[s].state = st /\ ses[s].dfd = NoFd
  BY <1>1, RunsFacts
<1>3. /\ q \in Record /\ q.phase = "live" /\ q.cfd = ses[s].cfd /\ q.dfd = NoFd /\ q.state = next
      /\ q.told = ses[s].told /\ q.login = ses[s].login /\ q.dns = r.dns
  BY <1>2 DEF Record, State, Writers
<1>4. Continue(s, f, op, q, SetInterest(item, f, {"W"}))
  BY DEF AwaitWrite
<1> HIDE DEF q
<1>5. Lived(q)
  BY <1>2, <1>3 DEF Lived, Early, Middle, Asking, Final, Late
<1>6. {"W"} \in SUBSET Op /\ q.state \notin Reading
  BY <1>3 DEF Op, Reading
<1> QED
  BY <1>1, <1>3, <1>4, <1>5, <1>6, HandshakeKeeps

\* The handler that reads the request.
LEMMA RequestKeeps ==
  ASSUME IInv, NEW s \in Session, NEW f \in Fd,
         RequestFails(s, f) \/ RequestRefused(s, f) \/ RequestAddress(s, f) \/ RequestName(s, f)
  PROVE  IInv'
<1>0. "R" \in Op
  BY DEF Op
<1>1. Runs(s, f, "R", "REQUEST_READ")
  BY DEF RequestFails, RequestRefused, RequestAddress, RequestName
<1>2. /\ ses[s] \in Record /\ Lived(ses[s]) /\ ses[s].state = "REQUEST_READ" /\ ses[s].phase = "live"
      /\ ses[s].dns = "none"
  BY <1>0, <1>1, RunsFacts DEF Lived
<1>3. InOrder(ses[s].told)
  BY <1>2, LivedInOrder
<1>4. CASE RequestFails(s, f)
  <2> DEFINE r == [ses[s] EXCEPT !.err = 1]
  <2>1. /\ r \in Record /\ r.cfd = ses[s].cfd /\ r.dfd = ses[s].dfd /\ r.dns = "none"
        /\ r.told = ses[s].told /\ r.login = ses[s].login
    BY <1>2 DEF Record
  <2>2. Fail(s, f, "R", r, sock, item)
    BY <1>4 DEF RequestFails
  <2> HIDE DEF r
  <2> QED
    BY <1>0, <1>1, <1>3, <2>1, <2>2, FailKeeps
<1>5. CASE RequestRefused(s, f)
  <2>1. PICK code \in {1, 4, 7} : AwaitWrite(s, f, "R", "REQUEST_WRITE", [ses[s] EXCEPT !.reply = code])
    BY <1>5 DEF RequestRefused
  <2> DEFINE r == [ses[s] EXCEPT !.reply = code]
  <2>2. /\ r \in Record /\ r.phase = "live" /\ r.cfd = ses[s].cfd /\ r.dfd = ses[s].dfd
        /\ r.dns = "none" /\ r.told = ses[s].told /\ r.login = ses[s].login
    BY <1>2 DEF Record, Reply
  <2>3. AwaitWrite(s, f, "R", "REQUEST_WRITE", r)
    BY <2>1
  <2> HIDE DEF r
  <2> QED
    BY <1>0, <1>1, <2>2, <2>3, AwaitKeeps
<1>6. CASE RequestAddress(s, f)
  <2> DEFINE r == [ses[s] EXCEPT !.addrs = 1]
  <2>1. 1 \in 0..MaxAddrs
    BY SessionAssumption
  <2>2. /\ r \in Record /\ r.phase = "live" /\ r.cfd = ses[s].cfd /\ r.dfd = ses[s].dfd
        /\ r.dns = "none" /\ r.told = ses[s].told /\ r.login = ses[s].login
    BY <1>2, <2>1 DEF Record
  <2>3. AwaitWrite(s, f, "R", "DEST_CONNECT", r)
    BY <1>6 DEF RequestAddress
  <2> HIDE DEF r
  <2> QED
    BY <1>0, <1>1, <2>2, <2>3, AwaitKeeps
<1>7. CASE RequestName(s, f)
  <2> DEFINE r == [ses[s] EXCEPT !.dns = "pending"]
  <2>1. /\ r \in Record /\ r.phase = "live" /\ r.cfd = ses[s].cfd /\ r.dfd = ses[s].dfd
        /\ r.told = ses[s].told /\ r.login = ses[s].login
    BY <1>2 DEF Record
  <2>2. AwaitWrite(s, f, "R", "DNS_LOOKUP", r)
    BY <1>7 DEF RequestName
  <2> HIDE DEF r
  <2> QED
    BY <1>0, <1>1, <2>1, <2>2, AwaitKeeps
<1> QED
  BY <1>4, <1>5, <1>6, <1>7

\* The handler that asks for the result of the lookup.
LEMMA DnsLookupKeeps ==
  ASSUME IInv, NEW s \in Session, NEW f \in Fd, DnsLookup(s, f)
  PROVE  IInv'
<1>0. "W" \in Op
  BY DEF Op
<1>1. Runs(s, f, "W", "DNS_LOOKUP")
  BY DEF DnsLookup
<1>2. ses[s] \in Record /\ Lived(ses[s]) /\ ses[s].phase = "live"
  BY <1>0, <1>1, RunsFacts
<1>3. CASE AwaitWrite(s, f, "W", "DNS_LOOKUP", ses[s])
  BY <1>0, <1>1, <1>2, <1>3, AwaitKeeps
<1>4. ASSUME NEW n \in 1..MaxAddrs,
             AwaitWrite(s, f, "W", "DEST_CONNECT", [ses[s] EXCEPT !.dns = "none", !.addrs = n])
      PROVE  IInv'
  <2> DEFINE r == [ses[s] EXCEPT !.dns = "none", !.addrs = n]
  <2>1. n \in 0..MaxAddrs
    BY SessionAssumption
  <2>2. /\ r \in Record /\ r.phase = "live" /\ r.cfd = ses[s].cfd /\ r.dfd = ses[s].dfd
        /\ r.dns = "none" /\ r.told = ses[s].told /\ r.login = ses[s].login
    BY <1>2, <2>1 DEF Record
  <2>3. AwaitWrite(s, f, "W", "DEST_CONNECT", r)
    BY <1>4
  <2> HIDE DEF r
  <2> QED
    BY <1>0, <1>1, <2>2, <2>3, AwaitKeeps
<1>5. CASE Fail(s, f, "W", [ses[s] EXCEPT !.dns = "none", !.err = 4], sock, item)
  <2> DEFINE r == [ses[s] EXCEPT !.dns = "none", !.err = 4]
  <2>1. /\ r \in Record /\ r.cfd = ses[s].cfd /\ r.dfd = ses[s].dfd /\ r.dns = "none"
        /\ r.told = ses[s].told /\ r.login = ses[s].login
    BY <1>2 DEF Record
  <2>2. Fail(s, f, "W", r, sock, item)
    BY <1>5
  <2>3. InOrder(ses[s].told)
    BY <1>2, LivedInOrder
  <2> HIDE DEF r
  <2> QED
    BY <1>0, <1>1, <2>1, <2>2, <2>3, FailKeeps
<1> QED
  BY <1>3, <1>4, <1>5 DEF DnsLookup

\* The attempt is reported to the client, or given up.
LEMMA ConnectKeeps ==
  ASSUME IInv, NEW s \in Session, NEW f \in Fd, ConnectReported(s, f) \/ ConnectFails(s, f)
  PROVE  IInv'
<1>0. "W" \in Op /\ NoFd \notin Fd
  BY DEF Op, NoFd, Fd
<1>1. Runs(s, f, "W", "DEST_CONNECT")
  BY DEF ConnectReported, ConnectFails, Retrying, Connecting
<1>2. /\ status = "running" /\ Live(s) /\ ses[s].phase = "live" /\ ses[s].state = "DEST_CONNECT"
      /\ ses[s] \in Record /\ Lived(ses[s]) /\ ses[s].dns = "none"
      /\ item[f].data = s /\ item[f] # Unused
  BY <1>0, <1>1, RunsFacts DEF Lived
<1>3. /\ Watched(ses[s], item) /\ Holds(s, ses[s], sock, item) /\ FdInv(f)
      /\ item \in [Fd -> Item] /\ sock \in [Fd -> Socket]
      /\ ses[s].cfd \in Fd /\ ses[s].dfd \in Fd \cup {NoFd}
  BY <1>2, Ownership DEF IInv
<1>4. ses[s].login \in BOOLEAN /\ ses[s].told \in Admission(ses[s].login)
  BY <1>2 DEF Record, Lived, Asking
<1>5. CASE ConnectReported(s, f)
  <2> DEFINE r == [ses[s] EXCEPT !.state = "REQUEST_WRITE", !.reply = 0]
             it == SetInterest(item, ses[s].cfd, {"W"})
  <2>1. Continue(s, f, "W", r, it)
    BY <1>5 DEF ConnectReported
  <2>2. /\ r \in Record /\ r.phase = "live" /\ r.cfd = ses[s].cfd /\ r.dfd = ses[s].dfd
        /\ r.state = "REQUEST_WRITE" /\ r.told = ses[s].told /\ r.login = ses[s].login
        /\ r.dns = "none"
    BY <1>2 DEF Record, State, Writers, Reply
  <2>3. {"W"} \in SUBSET Op /\ item[ses[s].cfd] # Unused
    BY <1>0, <1>3, SessionAssumption DEF Holds, Unused
  <2>4. /\ it \in [Fd -> Item] /\ \A g \in Fd : it[g].data = item[g].data
        /\ \A g \in Fd \ {ses[s].cfd} : it[g] = item[g] /\ it[ses[s].cfd].interest = {"W"}
    BY <1>3, <2>3, SetInterestFacts
  <2>5. it[ses[s].cfd].interest = {"W"}
    BY <1>3, <2>3, SetInterestFacts
  <2> HIDE DEF r, it
  <2>6. Lived(r)
    BY <1>2, <2>2 DEF Lived, Early, Middle, Asking, Final, Late
  <2>7. Watched(r, it)
    <3>1. ses[s].dfd # NoFd => it[ses[s].dfd].interest = {"W"}
      BY <1>2, <1>3, <2>4 DEF Watched, Writing, Lived
    <3> QED
      BY <2>2, <2>5, <3>1 DEF Watched, Reading
  <2>8. r.state \in Late
    BY <2>2 DEF Late
  <2> QED
    BY <1>0, <1>2, <2>1, <2>2, <2>4, <2>6, <2>7, <2>8, ContinueKeeps
<1>6. CASE ConnectFails(s, f)
  <2> DEFINE q == [ses[s] EXCEPT !.dfd = NoFd, !.err = 3]
             r == [q EXCEPT !.state = "ERROR"]
             k == LeftSockets(s)
  <2>1. Destroy(s, f, "W", r, k, SetInterest(item, f, {"W"}))
    BY <1>6 DEF ConnectFails, Fail
  <2>2. SetInterest(item, f, {"W"}) = item
    <3>1. item[f].interest = {"W"}
      <4>1. CASE Owns(s, f)
        BY <1>0, <1>2, <1>3, <4>1 DEF Owns, Watched, Writing
      <4>2. CASE ~Owns(s, f)
        BY <1>2, <1>3, <4>2, SessionAssumption DEF FdInv, LeftBy
      <4> QED
        BY <4>1, <4>2
    <3> QED
      BY <1>3, <3>1 DEF SetInterest, Item
  <2>3. /\ r \in Record /\ r.cfd = ses[s].cfd /\ r.dfd = NoFd /\ r.state = "ERROR"
        /\ r.told = ses[s].told /\ r.login = ses[s].login /\ r.dns = "none"
    BY <1>2 DEF Record, State
  <2>4. k \in [Fd -> Socket]
    BY <1>3 DEF LeftSockets, Close, Socket
  <2>5. k = LeftSockets(s) /\ Destroy(s, f, "W", r, k, item)
    BY <2>1, <2>2
  <2>6. InOrder(ses[s].told) /\ Admitted(ses[s].told, ses[s].login)
    BY <1>4, Beginnings
  <2> HIDE DEF r, k
  <2> QED
    BY <1>0, <1>2, <2>3, <2>4, <2>5, <2>6, DestroyKeeps
<1> QED
  BY <1>5, <1>6

\* The interests of both descriptors are set.
LEMMA BothKeep ==
  ASSUME IInv, status = "running",
         NEW s \in Session, NEW f \in Fd, NEW op \in Op, Live(s),
         NEW r \in Record, r.phase = "live", r.cfd = ses[s].cfd, r.dfd = ses[s].dfd, Lived(r),
         r.state \in Final, NEW i \in SUBSET Op,
         Admitted(ses[s].told, ses[s].login) => Admitted(r.told, r.login),
         Continue(s, f, op, r, SetInterest(SetInterest(item, r.cfd, i), r.dfd, i))
  PROVE  IInv'
<1> DEFINE a == SetInterest(item, r.cfd, i)
           it == SetInterest(a, r.dfd, i)
<1>1. item \in [Fd -> Item] /\ r.cfd \in Fd \cup {NoFd} /\ r.dfd \in Fd \cup {NoFd}
  BY DEF IInv, Record
<1>2. /\ a \in [Fd -> Item] /\ \A g \in Fd : a[g].data = item[g].data
      /\ \A g \in Fd \ {r.cfd} : a[g] = item[g]
  BY <1>1, SetInterestFacts
<1> HIDE DEF a
<1>3. /\ it \in [Fd -> Item] /\ \A g \in Fd : it[g].data = a[g].data
      /\ \A g \in Fd \ {r.dfd} : it[g] = a[g]
  <2> DEFINE d == r.dfd
  <2>1. d \in Fd \cup {NoFd}
    BY <1>1
  <2> HIDE DEF d
  <2>2. /\ SetInterest(a, d, i) \in [Fd -> Item]
        /\ \A g \in Fd : SetInterest(a, d, i)[g].data = a[g].data
        /\ \A g \in Fd \ {d} : SetInterest(a, d, i)[g] = a[g]
    BY <1>2, <2>1, SetInterestFacts
  <2> QED
    BY <2>2 DEF d
<1>4. Continue(s, f, op, r, it)
  BY DEF a
<1> HIDE DEF it
<1>5. \A g \in Fd : it[g].data = item[g].data
  BY <1>2, <1>3
<1>6. \A g \in Fd \ {r.cfd, r.dfd} : it[g] = item[g]
  BY <1>2, <1>3
<1>7. Watched(r, it) /\ r.state \in Late
  BY DEF Watched, Final, Reading, Writing, Late
<1> QED
  BY <1>3, <1>4, <1>5, <1>6, <1>7, ContinueKeeps

\* The handler that sends the reply.
LEMMA ReplyKeeps ==
  ASSUME IInv, NEW s \in Session, NEW f \in Fd, RequestWrite(s, f) \/ RequestWriteFails(s, f)
  PROVE  IInv'
<1>0. "R" \in Op /\ "W" \in Op
  BY DEF Op
<1>1. Runs(s, f, "W", "REQUEST_WRITE")
  BY DEF RequestWrite, RequestWriteFails
<1>2. /\ status = "running" /\ Live(s) /\ ses[s].phase = "live" /\ ses[s].state = "REQUEST_WRITE"
      /\ ses[s] \in Record /\ Lived(ses[s]) /\ ses[s].dns = "none"
  BY <1>0, <1>1, RunsFacts DEF Lived
<1>3. /\ ses[s].login \in BOOLEAN /\ ses[s].told \in Admission(ses[s].login) /\ ses[s].reply \in Reply
      /\ sock \in [Fd -> Socket]
  BY <1>2 DEF Record, Lived, Asking, IInv
<1>4. CASE RequestWriteFails(s, f)
  <2> DEFINE r == [ses[s] EXCEPT !.err = 1]
  <2>1. /\ r \in Record /\ r.cfd = ses[s].cfd /\ r.dfd = ses[s].dfd /\ r.dns = "none"
        /\ r.told = ses[s].told /\ r.login = ses[s].login
    BY <1>2 DEF Record
  <2>2. Fail(s, f, "W", r, sock, item)
    BY <1>4 DEF RequestWriteFails
  <2>3. InOrder(ses[s].told)
    BY <1>2, LivedInOrder
  <2> HIDE DEF r
  <2> QED
    BY <1>0, <1>1, <2>1, <2>2, <2>3, FailKeeps
<1>5. CASE RequestWrite(s, f)
  <2> DEFINE c == ses[s].reply
             t == Append(ses[s].told, <<"reply", c>>)
             q == Tell(ses[s], "reply", c)
  <2>1. t \in Seq(Message) /\ InOrder(t) /\ Admitted(t, ses[s].login) /\ t \in Answer(ses[s].login, c)
    BY <1>3, AfterReply
  <2>2. q = [ses[s] EXCEPT !.told = t]
    BY DEF Tell
  <2>3. IF q.reply # 0 \/ q.dfd = NoFd
        THEN Destroy(s, f, "W", [q EXCEPT !.state = "DONE"], sock, item)
        ELSE Continue(s, f, "W", [q EXCEPT !.state = "FORWARDING"],
                      SetInterest(SetInterest(item, q.cfd, {"R"}), q.dfd, {"R"}))
    BY <1>5 DEF RequestWrite
  <2> HIDE DEF q, t
  <2>4. /\ q \in Record /\ q.phase = "live" /\ q.cfd = ses[s].cfd /\ q.dfd = ses[s].dfd
        /\ q.told = t /\ q.login = ses[s].login /\ q.dns = "none" /\ q.reply = c
    BY <1>2, <2>1, <2>2 DEF Record, Message
  <2>5. CASE q.reply # 0 \/ q.dfd = NoFd
    <3> DEFINE r == [q EXCEPT !.state = "DONE"]
    <3>1. /\ r \in Record /\ r.cfd = ses[s].cfd /\ r.dfd = ses[s].dfd /\ r.dns = "none"
          /\ r.told = t /\ r.login = ses[s].login /\ r.state = "DONE"
      BY <2>4 DEF Record, State
    <3>2. Destroy(s, f, "W", r, sock, item)
      BY <2>3, <2>5
    <3> HIDE DEF r
    <3> QED
      BY <1>0, <1>2, <1>3, <2>1, <3>1, <3>2, DestroyKeeps
  <2>6. CASE ~(q.reply # 0 \/ q.dfd = NoFd)
    <3> DEFINE r == [q EXCEPT !.state = "FORWARDING"]
    <3>1. /\ r \in Record /\ r.phase = "live" /\ r.cfd = ses[s].cfd /\ r.dfd = ses[s].dfd
          /\ r.dns = "none" /\ r.told = t /\ r.login = ses[s].login /\ r.state = "FORWARDING"
      BY <2>4 DEF Record, State, Readers
    <3>2. Continue(s, f, "W", r, SetInterest(SetInterest(item, r.cfd, {"R"}), r.dfd, {"R"}))
      BY <2>3, <2>4, <2>6, <3>1
    <3>3. c = 0
      BY <2>4, <2>6
    <3> HIDE DEF r, c
    <3>4. Lived(r)
      BY <1>2, <2>1, <3>1, <3>3 DEF Lived, Early, Middle, Asking, Final, Late
    <3>5. {"R"} \in SUBSET Op /\ r.state \in Final
      BY <1>0, <3>1 DEF Final
    <3> QED
      BY <1>0, <1>2, <2>1, <3>1, <3>2, <3>4, <3>5, BothKeep
  <2> QED
    BY <2>5, <2>6
<1> QED
  BY <1>4, <1>5

\* A session that forwards.
LEMMA ForwardKeeps ==
  ASSUME IInv, NEW s \in Session, NEW f \in Fd, NEW op \in Op,
         ForwardOn(s, f, op) \/ ForwardEnds(s, f, op)
  PROVE  IInv'
<1>1. Runs(s, f, op, "FORWARDING")
  BY DEF ForwardOn, ForwardEnds, Forwarding
<1>2. /\ status = "running" /\ Live(s) /\ ses[s].phase = "live" /\ ses[s].state = "FORWARDING"
      /\ ses[s] \in Record /\ Lived(ses[s]) /\ ses[s].dns = "none" /\ sock \in [Fd -> Socket]
  BY <1>1, RunsFacts DEF Lived, IInv
<1>3. InOrder(ses[s].told)
  BY <1>2, LivedInOrder
<1>4. CASE ForwardOn(s, f, op)
  <2>1. PICK st \in {"FORWARDING", "DONE"} :
          Continue(s, f, op, [ses[s] EXCEPT !.state = st],
                   SetInterest(SetInterest(item, ses[s].cfd, Op), ses[s].dfd, Op))
    BY <1>4 DEF ForwardOn
  <2> DEFINE r == [ses[s] EXCEPT !.state = st]
  <2>2. /\ r \in Record /\ r.phase = "live" /\ r.cfd = ses[s].cfd /\ r.dfd = ses[s].dfd
        /\ r.dns = "none" /\ r.told = ses[s].told /\ r.login = ses[s].login /\ r.state = st
    BY <1>2 DEF Record, State, Readers
  <2>3. Continue(s, f, op, r, SetInterest(SetInterest(item, r.cfd, Op), r.dfd, Op))
    BY <2>1, <2>2
  <2> HIDE DEF r
  <2>4. Lived(r)
    BY <1>2, <2>2 DEF Lived, Early, Middle, Asking, Final, Late
  <2>5. Op \in SUBSET Op /\ r.state \in Final
    BY <2>2 DEF Final
  <2> QED
    BY <1>2, <2>2, <2>3, <2>4, <2>5, BothKeep
<1>5. CASE Destroy(s, f, op, [ses[s] EXCEPT !.state = "DONE"], sock, item)
  <2> DEFINE r == [ses[s] EXCEPT !.state = "DONE"]
  <2>1. /\ r \in Record /\ r.cfd = ses[s].cfd /\ r.dfd = ses[s].dfd /\ r.dns = "none"
        /\ r.told = ses[s].told /\ r.login = ses[s].login /\ r.state = "DONE"
    BY <1>2 DEF Record, State
  <2>2. Destroy(s, f, op, r, sock, item)
    BY <1>5
  <2> HIDE DEF r
  <2> QED
    BY <1>2, <1>3, <2>1, <2>2, DestroyKeeps
<1>6. CASE Fail(s, f, op, ses[s], sock, item)
  BY <1>1, <1>2, <1>3, <1>6, FailKeeps
<1> QED
  BY <1>4, <1>5, <1>6 DEF ForwardEnds
-----------------------------------------------------------------------------
(* The invariant and what follows from it.                                 *)

\* Every step keeps the invariant.
LEMMA NextInv == IInv /\ [Next]_vars => IInv'
<1> SUFFICES ASSUME IInv, [Next]_vars PROVE IInv'
  OBVIOUS
<1>1. ASSUME NEW s \in Session, NEW f \in Fd, Reads(s, f) PROVE IInv'
  BY <1>1, ReadMoreKeeps, HelloKeeps, AuthKeeps, RequestKeeps DEF Reads
<1>2. ASSUME NEW s \in Session, NEW f \in Fd, Writes(s, f) PROVE IInv'
  BY <1>2, HelloKeeps, AuthKeeps, DnsLookupKeeps, ConnectKeeps, ConnectStartsKeeps, ReplyKeeps DEF Writes
<1>3. ASSUME NEW s \in Session, NEW f \in Fd, Forwards(s, f) PROVE IInv'
  BY <1>3, ForwardKeeps DEF Forwards
<1>4. CASE Loop
  BY <1>1, <1>2, <1>3, <1>4, LoopKeeps DEF Loop, Handlers
<1>5. CASE World
  BY <1>5, LoopKeeps, AcceptKeeps, ResolveKeeps, ConnectEndsKeeps DEF World
<1>6. CASE UNCHANGED vars
  BY <1>6, LoopKeeps
<1> QED
  BY <1>4, <1>5, <1>6 DEF Next

\* Every reachable state satisfies the invariant: the messages, interests and
\* descriptors of each session are those of its state.
THEOREM SpecInv == Spec => []IInv
  BY InitInv, NextInv, PTL DEF Spec

\* The records, the tables and the counters have their types.
THEOREM SessionTypes == Spec => []TypeOK
<1>1. IInv => TypeOK
  <2> SUFFICES ASSUME IInv PROVE TypeOK
    OBVIOUS
  <2>1. LiveOnes \subseteq Born /\ IsFiniteSet(Born)
    BY DEF IInv, Counted, LiveOnes, Born, Live
  <2>2. current \in Nat /\ historic \in Nat
    BY <2>1, FS_Subset, FS_CardinalityType DEF IInv, Counted
  <2> QED
    BY <2>2 DEF IInv, TypeOK, Record, Socket, Item
<1> QED
  BY <1>1, SpecInv, PTL

\* The statistics count the live sessions and those that ever were.
THEOREM StatisticsCount == Spec => []StatsMatch
<1>1. IInv => StatsMatch
  BY DEF IInv, Counted, LiveOnes, Born, StatsMatch
<1> QED
  BY <1>1, SpecInv, PTL

\* Every open descriptor has one owner, and its callbacks get that owner's record.
THEOREM OneOwner == Spec => []DescriptorsOwned
<1>1. IInv => DescriptorsOwned
  BY Ownership DEF DescriptorsOwned
<1> QED
  BY <1>1, SpecInv, PTL

\* Nothing is looked up or connected for a client that was not admitted.
THEOREM OnlyAdmitted == Spec => []AuthGate
<1>1. IInv => AuthGate
  <2> SUFFICES ASSUME IInv, NEW s \in Session,
                      \/ ses[s].state \in Asking \cup {"FORWARDING"}
                      \/ ses[s].dfd # NoFd \/ ses[s].dns # "none"
               PROVE  Authenticated(s)
    BY DEF AuthGate, Asking
  <2>1. ses[s] \in Record /\ RecordInv(ses[s])
    BY DEF IInv
  <2>2. ses[s].phase = "live" /\ Lived(ses[s])
    BY <2>1 DEF RecordInv, Record, Unborn, Ended, Asking
  <2>3. ses[s].state \in Asking \cup Final /\ ses[s].login \in BOOLEAN
    BY <2>1, <2>2 DEF Lived, Asking, Final, Late, Record
  <2>4. Admitted(ses[s].told, ses[s].login)
    <3>1. CASE ses[s].state \in Asking
      BY <2>2, <2>3, <3>1, Beginnings DEF Lived
    <3>2. CASE ses[s].state \in Final
      <4>1. PICK t \in Admission(ses[s].login) : ses[s].told = Append(t, <<"reply", 0>>)
        BY <2>2, <3>2 DEF Lived, Answer
      <4> QED
        BY <2>3, <4>1, AfterReply DEF Reply
    <3> QED
      BY <2>3, <3>1, <3>2
  <2> QED
    BY <2>4 DEF Admitted, Authenticated
<1> QED
  BY <1>1, SpecInv, PTL

\* The client is told the method, the outcome and the reply, once and in order.
THEOREM InOrderOnce == Spec => []RepliesInOrder
<1>1. ASSUME IInv, NEW s \in Session
      PROVE  /\ InOrder(ses[s].told)
             /\ Live(s) /\ ses[s].state \in {"FORWARDING", "DONE"} =>
                  Answered(s) /\ ses[s].told[Len(ses[s].told)][2] = 0
  <2>1. ses[s] \in Record /\ RecordInv(ses[s]) /\ ses[s].phase \in {"unborn", "live", "freed"}
    BY <1>1 DEF IInv, Record
  <2>2. InOrder(ses[s].told)
    BY <2>1, LivedInOrder, Beginnings DEF RecordInv, Ended, Unborn
  <2>3. ASSUME Live(s), ses[s].state \in {"FORWARDING", "DONE"}
        PROVE  Answered(s) /\ ses[s].told[Len(ses[s].told)][2] = 0
    <3> DEFINE u == ses[s].told
    <3>1. PICK t \in Admission(ses[s].login) : u = Append(t, <<"reply", 0>>)
      BY <2>1, <2>3 DEF Live, RecordInv, Lived, Final, Answer
    <3>2. ses[s].login \in BOOLEAN
      BY <2>1 DEF Record
    <3>3. /\ u # <<>> /\ u[Len(u)] = <<"reply", 0>>
          /\ Len(u) = IF u[1] = <<"method", 0>> THEN 2 ELSE 3
      BY <3>1, <3>2, AfterReply DEF Reply
    <3> QED
      BY <3>3 DEF Answered
  <2> QED
    BY <2>2, <2>3
<1>2. IInv => RepliesInOrder
  BY <1>1 DEF RepliesInOrder, InOrder
<1> QED
  BY <1>2, SpecInv, PTL

\* A lookup in flight has its session.
THEOREM LookupsOwned == Spec => []LookupOwned
<1>1. IInv => LookupOwned
  <2> SUFFICES ASSUME IInv, NEW s \in Session, ses[s].dns # "none"
               PROVE  Live(s) /\ ses[s].state = "DNS_LOOKUP"
    BY DEF LookupOwned
  <2>1. ses[s] \in Record /\ RecordInv(ses[s])
    BY DEF IInv
  <2> QED
    BY <2>1 DEF RecordInv, Record, Unborn, Ended, Lived, Live
<1> QED
  BY <1>1, SpecInv, PTL

\* Only a session that DONE left behind meets a state without a handler.
THEOREM AbortsExplained == Spec => []AbortsOnlyAfterForwarding
<1>1. IInv => AbortsOnlyAfterForwarding
  BY DEF IInv, Stopped, AbortsOnlyAfterForwarding
<1> QED
  BY <1>1, SpecInv, PTL

\* What is left behind is the item of a refused attempt of an admitted session
\* (request.c:520).
THEOREM StaleItemsExplained == Spec => []OnlyRetriesLeaveItems
<1>1. ASSUME IInv, ~Serving PROVE \E f \in Fd : Stale(f)
  <2>1. PICK f \in Fd : item[f].interest # {} /\ sock[f] = "free"
    BY <1>1 DEF Serving
  <2>2. item[f] # Unused /\ FdInv(f) /\ item[f] \in Item
    BY <1>1, <2>1 DEF Unused, IInv
  <2>3. item[f].data \in Session
    BY <2>2 DEF FdInv, Item
  <2>4. ~Owns(item[f].data, f)
    BY <1>1, <2>1, <2>3, Ownership
  <2> QED
    BY <2>2, <2>4 DEF Stale
<1>2. ASSUME IInv, NEW f \in Fd, Stale(f)
      PROVE  Authenticated(item[f].data) /\ item[f].interest = {"W"}
  <2>1. FdInv(f) /\ item[f] # Unused /\ ~Owns(item[f].data, f)
    BY <1>2 DEF IInv, Stale
  <2>2. LeftBy(ses[item[f].data], item[f])
    BY <2>1 DEF FdInv
  <2> QED
    BY <2>2 DEF LeftBy, Admitted, Authenticated
<1>3. IInv => OnlyRetriesLeaveItems
  BY <1>1, <1>2 DEF OnlyRetriesLeaveItems, IInv, Stopped
<1> QED
  BY <1>3, SpecInv, PTL
-----------------------------------------------------------------------------
(* What a step may never do: no callback of one session touches another.   *)

\* The sockets k and the items it are those of now, except for descriptors of
\* s and descriptors nobody has.
Mine(s, f) == f \in Fd => Owns(s, f) \/ sock[f] = "free"
Within(s, k, it) ==
  /\ DOMAIN k = Fd /\ DOMAIN it = Fd
  /\ \A g \in Fd : ~Mine(s, g) => k[g] = sock[g] /\ it[g] = item[g]

\* A step of session s alone.
StepOf(s) == /\ \A t \in Session \ {s} : ses'[t] = ses[t]
             /\ Within(s, sock', item')

LEMMA WithinNow ==
  ASSUME IInv, NEW s
  PROVE  Within(s, sock, item)
BY DEF IInv, Within

LEMMA SetInterestWithin ==
  ASSUME NEW s, NEW k, NEW it, Within(s, k, it), NEW f, Mine(s, f), NEW i
  PROVE  Within(s, k, SetInterest(it, f, i))
BY DEF Within, SetInterest, Mine

LEMMA CloseWithin ==
  ASSUME NEW s, NEW k, NEW it, Within(s, k, it), NEW f, Mine(s, f)
  PROVE  Within(s, Close(k, f), it)
BY DEF Within, Close, Mine

LEMMA UnregisterWithin ==
  ASSUME NEW s, NEW k, NEW it, Within(s, k, it), NEW f, Mine(s, f)
  PROVE  Within(s, k, Unregister(it, f))
BY DEF Within, Unregister, Mine

\* The descriptor a handler is called for, and those in the record, are the
\* session's or nobody's.
LEMMA RunsMine ==
  ASSUME IInv, NEW s \in Session, NEW f \in Fd, NEW op \in Op, NEW st, Runs(s, f, op, st)
  PROVE  /\ Live(s) /\ Mine(s, f) /\ Mine(s, NoFd)
         /\ Mine(s, ses[s].cfd) /\ Mine(s, ses[s].dfd)
<1>1. Live(s) /\ item[f].data = s
  BY RunsFacts
<1>2. NoFd \notin Fd
  BY DEF NoFd, Fd
<1>3. sock[f] # "free" => Owns(s, f)
  BY <1>1, Ownership
<1> QED
  BY <1>1, <1>2, <1>3 DEF Mine, Owns

LEMMA ReturnIsStep ==
  ASSUME NEW s, NEW f, NEW op, NEW r, NEW k, NEW it, Within(s, k, it),
         ses \in [Session -> Record], Return(s, f, op, r, k, it)
  PROVE  StepOf(s)
BY DEF Return, StepOf, Record

LEMMA ContinueIsStep ==
  ASSUME IInv, NEW s \in Session, NEW f \in Fd, NEW op \in Op, NEW r, NEW it,
         Within(s, sock, it), Continue(s, f, op, r, it)
  PROVE  StepOf(s)
<1>1. ses \in [Session -> Record]
  BY DEF IInv
<1> QED
  BY <1>1, ReturnIsStep DEF Continue

\* The end of a session, from whatever state, closes and unregisters its own
\* descriptors.
LEMMA DestroyIsStep ==
  ASSUME IInv, NEW s \in Session, NEW f \in Fd, NEW op \in Op, NEW r, NEW k, NEW it,
         Within(s, k, it), Mine(s, r.cfd), Mine(s, r.dfd), Destroy(s, f, op, r, k, it)
  PROVE  StepOf(s)
<1> DEFINE l == Close(Close(k, r.cfd), r.dfd)
           o == Unregister(Unregister(it, r.cfd), r.dfd)
           e == [r EXCEPT !.phase = "freed", !.cfd = NoFd, !.dfd = NoFd, !.addrs = 0,
                          !.dns = IF @ = "pending" THEN @ ELSE "none"]
<1>1. Within(s, l, it)
  BY CloseWithin, Zenon
<1>2. Within(s, l, o)
  <2> HIDE DEF l
  <2> QED
    BY <1>1, UnregisterWithin, Zenon
<1>3. ses \in [Session -> Record] /\ Return(s, f, op, e, l, o)
  BY DEF IInv, Destroy
<1> HIDE DEF l, o, e
<1> QED
  BY <1>2, <1>3, ReturnIsStep, Zenon

LEMMA FailIsStep ==
  ASSUME IInv, NEW s \in Session, NEW f \in Fd, NEW op \in Op, NEW r \in Record, NEW k, NEW it,
         Within(s, k, it), Mine(s, r.cfd), Mine(s, r.dfd), Fail(s, f, op, r, k, it)
  PROVE  StepOf(s)
<1> DEFINE e == [r EXCEPT !.state = "ERROR"]
<1>1. e.cfd = r.cfd /\ e.dfd = r.dfd
  BY DEF Record
<1>2. Destroy(s, f, op, e, k, it)
  BY DEF Fail
<1> HIDE DEF e
<1> QED
  BY <1>1, <1>2, DestroyIsStep

\* The handler goes on, waiting for something else on its descriptor.
LEMMA GoesOn ==
  ASSUME IInv, NEW s \in Session, NEW f \in Fd, NEW op \in Op, NEW st, Runs(s, f, op, st),
         NEW r, NEW i, Continue(s, f, op, r, SetInterest(item, f, i))
  PROVE  Live(s) /\ StepOf(s)
<1>1. Live(s) /\ Mine(s, f)
  BY RunsMine
<1>2. Within(s, sock, SetInterest(item, f, i))
  BY <1>1, WithinNow, SetInterestWithin
<1> QED
  BY <1>1, <1>2, ContinueIsStep

\* The handler ends the session, which has the descriptors it had.
LEMMA EndsIt ==
  ASSUME IInv, NEW s \in Session, NEW f \in Fd, NEW op \in Op, NEW st, Runs(s, f, op, st),
         NEW r, r.cfd = ses[s].cfd, r.dfd = ses[s].dfd, Destroy(s, f, op, r, sock, item)
  PROVE  Live(s) /\ StepOf(s)
<1>1. Live(s) /\ Mine(s, r.cfd) /\ Mine(s, r.dfd)
  BY RunsMine
<1>2. Within(s, sock, item)
  BY WithinNow
<1> QED
  BY <1>1, <1>2, DestroyIsStep

LEMMA FailsIt ==
  ASSUME IInv, NEW s \in Session, NEW f \in Fd, NEW op \in Op, NEW st, Runs(s, f, op, st),
         NEW r \in Record, r.cfd = ses[s].cfd, r.dfd = ses[s].dfd, Fail(s, f, op, r, sock, item)
  PROVE  Live(s) /\ StepOf(s)
<1>1. Live(s) /\ Mine(s, r.cfd) /\ Mine(s, r.dfd)
  BY RunsMine
<1>2. Within(s, sock, item)
  BY WithinNow
<1> QED
  BY <1>1, <1>2, FailIsStep

LEMMA ReadsIsStep ==
  ASSUME IInv, NEW s \in Session, NEW f \in Fd, Reads(s, f)
  PROVE  Live(s) /\ StepOf(s)
<1>0. "R" \in Op /\ ses[s] \in Record
  BY DEF Op, IInv
<1>1. CASE ReadMore(s, f)
  <2>1. PICK st \in {"HELLO_READ", "AUTH_READ", "REQUEST_READ"} : Runs(s, f, "R", st)
    BY <1>1 DEF ReadMore
  <2>2. Continue(s, f, "R", ses[s], item) /\ Within(s, sock, item)
    BY <1>1, WithinNow DEF ReadMore
  <2> QED
    BY <1>0, <2>1, <2>2, RunsMine, ContinueIsStep
<1>2. CASE HelloFails(s, f)
  BY <1>0, <1>2, FailsIt DEF HelloFails
<1>3. CASE HelloDone(s, f)
  BY <1>0, <1>3, GoesOn DEF HelloDone
<1>4. CASE AuthFails(s, f)
  BY <1>0, <1>4, FailsIt DEF AuthFails
<1>5. CASE AuthDone(s, f)
  BY <1>0, <1>5, GoesOn DEF AuthDone
<1>6. CASE RequestFails(s, f)
  <2> DEFINE r == [ses[s] EXCEPT !.err = 1]
  <2>1. r \in Record /\ r.cfd = ses[s].cfd /\ r.dfd = ses[s].dfd
    BY <1>0 DEF Record
  <2>2. Runs(s, f, "R", "REQUEST_READ") /\ Fail(s, f, "R", r, sock, item)
    BY <1>6 DEF RequestFails
  <2> HIDE DEF r
  <2> QED
    BY <1>0, <2>1, <2>2, FailsIt
<1>7. CASE RequestRefused(s, f)
  BY <1>0, <1>7, GoesOn DEF RequestRefused, AwaitWrite
<1>8. CASE RequestAddress(s, f)
  BY <1>0, <1>8, GoesOn DEF RequestAddress, AwaitWrite
<1>9. CASE RequestName(s, f)
  BY <1>0, <1>9, GoesOn DEF RequestName, AwaitWrite
<1> QED
  BY <1>1, <1>2, <1>3, <1>4, <1>5, <1>6, <1>7, <1>8, <1>9 DEF Reads

LEMMA ConnectStartsIsStep ==
  ASSUME IInv, NEW s \in Session, NEW f \in Fd, ConnectStarts(s, f)
  PROVE  Live(s) /\ StepOf(s)
<1> DEFINE k == LeftSockets(s)
           d == LowestFree(k)
<1>1. "W" \in Op /\ Runs(s, f, "W", "DEST_CONNECT") /\ FreeFds(k) # {}
  BY DEF Op, ConnectStarts, Retrying, Connecting
<1>2. Live(s) /\ Mine(s, ses[s].cfd) /\ Mine(s, ses[s].dfd)
  BY <1>1, RunsMine
<1>3. Within(s, k, item)
  BY <1>2, WithinNow, CloseWithin DEF LeftSockets
<1>4. d \in Fd /\ k[d] = "free"
  <2>1. k \in [Fd -> Socket]
    BY DEF LeftSockets, Close, IInv, Socket
  <2> HIDE DEF k
  <2> QED
    BY <1>1, <2>1, LowestIsFree
<1>5. PICK n \in 1..LeftAddrs(s), up \in BOOLEAN :
        LET r  == [ses[s] EXCEPT !.dfd = d, !.addrs = n]
            it == [item EXCEPT ![d] = [data |-> s, interest |-> {"W"}]]
        IN  Return(s, f, "W",
                   IF up THEN [r EXCEPT !.state = "REQUEST_WRITE", !.reply = 0] ELSE r,
                   [k EXCEPT ![d] = IF up THEN "up" ELSE "connecting"],
                   IF up THEN SetInterest(it, r.cfd, {"W"}) ELSE it)
  BY DEF ConnectStarts
<1> DEFINE r  == [ses[s] EXCEPT !.dfd = d, !.addrs = n]
           it == [item EXCEPT ![d] = [data |-> s, interest |-> {"W"}]]
           l  == [k EXCEPT ![d] = IF up THEN "up" ELSE "connecting"]
           e  == IF up THEN [r EXCEPT !.state = "REQUEST_WRITE", !.reply = 0] ELSE r
           o  == IF up THEN SetInterest(it, r.cfd, {"W"}) ELSE it
<1>6. r.cfd = ses[s].cfd /\ ses \in [Session -> Record]
  BY DEF IInv, Record
<1>7. Return(s, f, "W", e, l, o)
  BY <1>5
<1> HIDE DEF k, d
<1>8. Mine(s, d)
  BY <1>3, <1>4 DEF Within, Mine
<1>9. Within(s, l, it)
  BY <1>3, <1>4, <1>8 DEF Within
<1> HIDE DEF l, it, r
<1>10. Within(s, l, o)
  BY <1>2, <1>6, <1>9, SetInterestWithin
<1> HIDE DEF o, e
<1> QED
  BY <1>2, <1>6, <1>7, <1>10, ReturnIsStep

LEMMA HandshakeWritesIsStep ==
  ASSUME IInv, NEW s \in Session, NEW f \in Fd,
         HelloWrite(s, f) \/ AuthWrite(s, f) \/ AuthWriteFails(s, f)
  PROVE  Live(s) /\ StepOf(s)
<1>0. "W" \in Op /\ ses[s] \in Record
  BY DEF Op, IInv
<1>1. CASE HelloWrite(s, f)
  BY <1>0, <1>1, GoesOn, FailsIt DEF HelloWrite
<1>2. CASE AuthWrite(s, f)
  <2> DEFINE r == Tell(ses[s], "auth", IF ses[s].login THEN 0 ELSE 1)
             e == [r EXCEPT !.state = "ERROR"]
  <2>1. /\ Runs(s, f, "W", "AUTH_WRITE")
        /\ \/ Continue(s, f, "W", [r EXCEPT !.state = "REQUEST_READ"], SetInterest(item, f, {"R"}))
           \/ Destroy(s, f, "W", e, sock, item)
    BY <1>2 DEF AuthWrite, Fail
  <2>2. e.cfd = ses[s].cfd /\ e.dfd = ses[s].dfd
    BY <1>0 DEF Tell, Record
  <2> HIDE DEF r, e
  <2> QED
    BY <1>0, <2>1, <2>2, GoesOn, EndsIt
<1>3. CASE AuthWriteFails(s, f)
  BY <1>0, <1>3, FailsIt DEF AuthWriteFails
<1> QED
  BY <1>1, <1>2, <1>3

LEMMA DnsLookupIsStep ==
  ASSUME IInv, NEW s \in Session, NEW f \in Fd, DnsLookup(s, f)
  PROVE  Live(s) /\ StepOf(s)
<1> DEFINE r == [ses[s] EXCEPT !.dns = "none", !.err = 4]
           e == [r EXCEPT !.state = "ERROR"]
<1>0. "W" \in Op /\ ses[s] \in Record /\ Runs(s, f, "W", "DNS_LOOKUP")
  BY DEF Op, IInv, DnsLookup
<1>1. \/ \E q, st : Continue(s, f, "W", [q EXCEPT !.state = st], SetInterest(item, f, {"W"}))
      \/ Destroy(s, f, "W", e, sock, item)
  BY DEF DnsLookup, AwaitWrite, Fail
<1>2. e.cfd = ses[s].cfd /\ e.dfd = ses[s].dfd
  BY <1>0 DEF Record
<1> HIDE DEF e
<1> QED
  BY <1>0, <1>1, <1>2, GoesOn, EndsIt

\* try_connect: the reply is left to the client's descriptor.
LEMMA ConnectReportedIsStep ==
  ASSUME IInv, NEW s \in Session, NEW f \in Fd, ConnectReported(s, f)
  PROVE  Live(s) /\ StepOf(s)
<1>1. "W" \in Op /\ Runs(s, f, "W", "DEST_CONNECT")
  BY DEF Op, ConnectReported, Connecting
<1>2. Live(s) /\ Mine(s, ses[s].cfd)
  BY <1>1, RunsMine
<1>3. Within(s, sock, SetInterest(item, ses[s].cfd, {"W"}))
  BY <1>2, WithinNow, SetInterestWithin
<1> QED
  BY <1>1, <1>2, <1>3, ContinueIsStep DEF ConnectReported

\* try_connect: no address is left, and the socket of the last attempt is
\* closed before the session ends.
LEMMA ConnectFailsIsStep ==
  ASSUME IInv, NEW s \in Session, NEW f \in Fd, ConnectFails(s, f)
  PROVE  Live(s) /\ StepOf(s)
<1> DEFINE k  == LeftSockets(s)
           it == SetInterest(item, f, {"W"})
           r  == [ses[s] EXCEPT !.dfd = NoFd, !.err = 3]
<1>1. "W" \in Op /\ Runs(s, f, "W", "DEST_CONNECT") /\ Fail(s, f, "W", r, k, it)
  BY DEF Op, ConnectFails, Retrying, Connecting
<1>2. Live(s) /\ Mine(s, f) /\ Mine(s, NoFd) /\ Mine(s, ses[s].cfd) /\ Mine(s, ses[s].dfd)
  BY <1>1, RunsMine
<1>3. Within(s, k, item)
  BY <1>2, WithinNow, CloseWithin DEF LeftSockets
<1>4. r \in Record /\ r.cfd = ses[s].cfd /\ r.dfd = NoFd
  <2>1. ses[s] \in Record
    BY DEF IInv
  <2> QED
    BY <2>1 DEF Record
<1> HIDE DEF k
<1>5. Within(s, k, it)
  BY <1>2, <1>3, SetInterestWithin
<1> HIDE DEF it, r
<1> QED
  BY <1>1, <1>2, <1>4, <1>5, FailIsStep

\* The interests of both descriptors change.
LEMMA BothIsStep ==
  ASSUME IInv, NEW s \in Session, NEW f \in Fd, NEW op \in Op, NEW st, Runs(s, f, op, st),
         NEW r, NEW c, c = ses[s].cfd, NEW d, d = ses[s].dfd, NEW i, NEW j,
         Continue(s, f, op, r, SetInterest(SetInterest(item, c, i), d, j))
  PROVE  Live(s) /\ StepOf(s)
<1>1. Live(s) /\ Mine(s, c) /\ Mine(s, d)
  BY RunsMine
<1> DEFINE it == SetInterest(item, c, i)
<1>2. Within(s, sock, it)
  BY <1>1, WithinNow, SetInterestWithin
<1> HIDE DEF it
<1>3. Within(s, sock, SetInterest(it, d, j))
  BY <1>1, <1>2, SetInterestWithin
<1> QED
  BY <1>1, <1>3, ContinueIsStep DEF it

LEMMA ReplyIsStep ==
  ASSUME IInv, NEW s \in Session, NEW f \in Fd,
         RequestWrite(s, f) \/ RequestWriteFails(s, f)
  PROVE  Live(s) /\ StepOf(s)
<1>0. "W" \in Op /\ ses[s] \in Record /\ Runs(s, f, "W", "REQUEST_WRITE")
  BY DEF Op, IInv, RequestWrite, RequestWriteFails
<1>1. CASE RequestWrite(s, f)
  <2> DEFINE r == Tell(ses[s], "reply", ses[s].reply)
             e == [r EXCEPT !.state = "DONE"]
             g == [r EXCEPT !.state = "FORWARDING"]
  <2>1. \/ Destroy(s, f, "W", e, sock, item)
        \/ Continue(s, f, "W", g, SetInterest(SetInterest(item, r.cfd, {"R"}), r.dfd, {"R"}))
    BY <1>1 DEF RequestWrite
  <2>2. r.cfd = ses[s].cfd /\ r.dfd = ses[s].dfd /\ e.cfd = ses[s].cfd /\ e.dfd = ses[s].dfd
    BY <1>0 DEF Tell, Record
  <2> HIDE DEF r, e, g
  <2>3. CASE Destroy(s, f, "W", e, sock, item)
    BY <1>0, <2>2, <2>3, EndsIt
  <2>4. CASE Continue(s, f, "W", g, SetInterest(SetInterest(item, r.cfd, {"R"}), r.dfd, {"R"}))
    BY <1>0, <2>2, <2>4, BothIsStep
  <2> QED
    BY <2>1, <2>3, <2>4
<1>2. CASE RequestWriteFails(s, f)
  <2> DEFINE r == [ses[s] EXCEPT !.err = 1]
  <2>1. r \in Record /\ r.cfd = ses[s].cfd /\ r.dfd = ses[s].dfd
    BY <1>0 DEF Record
  <2>2. Fail(s, f, "W", r, sock, item)
    BY <1>2 DEF RequestWriteFails
  <2> HIDE DEF r
  <2> QED
    BY <1>0, <2>1, <2>2, FailsIt
<1> QED
  BY <1>1, <1>2

LEMMA ForwardsIsStep ==
  ASSUME IInv, NEW s \in Session, NEW f \in Fd, Forwards(s, f)
  PROVE  Live(s) /\ StepOf(s)
<1>1. PICK op \in Op : ForwardOn(s, f, op) \/ ForwardEnds(s, f, op)
  BY DEF Forwards
<1>2. Runs(s, f, op, "FORWARDING") /\ ses[s] \in Record
  BY <1>1 DEF ForwardOn, ForwardEnds, Forwarding, IInv
<1>3. CASE ForwardOn(s, f, op)
  <2>1. PICK r : Continue(s, f, op, r, SetInterest(SetInterest(item, ses[s].cfd, Op), ses[s].dfd, Op))
    BY <1>3 DEF ForwardOn
  <2> QED
    BY <1>2, <2>1, BothIsStep
<1>4. CASE Destroy(s, f, op, [ses[s] EXCEPT !.state = "DONE"], sock, item)
  <2> DEFINE r == [ses[s] EXCEPT !.state = "DONE"]
  <2>1. r.cfd = ses[s].cfd /\ r.dfd = ses[s].dfd /\ Destroy(s, f, op, r, sock, item)
    BY <1>2, <1>4 DEF Record
  <2> HIDE DEF r
  <2> QED
    BY <1>2, <2>1, EndsIt
<1>5. CASE Fail(s, f, op, ses[s], sock, item)
  BY <1>2, <1>5, FailsIt
<1> QED
  BY <1>1, <1>3, <1>4, <1>5 DEF ForwardEnds

LEMMA HandlerIsStep ==
  ASSUME IInv, NEW s \in Session, NEW f \in Fd, Reads(s, f) \/ Writes(s, f) \/ Forwards(s, f)
  PROVE  Live(s) /\ StepOf(s)
BY ReadsIsStep, HandshakeWritesIsStep, DnsLookupIsStep, ConnectReportedIsStep,
   ConnectStartsIsStep, ConnectFailsIsStep, ReplyIsStep, ForwardsIsStep DEF Writes

\* A new session gets a descriptor that nobody has.
LEMMA AcceptIsStep ==
  ASSUME IInv, NEW s \in Session, Accept(s)
  PROVE  ses[s].phase # "freed" /\ StepOf(s)
<1> DEFINE f == LowestFree(sock)
<1>1. /\ ses[s].phase = "unborn" /\ FreeFds(sock) # {}
      /\ ses' = [ses EXCEPT ![s] = [Unborn EXCEPT !.phase = "live", !.cfd = f]]
      /\ sock' = [sock EXCEPT ![f] = "up"]
      /\ item' = [item EXCEPT ![f] = [data |-> s, interest |-> {"R"}]]
  BY DEF Accept
<1>2. f \in Fd /\ sock[f] = "free"
  BY <1>1, LowestIsFree DEF IInv
<1> HIDE DEF f
<1>3. Within(s, sock, item) /\ Mine(s, f)
  BY <1>2, WithinNow DEF Mine
<1>4. Within(s, sock', item')
  BY <1>1, <1>2, <1>3 DEF Within
<1>5. \A t \in Session \ {s} : ses'[t] = ses[t]
  BY <1>1 DEF IInv
<1> QED
  BY <1>1, <1>4, <1>5 DEF StepOf

\* The resolver answers a session that lives.
LEMMA ResolveIsStep ==
  ASSUME IInv, NEW s \in Session, Resolve(s)
  PROVE  ses[s].phase # "freed" /\ StepOf(s)
<1>1. PICK answer : ses' = [ses EXCEPT ![s].dns = answer]
  BY DEF Resolve
<1>2. ses[s].dns = "pending" /\ UNCHANGED <<sock, item>>
  BY DEF Resolve
<1>3. ses[s].phase # "freed"
  BY <1>2 DEF IInv, RecordInv, Ended
<1>4. \A t \in Session \ {s} : ses'[t] = ses[t]
  BY <1>1 DEF IInv
<1> QED
  BY <1>2, <1>3, <1>4, WithinNow DEF StepOf

\* The attempt that ends is that of the session whose descriptor it is.
LEMMA ConnectEndsIsStep ==
  ASSUME IInv, NEW f \in Fd, ConnectEnds(f)
  PROVE  \E s \in Session : ses[s].phase # "freed" /\ StepOf(s)
<1> DEFINE s == item[f].data
<1>1. PICK answer : sock' = [sock EXCEPT ![f] = answer]
  BY DEF ConnectEnds
<1>2. sock[f] = "connecting" /\ UNCHANGED <<ses, item>>
  BY DEF ConnectEnds
<1>3. s \in Session /\ Owns(s, f)
  BY <1>2, Ownership
<1> HIDE DEF s
<1>4. Live(s) /\ Mine(s, f) /\ Within(s, sock, item)
  BY <1>3, WithinNow DEF Owns, Mine
<1>5. Within(s, sock', item')
  BY <1>1, <1>2, <1>4 DEF Within
<1> QED
  BY <1>2, <1>3, <1>4, <1>5 DEF StepOf, Live

\* What the server keeps of session t: the record, its sockets, its items.
Untouched(t) == /\ ses'[t] = ses[t]
                /\ \A g \in Fd : Owns(t, g) => sock'[g] = sock[g] /\ item'[g] = item[g]

\* A descriptor has one owner, so a step within one session leaves the others.
LEMMA OthersUntouched ==
  ASSUME IInv, NEW s \in Session, StepOf(s), NEW t \in Session \ {s}
  PROVE  Untouched(t)
<1>1. ASSUME NEW g \in Fd, Owns(t, g) PROVE sock'[g] = sock[g] /\ item'[g] = item[g]
  <2>1. sock[g] # "free" /\ item[g].data = t
    BY <1>1, Ownership
  <2>2. ~Mine(s, g)
    BY <2>1, Ownership DEF Mine
  <2> QED
    BY <2>2 DEF StepOf, Within
<1> QED
  BY <1>1 DEF StepOf, Untouched

\* Every step is a step of one session at most, which has not ended.
LEMMA StepsOfOne ==
  ASSUME IInv, [Next]_vars
  PROVE  \/ \A t \in Session : Untouched(t)
         \/ \E s \in Session : /\ ses[s].phase # "freed"
                               /\ \A t \in Session \ {s} : Untouched(t)
<1>1. ASSUME NEW s \in Session, ses[s].phase # "freed", StepOf(s)
      PROVE  \E u \in Session : /\ ses[u].phase # "freed"
                                /\ \A t \in Session \ {u} : Untouched(t)
  BY <1>1, OthersUntouched, Zenon
<1>2. ASSUME UNCHANGED <<ses, sock, item>>
      PROVE  \A t \in Session : Untouched(t)
  BY <1>2 DEF Untouched
<1>3. CASE Handlers
  <2>1. PICK s \in Session, f \in Fd : Reads(s, f) \/ Writes(s, f) \/ Forwards(s, f)
    BY <1>3 DEF Handlers
  <2>2. Live(s) /\ StepOf(s)
    BY <2>1, HandlerIsStep
  <2>3. ses[s].phase # "freed"
    BY <2>2 DEF Live
  <2> QED
    BY <1>1, <2>2, <2>3
<1>4. CASE Select \/ NotCalled \/ CallDangling \/ CallUnhandled
  <2>1. UNCHANGED <<ses, sock, item>>
    BY <1>4 DEF Select, NotCalled, CallDangling, CallUnhandled
  <2> QED
    BY <1>2, <2>1
<1>5. CASE AcceptFails \/ ChangeAuthMethods \/ UNCHANGED vars
  <2>1. UNCHANGED <<ses, sock, item>>
    BY <1>5 DEF AcceptFails, ChangeAuthMethods, vars
  <2> QED
    BY <1>2, <2>1
<1>6. ASSUME NEW s \in Session, Accept(s) \/ Resolve(s)
      PROVE  \E u \in Session : /\ ses[u].phase # "freed"
                                /\ \A t \in Session \ {u} : Untouched(t)
  BY <1>1, <1>6, AcceptIsStep, ResolveIsStep, Zenon
<1>7. ASSUME NEW f \in Fd, ConnectEnds(f)
      PROVE  \E u \in Session : /\ ses[u].phase # "freed"
                                /\ \A t \in Session \ {u} : Untouched(t)
  BY <1>1, <1>7, ConnectEndsIsStep, Zenon
<1> QED
  BY <1>3, <1>4, <1>5, <1>6, <1>7 DEF Next, Loop, World

NoStepOfTwo == \A s, t \in Session : s # t => Untouched(s) \/ Untouched(t)
EndedStays  == \A s \in Session : ses[s].phase = "freed" => Untouched(s)

\* No callback, answer of the resolver or of the kernel, or new client touches
\* two sessions: whatever numbers are reused and items left behind, the record,
\* the sockets and the interests of a session are changed on its behalf alone
\* (try_connect, end_connection, selector_set_interest by descriptor).
THEOREM SessionsApart == Spec => [][NoStepOfTwo]_vars
<1>1. IInv /\ [Next]_vars => NoStepOfTwo
  BY StepsOfOne DEF NoStepOfTwo
<1> QED
  BY <1>1, SpecInv, PTL DEF Spec

\* A record that was freed is never written again: no handler, lookup or retry
\* returns to a session that has ended.
THEOREM EndedIsEnded == Spec => [][EndedStays]_vars
<1>1. IInv /\ [Next]_vars => EndedStays
  BY StepsOfOne DEF EndedStays
<1> QED
  BY <1>1, SpecInv, PTL DEF Spec
=============================================================================
