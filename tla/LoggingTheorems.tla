-------------------------- MODULE LoggingTheorems --------------------------
(**************************************************************************)
(* The selector's table under any use the logger and the rest of the      *)
(* server make of it, for any number of descriptors; and the logger over  *)
(* it, for entries and dates of any length and newlines anywhere in an    *)
(* entry: proofs.                                                         *)
(*                                                                        *)
(* The invariant says what is in the buffers and the outputs, and what the*)
(* two descriptors wait for: WholeLines, Watched, Started.  It rests on   *)
(* lemmas about joined sequences, and on where a cell of a text is in the *)
(* dated text.                                                            *)
(**************************************************************************)
EXTENDS Logging, CommonLemmas, SequenceTheorems

TableType ==
  [items : [0..(NextCapacity(Initial) - 1) -> {Unused} \cup SUBSET Op],
   size : {NextCapacity(Initial)}, maxFd : Nat,
   r : SUBSET Fds, w : SUBSET Fds, overrun : {FALSE}]

\* The prototype sets hold what the items want.
SetsAgree(t) ==
  /\ t.r = {fd \in Used(t) : "R" \in t.items[fd]}
  /\ t.w = {fd \in Used(t) : "W" \in t.items[fd]}

\* The table is consistent and as large as when it was made.
TableInv(t) ==
  t \in TableType /\ SetsAgree(t) /\ \A fd \in Used(t) : fd \in Fds /\ fd <= t.maxFd

\* Every descriptor has its item from the start.
LEMMA FdsFit == Fds \subseteq 0..(NextCapacity(Initial) - 1)
BY SelectorAssumption DEF Fds

\* An interest is never mistaken for the mark of an unused item.
LEMMA InterestIsUse == \A i \in SUBSET Op : i # Unused /\ i \in {Unused} \cup SUBSET Op
BY DEF Op, Unused

LEMMA NewTable == TableInv(SelectorNew)
<1>1. NextCapacity(Initial) \in Nat
  BY SelectorAssumption
<1>2. Used(SelectorNew) = {}
  BY DEF Used, SelectorNew
<1> QED
  BY <1>1, <1>2 DEF TableInv, TableType, SetsAgree, SelectorNew

\* items_update_fdset_for_fd keeps the prototype sets in step with the items.
LEMMA AskedTable ==
  ASSUME NEW t, TableInv(t), NEW fd \in Fds, NEW i \in {Unused} \cup SUBSET Op
  PROVE  /\ Asked(t, fd, i) \in TableType
         /\ SetsAgree(Asked(t, fd, i))
         /\ Asked(t, fd, i).maxFd = t.maxFd
         /\ Used(Asked(t, fd, i)) = IF i = Unused THEN Used(t) \ {fd} ELSE Used(t) \cup {fd}
<1> DEFINE u == Asked(t, fd, i)
<1>1. /\ u.items = [t.items EXCEPT ![fd] = i] /\ u.maxFd = t.maxFd
      /\ u.r = IF "R" \in i THEN t.r \cup {fd} ELSE t.r \ {fd}
      /\ u.w = IF "W" \in i THEN t.w \cup {fd} ELSE t.w \ {fd}
  BY DEF Asked, TableInv, TableType
<1>2. u \in TableType
  BY FdsFit DEF Asked, TableInv, TableType
<1>3. Used(u) = IF i = Unused THEN Used(t) \ {fd} ELSE Used(t) \cup {fd}
  BY <1>1, FdsFit DEF TableInv, TableType, Used
<1>4. "R" \notin Unused /\ "W" \notin Unused
  BY DEF Unused
<1>5. SetsAgree(u)
  BY <1>1, <1>3, <1>4, FdsFit DEF TableInv, TableType, SetsAgree, Used
<1> QED
  BY <1>1, <1>2, <1>3, <1>5

LEMMA InterestSetTable ==
  ASSUME NEW t, TableInv(t), NEW fd \in Int, NEW i \in SUBSET Op
  PROVE  TableInv(InterestSet(t, fd, i))
<1>1. CASE fd \notin Fds
  BY <1>1 DEF InterestSet
<1>2. CASE fd \in Fds
  <2>1. ~(fd >= t.size)
    BY <1>2, SelectorAssumption DEF TableInv, TableType, Fds
  <2>2. CASE t.items[fd] = Unused
    BY <1>2, <2>1, <2>2 DEF InterestSet
  <2>3. CASE t.items[fd] # Unused
    <3> DEFINE a == Asked(t, fd, i)
    <3>1. InterestSet(t, fd, i) = a
      BY <1>2, <2>1, <2>3 DEF InterestSet
    <3>2. fd \in Used(t)
      BY <1>2, <2>3, FdsFit DEF Used, TableInv, TableType
    <3>3. i # Unused /\ i \in {Unused} \cup SUBSET Op
      BY InterestIsUse
    <3>4. a \in TableType /\ SetsAgree(a) /\ a.maxFd = t.maxFd /\ Used(a) = Used(t) \cup {fd}
      BY <1>2, <3>3, AskedTable
    <3> HIDE DEF a
    <3>5. \A f \in Used(a) : f \in Fds /\ f <= a.maxFd
      BY <3>2, <3>4 DEF TableInv
    <3> QED
      BY <3>1, <3>4, <3>5 DEF TableInv
  <2> QED
    BY <2>2, <2>3
<1> QED
  BY <1>1, <1>2

LEMMA RegisteredTable ==
  ASSUME NEW t, TableInv(t), NEW fd \in Int, NEW i \in SUBSET Op
  PROVE  TableInv(Registered(t, fd, i))
<1>1. CASE fd \notin Fds
  BY <1>1 DEF Registered
<1>2. CASE fd \in Fds
  <2>1. ~(fd > t.size) /\ ~(fd >= t.size)
    BY <1>2, SelectorAssumption DEF TableInv, TableType, Fds
  <2>2. CASE t.items[fd] # Unused
    BY <1>2, <2>1, <2>2 DEF Registered
  <2>3. CASE t.items[fd] = Unused
    <3> DEFINE a == Asked(t, fd, i)
               u == [a EXCEPT !.maxFd = IF fd > @ THEN fd ELSE @]
    <3>1. Registered(t, fd, i) = u
      BY <1>2, <2>1, <2>3 DEF Registered
    <3>2. i # Unused /\ i \in {Unused} \cup SUBSET Op
      BY InterestIsUse
    <3>3. a \in TableType /\ SetsAgree(a) /\ a.maxFd = t.maxFd /\ Used(a) = Used(t) \cup {fd}
      BY <1>2, <3>2, AskedTable
    <3> HIDE DEF a
    <3>4. fd \in Nat /\ t.maxFd \in Nat
      BY <1>2 DEF Fds, TableInv, TableType
    <3>5. /\ u.items = a.items /\ u.r = a.r /\ u.w = a.w
          /\ u.maxFd = IF fd > t.maxFd THEN fd ELSE t.maxFd
          /\ u \in TableType
      BY <3>3, <3>4 DEF TableType
    <3> HIDE DEF u
    <3>6. Used(u) = Used(a) /\ SetsAgree(u)
      BY <3>3, <3>5 DEF Used, SetsAgree
    <3>7. \A f \in Used(u) : f \in Fds /\ f <= u.maxFd
      BY <1>2, <3>3, <3>4, <3>5, <3>6 DEF TableInv, Fds
    <3> QED
      BY <3>1, <3>5, <3>6, <3>7 DEF TableInv
  <2> QED
    BY <2>2, <2>3
<1> QED
  BY <1>1, <1>2

LEMMA UnregisteredTable ==
  ASSUME NEW t, TableInv(t), NEW fd \in Int
  PROVE  TableInv(Unregistered(t, fd))
<1>1. CASE fd \notin Fds
  BY <1>1 DEF Unregistered
<1>2. CASE fd \in Fds
  <2>1. ~(fd >= t.size)
    BY <1>2, SelectorAssumption DEF TableInv, TableType, Fds
  <2>2. CASE t.items[fd] = Unused
    BY <1>2, <2>1, <2>2 DEF Unregistered
  <2>3. CASE t.items[fd] # Unused
    <3> DEFINE a == Asked(t, fd, Unused)
               u == [a EXCEPT !.maxFd = HighestUsed(a)]
    <3>1. Unregistered(t, fd) = u
      BY <1>2, <2>1, <2>3 DEF Unregistered
    <3>2. a \in TableType /\ SetsAgree(a) /\ a.maxFd = t.maxFd /\ Used(a) = Used(t) \ {fd}
      BY <1>2, AskedTable
    <3> HIDE DEF a
    <3>3. \A f \in Used(a) : f \in Fds /\ f <= a.maxFd
      BY <3>2 DEF TableInv
    <3>4. HighestUsed(a) \in Nat /\ \A f \in Used(a) : f <= HighestUsed(a)
      <4> DEFINE S == {f \in Used(a) : f <= a.maxFd}
      <4>1. S = Used(a)
        BY <3>3
      <4>2. CASE S = {}
        BY <4>1, <4>2 DEF HighestUsed
      <4>3. CASE S # {}
        <5>1. a.maxFd \in Nat /\ S \subseteq 0..a.maxFd
          BY <3>2, <3>3, <4>1 DEF Fds, TableType
        <5>2. \E m \in S : \A x \in S : x <= m
          BY <4>3, <5>1, Greatest
        <5>3. HighestUsed(a) \in S /\ \A x \in S : x <= HighestUsed(a)
          BY <4>3, <5>2 DEF HighestUsed
        <5> QED
          BY <4>1, <5>1, <5>3
      <4> QED
        BY <4>2, <4>3
    <3>5. /\ u.items = a.items /\ u.r = a.r /\ u.w = a.w
          /\ u.maxFd = HighestUsed(a)
          /\ u \in TableType
      BY <3>2, <3>4 DEF TableType
    <3> HIDE DEF u
    <3>6. Used(u) = Used(a) /\ SetsAgree(u)
      BY <3>2, <3>5 DEF Used, SetsAgree
    <3> QED
      BY <3>1, <3>3, <3>4, <3>5, <3>6 DEF TableInv
  <2> QED
    BY <2>2, <2>3
<1> QED
  BY <1>1, <1>2
-----------------------------------------------------------------------------
SelInv == TableInv(sel)

\* Each step of the logger and of the rest of the server keeps the table
\* consistent.
LEMMA TableKept == SelInv /\ [Next]_vars => SelInv'
<1> SUFFICES ASSUME TableInv(sel), [Next]_vars PROVE TableInv(sel')
  BY DEF SelInv
<1>0. LogFd \in Int /\ FileFd \in Int /\ {} \in SUBSET Op /\ {"W"} \in SUBSET Op
  BY LoggingAssumption DEF Fds, Op
<1>1. CASE Initialize
  BY <1>0, <1>1, RegisteredTable DEF Initialize
<1>2. CASE Log
  BY <1>0, <1>2, InterestSetTable DEF Log
<1>3. CASE StdoutWrite
  <2>1. TableInv(CopiedToFile(sel).sel)
    BY <1>0, InterestSetTable DEF CopiedToFile
  <2>2. CASE WriteAll
    BY <1>0, <2>1, <2>2, InterestSetTable DEF WriteAll
  <2>3. CASE WritePart
    BY <2>1, <2>3 DEF WritePart
  <2>4. CASE WriteNothing
    BY <2>1, <2>4 DEF WriteNothing
  <2>5. CASE Overrun
    BY <2>5 DEF Overrun
  <2> QED
    BY <1>3, <2>2, <2>3, <2>4, <2>5 DEF StdoutWrite
<1>4. CASE FileWrite
  BY <1>0, <1>4, InterestSetTable DEF FileWrite
<1>5. CASE Others
  <2>1. PICK fd \in Other :
          \/ \E i \in SUBSET Op : sel' = Registered(sel, fd, i) \/ sel' = InterestSet(sel, fd, i)
          \/ sel' = Unregistered(sel, fd)
          \/ sel' = sel
    BY <1>5 DEF Others
  <2>2. fd \in Int
    BY LoggingAssumption
  <2> QED
    BY <2>1, <2>2, RegisteredTable, InterestSetTable, UnregisteredTable
<1>6. CASE Destroy
  BY <1>0, <1>6, UnregisteredTable DEF Destroy
<1>7. CASE UNCHANGED vars
  BY <1>7 DEF vars
<1> QED
  BY <1>1, <1>2, <1>3, <1>4, <1>5, <1>6, <1>7 DEF Next

\* The table's invariant, over any history of registrations, changes of interest
\* and departures (selector.c:215-425).
THEOREM TableConsistent == Spec => []SelInv
<1>1. Init => SelInv
  BY NewTable DEF SelInv, Init, TableInit
<1> QED
  BY <1>1, TableKept, PTL DEF Spec

\* pselect is asked for the interests of the registered descriptors, no more and
\* no less, for any number of descriptors and any use of the table
\* (selector.c:215-425).
THEOREM AskedAreRegistered == Spec => []AskedIsRegistered
<1>1. SelInv => AskedIsRegistered
  BY DEF SelInv, TableInv, TableType, SetsAgree, AskedIsRegistered
<1> QED
  BY <1>1, TableConsistent, PTL

\* No item outside the table is used: the table of main has one for each
\* descriptor from the start, so the test of selector.c:333 never matters.
THEOREM TableIsLargeEnough == Spec => []NoOverrun
<1>1. SelInv => NoOverrun
  BY DEF SelInv, TableInv, TableType, SetsAgree, NoOverrun
<1> QED
  BY <1>1, TableConsistent, PTL
-----------------------------------------------------------------------------
(* Concatenations.                                                         *)

\* Concatenation is associative, stated of an operator of its own: the provers
\* match its citations without unfolding sequences.
Cat(a, b) == a \o b

LEMMA CatAssociates ==
  \A S : \A a, b, c \in Seq(S) : Cat(Cat(a, b), c) = Cat(a, Cat(b, c))
BY ConcatAssociative DEF Cat

\* The first n of two sequences are the same.
Agree(s, t, n) == \A i \in 1..n : s[i] = t[i]

\* Two ways to join the same first sequences give the same.
LEMMA JoinsAgree ==
  ASSUME NEW p, NEW q, NEW f, NEW g, Joins(p, f), Joins(q, g), NEW n \in Nat,
         n <= Len(p), n <= Len(q), Len(p) \in Nat, Len(q) \in Nat, Agree(p, q, n)
  PROVE  Agree(f, g, n)
<1> DEFINE Bad == {i \in 1..n : f[i] # g[i]}
<1>1. SUFFICES ASSUME Bad # {} PROVE FALSE
  BY DEF Agree
<1>2. PICK m \in Bad : \A x \in Bad : m <= x
  <2>1. Bad \in SUBSET Nat
    OBVIOUS
  <2> QED
    BY <1>1, <2>1, Least, Zenon
<1>3. m # 1
  BY <1>2 DEF Joins, Agree
<1>4. /\ m \in 2..Len(p) /\ m \in 2..Len(q) /\ m - 1 \in 1..n /\ ~(m <= m - 1)
      /\ m \in 1..n
  BY <1>2, <1>3
<1>5. f[m - 1] = g[m - 1]
  BY <1>2, <1>4
<1> QED
  BY <1>2, <1>4, <1>5 DEF Joins, Agree

\* FlattenSeq distributes over concatenation.
LEMMA FlattenConcat ==
  ASSUME NEW S, NEW p \in Seq(Seq(S)), NEW q \in Seq(Seq(S))
  PROVE  FlattenSeq(p \o q) = FlattenSeq(p) \o FlattenSeq(q)
<1>0. FlattenSeq(p) \in Seq(S) /\ FlattenSeq(q) \in Seq(S)
  BY FlattenType
<1>1. CASE p = <<>>
  <2>1. p \o q = q
    BY <1>1, ConcatEmptySeq
  <2>2. FlattenSeq(p) \o FlattenSeq(q) = FlattenSeq(q)
    BY <1>0, <1>1, FlattenEmpty, ConcatEmptySeq
  <2> QED
    BY <2>1, <2>2
<1>2. CASE q = <<>>
  <2>1. p \o q = p
    BY <1>2, ConcatEmptySeq
  <2>2. FlattenSeq(p) \o FlattenSeq(q) = FlattenSeq(p)
    BY <1>0, <1>2, FlattenEmpty, ConcatEmptySeq
  <2> QED
    BY <2>1, <2>2
<1>3. CASE p # <<>> /\ q # <<>>
  <2> DEFINE a == Len(p)
             b == Len(q)
             ss == p \o q
  <2>1. a \in Nat \ {0} /\ b \in Nat \ {0}
    BY <1>3, EmptySeq
  <2>2. /\ ss \in Seq(Seq(S)) /\ Len(ss) = a + b
        /\ \A i \in 1..(a + b) : ss[i] = IF i <= a THEN p[i] ELSE q[i - a]
    BY ConcatProperties
  <2> HIDE DEF ss, a, b
  <2>3. PICK f : Joins(ss, f) /\ FlattenSeq(ss) = f[a + b]
    <3>1. Len(ss) \in Nat \ {0}
      BY <2>1, <2>2
    <3> QED
      BY <2>2, <3>1, FlattenStepwise, Zenon
  <2>4. PICK g : Joins(p, g) /\ FlattenSeq(p) = g[a]
    BY <2>1, FlattenStepwise DEF a
  <2>5. PICK h : Joins(q, h) /\ FlattenSeq(q) = h[b]
    BY <2>1, FlattenStepwise DEF b
  <2>6. f[a] = g[a] /\ g[a] \in Seq(S)
    <3>1. \A i \in 1..a : i \in 1..(a + b) /\ i <= a
      BY <2>1
    <3>2. \A i \in 1..a : ss[i] = p[i]
      BY <2>2, <3>1
    <3>3. a \in Nat /\ a <= Len(ss) /\ a <= Len(p) /\ Len(p) \in Nat /\ Len(ss) \in Nat
      BY <2>1, <2>2 DEF a
    <3>4. \A i \in 1..a : f[i] = g[i]
      <4>1. Joins(ss, f) /\ Joins(p, g)
        BY <2>3, <2>4
      <4> QED
        <5>1. Agree(ss, p, a)
          BY <3>2 DEF Agree
        <5>2. Agree(f, g, a)
          BY <3>3, <4>1, <5>1, JoinsAgree, Zenon
        <5> QED
          BY <5>2 DEF Agree
    <3> QED
      BY <1>0, <2>1, <2>4, <3>4
  <2>7. \A i \in 1..b : q[i] \in Seq(S) /\ h[i] \in Seq(S)
    <3>1. \A i \in 1..Len(q) : h[i] \in Seq(S)
      BY <2>5, JoinsType
    <3> QED
      BY <3>1 DEF b
  <2>8. \A i \in 1..b : f[a + i] = g[a] \o h[i]
    <3> DEFINE Bad == {i \in 1..b : f[a + i] # g[a] \o h[i]}
    <3>1. SUFFICES ASSUME Bad # {} PROVE FALSE
      OBVIOUS
    <3>2. Bad \in SUBSET Nat
      <4>1. 1..b \in SUBSET Nat
        BY <2>1
      <4> QED
        BY <4>1, Zenon
    <3>3. PICK m \in Bad : \A x \in Bad : m <= x
      BY <3>1, <3>2, Least, Zenon
    <3>4. /\ m \in 1..b /\ a + m \in 2..Len(ss) /\ ~(a + m <= a) /\ (a + m) - a = m
          /\ a + m \in 1..(a + b) /\ (a + m) - 1 = a + (m - 1)
      <4>1. m \in 1..b
        BY <3>3, Zenon
      <4>2. \A k \in 1..b : /\ a + k \in 2..(a + b) /\ ~(a + k <= a) /\ (a + k) - a = k
                            /\ a + k \in 1..(a + b) /\ (a + k) - 1 = a + (k - 1)
        BY <2>1
      <4> QED
        BY <2>2, <4>1, <4>2, Zenon
    <3>5. ss[a + m] = q[m]
      BY <2>2, <3>4
    <3>6. f[a + m] = f[a + (m - 1)] \o q[m]
      BY <2>3, <3>4, <3>5 DEF Joins
    <3>7. CASE m = 1
      <4>1. f[a + (m - 1)] = g[a] /\ h[m] = q[m]
        BY <2>1, <2>5, <2>6, <3>7 DEF Joins
      <4> QED
        BY <3>3, <3>6, <4>1
    <3>8. CASE m # 1
      <4>1. m - 1 \in 1..b /\ m \in 2..Len(q) /\ ~(m <= m - 1)
        BY <2>1, <3>4, <3>8 DEF b
      <4>2. f[a + (m - 1)] = g[a] \o h[m - 1] /\ h[m] = h[m - 1] \o q[m]
        BY <2>5, <3>3, <4>1 DEF Joins
      <4>3. (g[a] \o h[m - 1]) \o q[m] = g[a] \o (h[m - 1] \o q[m])
        <5>1. g[a] \in Seq(S) /\ h[m - 1] \in Seq(S) /\ q[m] \in Seq(S)
          BY <2>6, <2>7, <3>4, <4>1
        <5> QED
          <6> DEFINE x == g[a]
                     y == h[m - 1]
                     z == q[m]
          <6>1. x \in Seq(S) /\ y \in Seq(S) /\ z \in Seq(S)
            BY <5>1
          <6> HIDE DEF x, y, z, Bad
          <6>2. Cat(Cat(x, y), z) = Cat(x, Cat(y, z))
            BY <6>1, CatAssociates, SMT
          <6> QED
            BY <6>2 DEF x, y, z, Cat
      <4> QED
        BY <3>3, <3>6, <4>2, <4>3
    <3> QED
      BY <3>7, <3>8
  <2>9. f[a + b] = g[a] \o h[b]
    <3>1. b \in 1..b
      BY <2>1
    <3> QED
      BY <2>8, <3>1, Zenon
  <2> QED
    BY <2>3, <2>4, <2>5, <2>9 DEF ss
<1> QED
  BY <1>1, <1>2, <1>3

\* From the i-th join to the j-th all that was there is kept and at least one
\* cell of each part is added.
JoinGrown(f, i, j) == /\ Len(f[j]) - Len(f[i]) >= j - i
                      /\ \A k \in 1..Len(f[i]) : f[j][k] = f[i][k]

\* The parts that are joined are not empty.
Filled(ss) == \A i \in 1..Len(ss) : ss[i] # <<>>

\* If no part is empty, each join keeps what there was and adds to it.
LEMMA JoinsGrow ==
  ASSUME NEW S, NEW ss \in Seq(Seq(S)), Filled(ss),
         NEW f, Joins(ss, f), NEW i \in 1..Len(ss), NEW j \in i..Len(ss)
  PROVE  JoinGrown(f, i, j)
<1> DEFINE Grows(m) == /\ Len(f[m]) - Len(f[i]) >= m - i
                       /\ \A k \in 1..Len(f[i]) : f[m][k] = f[i][k]
           Bad == {m \in i..Len(ss) : ~Grows(m)}
<1>0. /\ Len(ss) \in Nat /\ i \in Nat
      /\ \A m \in 1..Len(ss) : /\ f[m] \in Seq(S) /\ Len(f[m]) \in Nat
                               /\ ss[m] \in Seq(S) /\ Len(ss[m]) \in Nat \ {0}
  <2>1. \A m \in 1..Len(ss) : f[m] \in Seq(S)
    BY JoinsType
  <2>2. \A m \in 1..Len(ss) : ss[m] \in Seq(S) /\ ss[m] # <<>>
    BY DEF Filled
  <2>3. \A x \in Seq(S) : Len(x) \in Nat /\ (x # <<>> => Len(x) # 0)
    BY EmptySeq
  <2>4. Len(ss) \in Nat /\ i \in Nat
    OBVIOUS
  <2> QED
    BY <2>1, <2>2, <2>3, <2>4
<1>1. SUFFICES ASSUME Bad # {} PROVE FALSE
  <2>1. \A m \in i..Len(ss) : Grows(m)
    BY <1>1
  <2> QED
    BY <2>1 DEF JoinGrown
<1>2. Bad \in SUBSET Nat
  <2>1. i..Len(ss) \in SUBSET Nat
    BY <1>0
  <2> QED
    BY <2>1, Zenon
<1>3. PICK m \in Bad : \A x \in Bad : m <= x
  BY <1>1, <1>2, Least, Zenon
<1>4. m \in i..Len(ss) /\ ~Grows(m)
  BY <1>3, Zenon
<1>5. m # i
  <2>1. Len(f[i]) \in Nat
    BY <1>0
  <2>2. Len(f[i]) - Len(f[i]) >= i - i
    BY <1>0, <2>1
  <2>3. Grows(i)
    BY <2>2
  <2> QED
    BY <1>4, <2>3, Zenon
<1>6. m - 1 \in i..Len(ss) /\ m \in 2..Len(ss) /\ ~(m <= m - 1) /\ m - 1 \in 1..Len(ss)
      /\ m \in 1..Len(ss)
  BY <1>0, <1>4, <1>5
<1>7. Grows(m - 1)
  BY <1>3, <1>6, Zenon
<1>8. f[m] = f[m - 1] \o ss[m]
  BY <1>6 DEF Joins
<1> DEFINE x == f[m - 1]
           y == ss[m]
<1>9. x \in Seq(S) /\ y \in Seq(S) /\ Len(x) \in Nat /\ Len(y) \in Nat \ {0}
  BY <1>0, <1>6
<1> HIDE DEF x, y, Bad
<1>10. /\ Len(x \o y) = Len(x) + Len(y)
       /\ \A k \in 1..Len(x) : (x \o y)[k] = x[k]
  <2>1. /\ Len(x \o y) = Len(x) + Len(y)
        /\ \A k \in 1..(Len(x) + Len(y)) : (x \o y)[k] = IF k <= Len(x) THEN x[k] ELSE y[k - Len(x)]
    BY <1>9, ConcatProperties
  <2>2. \A k \in 1..Len(x) : k \in 1..(Len(x) + Len(y)) /\ k <= Len(x)
    BY <1>9
  <2> QED
    BY <2>1, <2>2
<1>11. f[m] = x \o y
  BY <1>8 DEF x, y
<1>12. Len(x) - Len(f[i]) >= (m - 1) - i /\ \A k \in 1..Len(f[i]) : x[k] = f[i][k]
  BY <1>7 DEF x
<1>13. Len(f[i]) \in Nat /\ m \in Nat
  BY <1>0, <1>6
<1>14. Len(f[m]) - Len(f[i]) >= m - i
  BY <1>0, <1>9, <1>10, <1>11, <1>12, <1>13
<1>15. \A k \in 1..Len(f[i]) : k \in 1..Len(x)
  BY <1>0, <1>4, <1>5, <1>9, <1>12, <1>13
<1>16. \A k \in 1..Len(f[i]) : f[m][k] = f[i][k]
  BY <1>10, <1>11, <1>12, <1>15
<1> QED
  BY <1>4, <1>14, <1>16

\* The i-th join has at least i cells and ends as the i-th part does, which is
\* all it has on the join before it.
Ended(ss, f, i) == /\ Len(f[i]) \in Nat /\ Len(f[i]) >= i
                   /\ f[i][Len(f[i])] = ss[i][Len(ss[i])]
                   /\ i # 1 => Len(f[i]) = Len(f[i - 1]) + Len(ss[i])

\* The last cell of a join is the last cell of the part that was joined.
LEMMA JoinsEnd ==
  ASSUME NEW S, NEW ss \in Seq(Seq(S)), Filled(ss),
         NEW f, Joins(ss, f), NEW i \in 1..Len(ss)
  PROVE  Ended(ss, f, i)
<1>0. /\ Len(ss) \in Nat /\ i \in Nat
      /\ \A j \in 1..Len(ss) : /\ f[j] \in Seq(S) /\ Len(f[j]) \in Nat
                               /\ ss[j] \in Seq(S) /\ Len(ss[j]) \in Nat \ {0}
  <2>1. \A j \in 1..Len(ss) : f[j] \in Seq(S)
    BY JoinsType
  <2>2. \A j \in 1..Len(ss) : ss[j] \in Seq(S) /\ ss[j] # <<>>
    BY DEF Filled
  <2>3. \A x \in Seq(S) : Len(x) \in Nat /\ (x # <<>> => Len(x) # 0)
    BY EmptySeq
  <2>4. Len(ss) \in Nat /\ i \in Nat
    OBVIOUS
  <2> QED
    BY <2>1, <2>2, <2>3, <2>4
<1>1. f[1] = ss[1]
  BY DEF Joins
<1>2. Len(f[i]) >= i
  <2>1. 1 \in 1..Len(ss) /\ i \in 1..Len(ss) /\ i \in 1..Len(ss)
    BY <1>0
  <2>2. Len(f[i]) - Len(f[1]) >= i - 1
    BY <2>1, JoinsGrow DEF JoinGrown
  <2>3. Len(f[1]) \in Nat \ {0} /\ Len(f[i]) \in Nat
    BY <1>0, <1>1, <2>1
  <2> QED
    BY <1>0, <2>2, <2>3
<1>3. CASE i = 1
  BY <1>0, <1>1, <1>2, <1>3 DEF Ended
<1>4. CASE i # 1
  <2> DEFINE x == f[i - 1]
             y == ss[i]
  <2>1. i \in 2..Len(ss) /\ i - 1 \in 1..Len(ss)
    BY <1>0, <1>4
  <2>2. f[i] = x \o y
    BY <2>1 DEF Joins
  <2>3. x \in Seq(S) /\ y \in Seq(S) /\ Len(x) \in Nat /\ Len(y) \in Nat \ {0}
    BY <1>0, <2>1
  <2> HIDE DEF x, y
  <2>4. /\ Len(x \o y) = Len(x) + Len(y)
        /\ \A k \in 1..(Len(x) + Len(y)) : (x \o y)[k] = IF k <= Len(x) THEN x[k] ELSE y[k - Len(x)]
    BY <2>3, ConcatProperties
  <2>5. /\ Len(x) + Len(y) \in 1..(Len(x) + Len(y)) /\ ~(Len(x) + Len(y) <= Len(x))
        /\ (Len(x) + Len(y)) - Len(x) = Len(y)
    BY <2>3
  <2>6. (x \o y)[Len(x) + Len(y)] = y[Len(y)]
    BY <2>4, <2>5
  <2>7. Len(f[i]) = Len(x) + Len(y) /\ f[i][Len(f[i])] = y[Len(y)]
    BY <2>2, <2>4, <2>6
  <2> QED
    BY <1>0, <1>2, <2>7 DEF x, y, Ended
<1> QED
  BY <1>3, <1>4
-----------------------------------------------------------------------------
(* What is written of a text.                                              *)

Pieces(t) == [i \in DOMAIN t |-> IF StartsLine(t, i) THEN Date \o <<t[i]>> ELSE <<t[i]>>]

\* A cell is written behind a date or by itself.
LEMMA PiecesFacts ==
  ASSUME NEW t \in Seq(Cell)
  PROVE  /\ Dated(t) = FlattenSeq(Pieces(t))
         /\ Pieces(t) \in Seq(Seq(Cell)) /\ Len(Pieces(t)) = Len(t)
         /\ \A i \in 1..Len(t) :
              /\ Pieces(t)[i] # <<>> /\ Pieces(t)[i][Len(Pieces(t)[i])] = t[i]
              /\ ~StartsLine(t, i) => Len(Pieces(t)[i]) = 1
<1>0. Len(t) \in Nat /\ DOMAIN t = 1..Len(t) /\ \A i \in 1..Len(t) : t[i] \in Cell
  OBVIOUS
<1>1. DateLen \in Nat /\ LineLen \in Nat /\ MaxLines \in Nat
  BY LoggingAssumption
<1>2. \A k \in 1..DateLen : <<0, k>> \in Cell
  BY <1>1 DEF Cell
<1>3. Date \in Seq(Cell) /\ Len(Date) = DateLen
  <2>1. Date \in [1..DateLen -> Cell]
    BY <1>2 DEF Date
  <2> QED
    BY <1>1, <2>1
<1>4. ASSUME NEW i \in 1..Len(t)
      PROVE  LET u == IF StartsLine(t, i) THEN Date \o <<t[i]>> ELSE <<t[i]>> IN
             /\ u \in Seq(Cell) /\ u # <<>> /\ u[Len(u)] = t[i]
             /\ ~StartsLine(t, i) => Len(u) = 1
  <2> DEFINE c == t[i]
             v == <<c>>
             d == Date \o v
  <2>1. c \in Cell
    BY <1>0
  <2> HIDE DEF c
  <2>2. v \in Seq(Cell) /\ Len(v) = 1 /\ v[1] = c /\ v # <<>>
    BY <2>1
  <2> HIDE DEF v
  <2>3. /\ d \in Seq(Cell) /\ Len(d) = DateLen + 1
        /\ \A k \in 1..(DateLen + 1) : d[k] = IF k <= DateLen THEN Date[k] ELSE v[k - DateLen]
    <3>1. /\ d \in Seq(Cell) /\ Len(d) = Len(Date) + Len(v)
          /\ \A k \in 1..(Len(Date) + Len(v)) :
               d[k] = IF k <= Len(Date) THEN Date[k] ELSE v[k - Len(Date)]
      BY <1>3, <2>2, ConcatProperties, Zenon
    <3> QED
      BY <1>3, <2>2, <3>1
  <2>4. DateLen + 1 \in 1..(DateLen + 1) /\ ~(DateLen + 1 <= DateLen) /\ (DateLen + 1) - DateLen = 1
    BY <1>1
  <2>5. d[Len(d)] = c
    BY <2>2, <2>3, <2>4
  <2> HIDE DEF d
  <2>6. d # <<>>
    BY <1>1, <2>3
  <2>7. CASE StartsLine(t, i)
    BY <2>3, <2>5, <2>6, <2>7 DEF d, v, c
  <2>8. CASE ~StartsLine(t, i)
    BY <2>2, <2>8 DEF v, c
  <2> QED
    BY <2>7, <2>8
<1>5. Pieces(t) \in [1..Len(t) -> Seq(Cell)]
  BY <1>0, <1>4 DEF Pieces
<1>6. Pieces(t) \in Seq(Seq(Cell)) /\ Len(Pieces(t)) = Len(t)
  BY <1>0, <1>5
<1>7. Dated(t) = FlattenSeq(Pieces(t))
  BY DEF Dated, Pieces
<1>8. ASSUME NEW i \in 1..Len(t)
      PROVE  /\ Pieces(t)[i] # <<>> /\ Pieces(t)[i][Len(Pieces(t)[i])] = t[i]
             /\ ~StartsLine(t, i) => Len(Pieces(t)[i]) = 1
  <2>1. Pieces(t)[i] = IF StartsLine(t, i) THEN Date \o <<t[i]>> ELSE <<t[i]>>
    BY <1>0 DEF Pieces
  <2> QED
    BY <1>4, <2>1
<1> QED
  BY <1>6, <1>7, <1>8

\* Where the cells of a text are once it has its dates: in order, with no more
\* in front of one of them and behind it than there are dates, and next to each
\* other within a line.
LEMMA DatedPositions ==
  ASSUME NEW t \in Seq(Cell), t # <<>>
  PROVE  \E p : /\ \A i \in 1..Len(t) : /\ p[i] \in 1..Len(Dated(t)) /\ Dated(t)[p[i]] = t[i]
                                        /\ p[i] >= i /\ Len(Dated(t)) - p[i] >= Len(t) - i
                /\ \A i \in 2..Len(t) : ~StartsLine(t, i) => p[i] = p[i - 1] + 1
<1> DEFINE n == Len(t)
           ss == Pieces(t)
           D == Dated(t)
<1>1. n \in Nat \ {0}
  BY EmptySeq
<1>2. /\ D = FlattenSeq(ss) /\ ss \in Seq(Seq(Cell)) /\ Len(ss) = n
      /\ \A i \in 1..n : /\ ss[i] # <<>> /\ ss[i][Len(ss[i])] = t[i]
                         /\ ~StartsLine(t, i) => Len(ss[i]) = 1
  BY PiecesFacts
<1> HIDE DEF n, ss, D
<1>3. PICK f : Joins(ss, f) /\ D = f[n]
  BY <1>1, <1>2, FlattenStepwise
<1>4. Filled(ss)
  BY <1>2 DEF Filled
<1>5. \A i \in 1..n : /\ Len(f[i]) \in Nat /\ Len(f[i]) >= i /\ f[i][Len(f[i])] = t[i]
                      /\ i # 1 => Len(f[i]) = Len(f[i - 1]) + Len(ss[i])
  <2> TAKE i \in 1..n
  <2>1. i \in 1..Len(ss)
    BY <1>2
  <2>2. Ended(ss, f, i)
    BY <1>2, <1>3, <1>4, <2>1, JoinsEnd, Zenon
  <2>3. ss[i][Len(ss[i])] = t[i]
    BY <1>2
  <2> QED
    BY <2>2, <2>3, Zenon DEF Ended
<1>6. \A i \in 1..n : /\ Len(D) - Len(f[i]) >= n - i
                      /\ \A k \in 1..Len(f[i]) : D[k] = f[i][k]
  <2> TAKE i \in 1..n
  <2>1. i \in 1..Len(ss) /\ n \in i..Len(ss)
    BY <1>1, <1>2
  <2>2. JoinGrown(f, i, n)
    BY <1>2, <1>3, <1>4, <2>1, JoinsGrow, Zenon
  <2> QED
    BY <1>3, <2>2 DEF JoinGrown
<1> DEFINE p == [i \in 1..n |-> Len(f[i])]
<1>7. ASSUME NEW i \in 1..n
      PROVE  /\ p[i] \in 1..Len(D) /\ D[p[i]] = t[i]
             /\ p[i] >= i /\ Len(D) - p[i] >= n - i
  <2>1. p[i] = Len(f[i]) /\ p[i] \in Nat /\ p[i] >= i /\ Len(D) - p[i] >= n - i
    BY <1>5, <1>6
  <2>2. n \in 1..n
    BY <1>1
  <2>3. Len(D) \in Nat
    BY <1>3, <1>5, <2>2
  <2>4. p[i] \in 1..Len(f[i]) /\ p[i] \in 1..Len(D)
    BY <1>1, <2>1, <2>3
  <2> QED
    BY <1>5, <1>6, <2>1, <2>4
<1>8. ASSUME NEW i \in 2..n, ~StartsLine(t, i)
      PROVE  p[i] = p[i - 1] + 1
  <2>1. i \in 1..n /\ i - 1 \in 1..n /\ i # 1
    BY <1>1
  <2>2. Len(f[i]) = Len(f[i - 1]) + Len(ss[i]) /\ Len(ss[i]) = 1
    BY <1>2, <1>5, <1>8, <2>1
  <2> QED
    BY <2>1, <2>2
<1> HIDE DEF p
<1> QED
  BY <1>7, <1>8, Zenon DEF n, D

\* The dates are cells, too; and only an empty text has nothing written of it.
LEMMA DatedType ==
  ASSUME NEW t \in Seq(Cell)
  PROVE  /\ Dated(t) \in Seq(Cell) /\ Len(Dated(t)) \in Nat /\ Len(Dated(t)) >= Len(t)
         /\ t = <<>> => Dated(t) = <<>>
         /\ t # <<>> => Dated(t) # <<>>
<1>1. Dated(t) \in Seq(Cell)
  BY PiecesFacts, FlattenType
<1>2. Len(Dated(t)) \in Nat /\ Len(t) \in Nat
  BY <1>1
<1>3. CASE t = <<>>
  <2>1. Pieces(t) = <<>>
    BY <1>3, PiecesFacts, EmptySeq
  <2>2. Dated(t) = <<>>
    BY <2>1, PiecesFacts, FlattenEmpty
  <2> QED
    BY <1>1, <1>2, <1>3, <2>2
<1>4. CASE t # <<>>
  <2>1. Len(t) \in Nat \ {0}
    BY <1>4, EmptySeq
  <2>2. PICK p : \A i \in 1..Len(t) : p[i] \in 1..Len(Dated(t)) /\ p[i] >= i
    BY <1>4, DatedPositions
  <2>3. Len(t) \in 1..Len(t)
    BY <2>1
  <2>4. Len(Dated(t)) >= Len(t)
    BY <1>2, <2>2, <2>3
  <2>5. Dated(t) # <<>>
    <3>1. Len(<<>>) = 0
      OBVIOUS
    <3> QED
      BY <1>2, <2>1, <2>4, <3>1
  <2> QED
    BY <1>1, <1>2, <1>4, <2>4, <2>5
<1> QED
  BY <1>3, <1>4

\* A text that ends with a line is dated apart from what follows it.
LEMMA DatedConcat ==
  ASSUME NEW a \in Seq(Cell), NEW b \in Seq(Cell), a # <<>> => Ends(a[Len(a)])
  PROVE  Dated(a \o b) = Dated(a) \o Dated(b)
<1> DEFINE t == a \o b
           m == Len(a)
           n == Len(b)
<1>1. /\ t \in Seq(Cell) /\ Len(t) = m + n /\ DOMAIN t = 1..(m + n) /\ m \in Nat /\ n \in Nat
      /\ \A i \in 1..(m + n) : t[i] = IF i <= m THEN a[i] ELSE b[i - m]
      /\ DOMAIN a = 1..m /\ DOMAIN b = 1..n
  BY ConcatProperties, LenProperties
<1>2. m # 0 => Ends(a[m])
  BY EmptySeq
<1> HIDE DEF t, m, n
<1>3. \A i \in 1..m : StartsLine(t, i) <=> StartsLine(a, i)
  <2> TAKE i \in 1..m
  <2>1. CASE i = 1
    BY <2>1 DEF StartsLine
  <2>2. CASE i # 1
    <3>1. i - 1 \in 1..(m + n) /\ i - 1 <= m
      BY <1>1, <2>2
    <3>2. t[i - 1] = a[i - 1]
      BY <1>1, <3>1
    <3> QED
      BY <2>2, <3>2 DEF StartsLine
  <2> QED
    BY <2>1, <2>2
<1>4. \A i \in (m + 1)..(m + n) : StartsLine(t, i) <=> StartsLine(b, i - m)
  <2> TAKE i \in (m + 1)..(m + n)
  <2>1. CASE i = m + 1
    <3>1. i - m = 1 /\ i - 1 = m
      BY <1>1, <2>1
    <3>2. StartsLine(b, i - m)
      BY <3>1 DEF StartsLine
    <3>3. m # 0 => m \in 1..(m + n) /\ m <= m
      BY <1>1
    <3>4. m # 0 => t[m] = a[m]
      BY <1>1, <3>3
    <3>5. StartsLine(t, i)
      BY <1>1, <1>2, <2>1, <3>1, <3>4 DEF StartsLine
    <3> QED
      BY <3>2, <3>5
  <2>2. CASE i # m + 1
    <3>1. i - 1 \in 1..(m + n) /\ ~(i - 1 <= m) /\ (i - 1) - m = (i - m) - 1 /\ i # 1 /\ i - m # 1
      BY <1>1, <2>2
    <3>2. t[i - 1] = b[(i - m) - 1]
      BY <1>1, <3>1
    <3> QED
      BY <3>1, <3>2 DEF StartsLine
  <2> QED
    BY <1>1, <2>1, <2>2
<1> DEFINE p == Pieces(a)
           q == Pieces(b)
<1>5. /\ p \in Seq(Seq(Cell)) /\ Len(p) = m /\ q \in Seq(Seq(Cell)) /\ Len(q) = n
      /\ Dated(a) = FlattenSeq(p) /\ Dated(b) = FlattenSeq(q)
      /\ Dated(t) = FlattenSeq(Pieces(t)) /\ Pieces(t) \in Seq(Seq(Cell)) /\ Len(Pieces(t)) = m + n
  BY <1>1, PiecesFacts DEF m, n
<1>6. \A i \in 1..(m + n) : Pieces(t)[i] = IF StartsLine(t, i) THEN Date \o <<t[i]>> ELSE <<t[i]>>
  BY <1>1 DEF Pieces
<1>7. \A i \in 1..m : p[i] = Pieces(t)[i]
  <2> TAKE i \in 1..m
  <2>1. p[i] = IF StartsLine(a, i) THEN Date \o <<a[i]>> ELSE <<a[i]>>
    BY <1>1 DEF Pieces
  <2>2. i \in 1..(m + n) /\ i <= m
    BY <1>1
  <2> QED
    BY <1>1, <1>3, <1>6, <2>1, <2>2
<1>8. \A i \in (m + 1)..(m + n) : q[i - m] = Pieces(t)[i]
  <2> TAKE i \in (m + 1)..(m + n)
  <2>1. i \in 1..(m + n) /\ ~(i <= m) /\ i - m \in 1..n
    BY <1>1
  <2>2. q[i - m] = IF StartsLine(b, i - m) THEN Date \o <<b[i - m]>> ELSE <<b[i - m]>>
    BY <1>1, <2>1 DEF Pieces
  <2> QED
    BY <1>1, <1>4, <1>6, <2>1, <2>2
<1> HIDE DEF p, q
<1>9. /\ p \o q \in Seq(Seq(Cell)) /\ Len(p \o q) = m + n
      /\ \A i \in 1..(m + n) : (p \o q)[i] = IF i <= m THEN p[i] ELSE q[i - m]
  <2>1. /\ p \o q \in Seq(Seq(Cell)) /\ Len(p \o q) = Len(p) + Len(q)
        /\ \A i \in 1..(Len(p) + Len(q)) : (p \o q)[i] = IF i <= Len(p) THEN p[i] ELSE q[i - Len(p)]
    BY <1>5, ConcatProperties
  <2> QED
    BY <1>5, <2>1
<1>10. \A i \in 1..(m + n) : Pieces(t)[i] = (p \o q)[i]
  <2> TAKE i \in 1..(m + n)
  <2>1. CASE i <= m
    BY <1>1, <1>7, <1>9, <2>1
  <2>2. CASE ~(i <= m)
    <3>1. i \in (m + 1)..(m + n)
      BY <1>1, <2>2
    <3>2. q[i - m] = Pieces(t)[i]
      BY <1>8, <3>1
    <3> QED
      BY <1>9, <2>2, <3>2
  <2> QED
    BY <2>1, <2>2
<1>11. Pieces(t) = p \o q
  BY <1>5, <1>9, <1>10, SeqEqual
<1>12. FlattenSeq(p \o q) = FlattenSeq(p) \o FlattenSeq(q)
  BY <1>5, FlattenConcat
<1> QED
  BY <1>5, <1>11, <1>12 DEF t

\* A line is a sequence of its cells, the last of them its end.
LEMMA LineFacts ==
  ASSUME NEW n \in 1..MaxLines
  PROVE  /\ Line(n) \in Seq(Cell) /\ Len(Line(n)) = LineLen /\ Line(n) # <<>>
         /\ \A k \in 1..LineLen : Line(n)[k] = <<n, k>>
         /\ Ends(Line(n)[LineLen])
<1>1. LineLen \in Nat \ {0} /\ DateLen \in Nat \ {0} /\ MaxLines \in Nat
  BY LoggingAssumption
<1>2. \A k \in 1..LineLen : <<n, k>> \in Cell
  BY <1>1 DEF Cell
<1>3. Line(n) \in [1..LineLen -> Cell]
  BY <1>2 DEF Line
<1>4. Line(n) \in Seq(Cell) /\ Len(Line(n)) = LineLen
  BY <1>1, <1>3
<1>5. \A k \in 1..LineLen : Line(n)[k] = <<n, k>>
  BY DEF Line
<1>6. LineLen \in 1..LineLen
  BY <1>1
<1>7. Line(n)[LineLen] = <<n, LineLen>>
  BY <1>5, <1>6
<1>8. Line(n) # <<>>
  BY <1>1, <1>4
<1>9. Ends(Line(n)[LineLen])
  BY <1>7 DEF Ends
<1> QED
  BY <1>4, <1>5, <1>8, <1>9

\* A text holds a part where it has the part's cells.
LEMMA HoldsCells ==
  ASSUME NEW s \in Seq(Cell), NEW b \in Seq(Cell), b # <<>>
  PROVE  Holds(s, b) <=> \E i \in 0..(Len(s) - Len(b)) :
                           \A k \in 1..Len(b) : s[i + k] = b[k]
<1> DEFINE n == Len(b)
<1>1. n \in Nat \ {0} /\ Len(s) \in Nat /\ \A i \in 1..Len(s) : s[i] \in Cell
  BY EmptySeq
<1> HIDE DEF n
<1>2. ASSUME NEW i \in 0..(Len(s) - n)
      PROVE  SubSeq(s, i + 1, i + n) = b <=> \A k \in 1..n : s[i + k] = b[k]
  <2> DEFINE u == SubSeq(s, i + 1, i + n)
  <2>1. u \in Seq(Cell) /\ Len(u) = n /\ \A k \in 1..n : u[k] = s[i + k]
    <3>1. \A k \in (i + 1)..(i + n) : s[k] \in Cell
      BY <1>1
    <3>2. i + 1 \in Int /\ i + n \in Int /\ i + 1 <= i + n
          /\ (i + n) - (i + 1) + 1 = n
          /\ \A k \in 1..n : (i + 1) + k - 1 = i + k
      BY <1>1
    <3>3. /\ u \in Seq(Cell) /\ Len(u) = (i + n) - (i + 1) + 1
          /\ \A k \in 1..((i + n) - (i + 1) + 1) : u[k] = s[(i + 1) + k - 1]
      BY <3>1, <3>2, SubSeqProperties
    <3> QED
      BY <3>2, <3>3
  <2> HIDE DEF u
  <2>2. ASSUME \A k \in 1..n : s[i + k] = b[k] PROVE u = b
    <3>1. Len(u) = Len(b) /\ \A k \in 1..Len(u) : u[k] = b[k]
      BY <2>1, <2>2 DEF n
    <3> QED
      BY <2>1, <3>1, SeqEqual
  <2>3. ASSUME u = b PROVE \A k \in 1..n : s[i + k] = b[k]
    BY <2>1, <2>3
  <2> QED
    BY <2>2, <2>3 DEF u
<1> QED
  BY <1>2, Zenon DEF Holds, n

\* What a part holds the whole holds.
LEMMA HoldsConcat ==
  ASSUME NEW a \in Seq(Cell), NEW b \in Seq(Cell), NEW c \in Seq(Cell), c # <<>>,
         Holds(a, c) \/ Holds(b, c)
  PROVE  Holds(a \o b, c)
<1> DEFINE n == Len(c)
<1>0. n \in Nat \ {0}
  BY EmptySeq
<1> HIDE DEF n
<1>1. /\ a \o b \in Seq(Cell) /\ Len(a \o b) = Len(a) + Len(b)
      /\ \A k \in 1..(Len(a) + Len(b)) : (a \o b)[k] = IF k <= Len(a) THEN a[k] ELSE b[k - Len(a)]
      /\ Len(a) \in Nat /\ Len(b) \in Nat
  BY ConcatProperties
<1>2. CASE Holds(a, c)
  <2>1. PICK i \in 0..(Len(a) - n) : \A k \in 1..n : a[i + k] = c[k]
    BY <1>2, HoldsCells DEF n
  <2>2. i \in 0..(Len(a \o b) - n)
    BY <1>0, <1>1, <2>1
  <2>3. \A k \in 1..n : (a \o b)[i + k] = c[k]
    <3> TAKE k \in 1..n
    <3>1. i + k \in 1..(Len(a) + Len(b)) /\ i + k <= Len(a)
      BY <1>0, <1>1, <2>1
    <3> QED
      BY <1>1, <2>1, <3>1
  <2> QED
    BY <1>1, <2>2, <2>3, HoldsCells DEF n
<1>3. CASE Holds(b, c)
  <2>1. PICK i \in 0..(Len(b) - n) : \A k \in 1..n : b[i + k] = c[k]
    BY <1>3, HoldsCells DEF n
  <2>2. Len(a) + i \in 0..(Len(a \o b) - n)
    BY <1>0, <1>1, <2>1
  <2>3. \A k \in 1..n : (a \o b)[(Len(a) + i) + k] = c[k]
    <3> TAKE k \in 1..n
    <3>1. /\ (Len(a) + i) + k \in 1..(Len(a) + Len(b)) /\ ~((Len(a) + i) + k <= Len(a))
          /\ ((Len(a) + i) + k) - Len(a) = i + k
      BY <1>0, <1>1, <2>1
    <3> QED
      BY <1>1, <2>1, <3>1
  <2> QED
    BY <1>1, <2>2, <2>3, HoldsCells DEF n
<1> QED
  BY <1>2, <1>3

\* A part holds itself.
LEMMA HoldsItself ==
  ASSUME NEW c \in Seq(Cell), c # <<>>
  PROVE  Holds(c, c)
<1>1. 0 \in 0..(Len(c) - Len(c)) /\ \A k \in 1..Len(c) : c[0 + k] = c[k]
  OBVIOUS
<1> QED
  BY <1>1, HoldsCells

\* A text ends where a line ends, and an entry begins where a line begins.
Entries(t) == /\ t # <<>> => Ends(t[Len(t)])
              /\ \A i \in 2..Len(t) : t[i][2] = 1 => Ends(t[i - 1])

\* An entry that a text holds whole is written in one piece, with its dates.
LEMMA DatedHolds ==
  ASSUME NEW t \in Seq(Cell), Entries(t), NEW n \in 1..MaxLines, Holds(t, Line(n))
  PROVE  Holds(Dated(t), Dated(Line(n)))
<1> DEFINE u == Line(n)
<1>1. LineLen \in Nat \ {0} /\ Len(t) \in Nat /\ \A k \in 1..Len(t) : t[k] \in Cell
  BY LoggingAssumption
<1>2. /\ u \in Seq(Cell) /\ Len(u) = LineLen /\ u # <<>> /\ Ends(u[LineLen])
      /\ \A k \in 1..LineLen : u[k] = <<n, k>>
  BY LineFacts
<1>3. PICK i \in 0..(Len(t) - Len(u)) : SubSeq(t, i + 1, i + Len(u)) = u
  BY DEF Holds
<1> DEFINE a == SubSeq(t, 1, i)
           b == SubSeq(t, i + LineLen + 1, Len(t))
<1>4. /\ i \in Nat /\ i + LineLen <= Len(t)
      /\ \A k \in 1..LineLen : t[i + k] = <<n, k>>
  <2>1. i \in Nat /\ i + LineLen <= Len(t)
    BY <1>1, <1>2
  <2>2. \A k \in (i + 1)..(i + LineLen) : t[k] \in Cell
    BY <1>1, <2>1
  <2>3. i + 1 \in Int /\ i + LineLen \in Int /\ i + 1 <= i + LineLen
        /\ (i + LineLen) - (i + 1) + 1 = LineLen
        /\ \A k \in 1..LineLen : (i + 1) + k - 1 = i + k
    BY <1>1, <2>1
  <2> DEFINE v == SubSeq(t, i + 1, i + LineLen)
  <2>4. \A k \in 1..((i + LineLen) - (i + 1) + 1) : v[k] = t[(i + 1) + k - 1]
    BY <2>2, <2>3, SubSeqProperties
  <2>5. v = u
    BY <1>2, <1>3
  <2> HIDE DEF v
  <2> QED
    BY <1>2, <2>1, <2>3, <2>4, <2>5
<1>5. a \in Seq(Cell) /\ Len(a) = i /\ \A k \in 1..i : a[k] = t[k]
  <2>1. \A k \in 1..i : t[k] \in Cell
    BY <1>1, <1>4
  <2>2. /\ a \in Seq(Cell) /\ Len(a) = IF 1 <= i THEN i - 1 + 1 ELSE 0
        /\ \A k \in 1..(i - 1 + 1) : a[k] = t[1 + k - 1]
    BY <1>4, <2>1, SubSeqProperties
  <2>3. (IF 1 <= i THEN i - 1 + 1 ELSE 0) = i /\ i - 1 + 1 = i /\ \A k \in 1..i : 1 + k - 1 = k
    BY <1>4
  <2> QED
    BY <2>2, <2>3
<1>6. b \in Seq(Cell)
  <2>1. \A k \in (i + LineLen + 1)..Len(t) : t[k] \in Cell
    BY <1>1, <1>4
  <2>2. i + LineLen + 1 \in Int /\ Len(t) \in Int
    BY <1>1, <1>4
  <2> QED
    BY <2>1, <2>2, SubSeqProperties
<1>7. t = (a \o u) \o b
  <2>1. SubSeq(t, 1, Len(t)) = t
    BY SubSeqFull
  <2>2. a \o SubSeq(t, i + 1, i + LineLen) = SubSeq(t, 1, i + LineLen)
    <3>1. 1 \in 1..(Len(t) + 1) /\ i \in (1 - 1)..Len(t) /\ i + LineLen \in i..Len(t)
      BY <1>1, <1>4
    <3> QED
      BY <3>1, ConcatAdjacentSubSeq
  <2>3. SubSeq(t, 1, i + LineLen) \o b = SubSeq(t, 1, Len(t))
    <3>1. 1 \in 1..(Len(t) + 1) /\ i + LineLen \in (1 - 1)..Len(t) /\ Len(t) \in (i + LineLen)..Len(t)
      BY <1>1, <1>4
    <3> QED
      BY <3>1, ConcatAdjacentSubSeq
  <2> QED
    BY <1>2, <1>3, <2>1, <2>2, <2>3
<1>8. a # <<>> => Ends(a[Len(a)])
  <2> SUFFICES ASSUME a # <<>> PROVE Ends(a[Len(a)])
    OBVIOUS
  <2>1. i # 0
    BY <1>5, EmptySeq
  <2>2. i \in 1..i /\ i + 1 \in 2..Len(t) /\ (i + 1) - 1 = i /\ 1 \in 1..LineLen
    BY <1>1, <1>4, <2>1
  <2>3. t[i + 1] = <<n, 1>>
    BY <1>4, <2>2
  <2>4. t[i + 1][2] = 1
    BY <2>3
  <2>5. Ends(t[i])
    BY <2>2, <2>4 DEF Entries
  <2> QED
    BY <1>5, <2>2, <2>5
<1> HIDE DEF a, b, u
<1>9. a \o u \in Seq(Cell) /\ Len(a \o u) = Len(a) + Len(u) /\ (a \o u)[Len(a) + Len(u)] = u[Len(u)]
  <2>1. /\ a \o u \in Seq(Cell) /\ Len(a \o u) = Len(a) + Len(u)
        /\ \A k \in 1..(Len(a) + Len(u)) : (a \o u)[k] = IF k <= Len(a) THEN a[k] ELSE u[k - Len(a)]
    BY <1>2, <1>5, ConcatProperties
  <2>2. /\ Len(a) + Len(u) \in 1..(Len(a) + Len(u)) /\ ~(Len(a) + Len(u) <= Len(a))
        /\ (Len(a) + Len(u)) - Len(a) = Len(u)
    BY <1>1, <1>2, <1>4, <1>5
  <2> QED
    BY <2>1, <2>2
<1>10. Dated(t) = (Dated(a) \o Dated(u)) \o Dated(b)
  <2>1. Dated(a \o u) = Dated(a) \o Dated(u)
    BY <1>2, <1>5, <1>8, DatedConcat
  <2>2. Ends((a \o u)[Len(a \o u)])
    BY <1>2, <1>9
  <2>3. Dated((a \o u) \o b) = Dated(a \o u) \o Dated(b)
    BY <1>6, <1>9, <2>2, DatedConcat
  <2> QED
    BY <1>7, <2>1, <2>3
<1> DEFINE da == Dated(a)
           du == Dated(u)
           db == Dated(b)
<1>11. da \in Seq(Cell) /\ du \in Seq(Cell) /\ du # <<>> /\ db \in Seq(Cell)
  BY <1>2, <1>5, <1>6, DatedType
<1> HIDE DEF da, du, db
<1>12. Holds(du, du)
  BY <1>11, HoldsItself
<1>13. Holds(da \o du, du) /\ da \o du \in Seq(Cell)
  BY <1>11, <1>12, HoldsConcat, ConcatProperties
<1>14. Holds((da \o du) \o db, du)
  BY <1>11, <1>13, HoldsConcat
<1> QED
  BY <1>10, <1>14 DEF da, du, db, u

\* Entries follow each other when one is appended, and in what ends a text.
LEMMA EntriesConcat ==
  ASSUME NEW t \in Seq(Cell), Entries(t), NEW n \in 1..MaxLines
  PROVE  Entries(t \o Line(n))
<1> DEFINE u == Line(n)
           s == t \o u
<1>1. LineLen \in Nat \ {0} /\ Len(t) \in Nat
  BY LoggingAssumption
<1>2. /\ u \in Seq(Cell) /\ Len(u) = LineLen /\ Ends(u[LineLen])
      /\ \A k \in 1..LineLen : u[k] = <<n, k>>
  BY LineFacts
<1> HIDE DEF u
<1>3. /\ Len(s) = Len(t) + LineLen
      /\ \A k \in 1..(Len(t) + LineLen) : s[k] = IF k <= Len(t) THEN t[k] ELSE u[k - Len(t)]
  <2>1. /\ Len(s) = Len(t) + Len(u)
        /\ \A k \in 1..(Len(t) + Len(u)) : s[k] = IF k <= Len(t) THEN t[k] ELSE u[k - Len(t)]
    BY <1>2, ConcatProperties
  <2> QED
    BY <1>2, <2>1
<1> HIDE DEF s
<1>4. Ends(s[Len(s)])
  <2>1. /\ Len(t) + LineLen \in 1..(Len(t) + LineLen) /\ ~(Len(t) + LineLen <= Len(t))
        /\ (Len(t) + LineLen) - Len(t) = LineLen
    BY <1>1
  <2> QED
    BY <1>2, <1>3, <2>1
<1>5. ASSUME NEW i \in 2..Len(s), s[i][2] = 1 PROVE Ends(s[i - 1])
  <2>1. i \in 1..(Len(t) + LineLen) /\ i - 1 \in 1..(Len(t) + LineLen)
    BY <1>1, <1>3
  <2>2. CASE i <= Len(t)
    <3>1. i \in 2..Len(t) /\ i - 1 <= Len(t)
      BY <1>1, <1>3, <2>2
    <3>2. s[i] = t[i] /\ s[i - 1] = t[i - 1]
      BY <1>3, <2>1, <2>2, <3>1
    <3> QED
      BY <1>5, <3>1, <3>2 DEF Entries
  <2>3. CASE ~(i <= Len(t))
    <3> DEFINE k == i - Len(t)
    <3>1. k \in 1..LineLen
      BY <1>1, <1>3, <2>3
    <3>2. s[i] = <<n, k>>
      BY <1>2, <1>3, <2>1, <2>3, <3>1
    <3>3. k = 1
      BY <1>5, <3>2
    <3>4. i - 1 = Len(t) /\ Len(t) \in 1..Len(t) /\ i - 1 <= Len(t)
      BY <1>1, <2>1, <3>3
    <3>5. s[i - 1] = t[Len(t)] /\ t # <<>>
      BY <1>1, <1>3, <2>1, <3>4
    <3> QED
      BY <3>5 DEF Entries
  <2> QED
    BY <2>2, <2>3
<1> QED
  BY <1>4, <1>5 DEF Entries, s, u

LEMMA EntriesSuffix ==
  ASSUME NEW t \in Seq(Cell), Entries(t), NEW m \in 1..Len(t)
  PROVE  Entries(SubSeq(t, m, Len(t)))
<1> DEFINE n == Len(t) - m + 1
           b == SubSeq(t, m, Len(t))
<1>1. Len(t) \in Nat /\ m \in Nat /\ m >= 1 /\ m <= Len(t) /\ n \in Nat /\ n >= 1
  OBVIOUS
<1>2. \A k \in m..Len(t) : t[k] \in Cell
  BY <1>1
<1>3. Len(b) = n /\ \A k \in 1..n : b[k] = t[m + k - 1]
  BY <1>1, <1>2, SubSeqProperties
<1> HIDE DEF b
<1>4. Ends(b[Len(b)])
  <2>1. n \in 1..n /\ m + n - 1 = Len(t) /\ t # <<>>
    BY <1>1
  <2>2. b[n] = t[Len(t)]
    BY <1>3, <2>1
  <2> QED
    BY <1>3, <2>1, <2>2 DEF Entries
<1>5. ASSUME NEW i \in 2..Len(b), b[i][2] = 1 PROVE Ends(b[i - 1])
  <2>1. /\ i \in 1..n /\ i - 1 \in 1..n /\ m + i - 1 \in 2..Len(t)
        /\ m + (i - 1) - 1 = (m + i - 1) - 1
    BY <1>1, <1>3
  <2>2. b[i] = t[m + i - 1] /\ b[i - 1] = t[(m + i - 1) - 1]
    BY <1>3, <2>1
  <2> QED
    BY <1>5, <2>1, <2>2 DEF Entries
<1> QED
  BY <1>4, <1>5 DEF Entries, b

\* The cells of a text are written with it.
LEMMA DatedCells ==
  ASSUME NEW t \in Seq(Cell)
  PROVE  \A x \in Range(t) : x \in Range(Dated(t))
<1> SUFFICES ASSUME NEW i \in 1..Len(t) PROVE t[i] \in Range(Dated(t))
  BY RangeEquality
<1>1. t # <<>>
  OBVIOUS
<1>2. PICK p : \A j \in 1..Len(t) : p[j] \in 1..Len(Dated(t)) /\ Dated(t)[p[j]] = t[j]
  BY <1>1, DatedPositions
<1>3. Dated(t) \in Seq(Cell)
  BY DatedType
<1>4. DOMAIN Dated(t) = 1..Len(Dated(t))
  BY <1>3, LenProperties
<1> QED
  BY <1>2, <1>4 DEF Range

\* What a short write takes and what it keeps have all cells of the text
\* between them: in front of a cell there are no more dates than the text has.
LEMMA ShortWriteCells ==
  ASSUME NEW t \in Seq(Cell), NEW w \in 1..(Len(Dated(t)) - 1),
         Len(Dated(t)) - w <= Len(t)
  PROVE  LET r == Len(Dated(t)) - w IN
         \A x \in Range(t) : \/ x \in Range(SubSeq(Dated(t), 1, w))
                             \/ x \in Range(SubSeq(t, Len(t) - r + 1, Len(t)))
<1> DEFINE D == Dated(t)
           r == Len(D) - w
           a == SubSeq(D, 1, w)
           b == SubSeq(t, Len(t) - r + 1, Len(t))
<1> SUFFICES ASSUME NEW i \in 1..Len(t) PROVE t[i] \in Range(a) \/ t[i] \in Range(b)
  BY RangeEquality
<1>1. t # <<>> /\ Len(t) \in Nat /\ \A k \in 1..Len(t) : t[k] \in Cell
  OBVIOUS
<1>2. PICK p : /\ \A j \in 1..Len(t) : /\ p[j] \in 1..Len(D) /\ D[p[j]] = t[j]
                                       /\ p[j] >= j /\ Len(D) - p[j] >= Len(t) - j
               /\ \A j \in 2..Len(t) : ~StartsLine(t, j) => p[j] = p[j - 1] + 1
  BY <1>1, DatedPositions
<1>3. D \in Seq(Cell) /\ Len(D) \in Nat
  BY DatedType
<1>4. w \in Nat /\ w >= 1 /\ w < Len(D) /\ r \in Nat /\ r >= 1 /\ r <= Len(t)
  BY <1>3
<1> HIDE DEF D, r
<1>5. CASE p[i] <= w
  <2>1. \A k \in 1..w : D[k] \in Cell
    BY <1>3, <1>4
  <2>2. /\ a \in Seq(Cell) /\ Len(a) = w /\ \A k \in 1..w : a[k] = D[k]
    <3>1. /\ a \in Seq(Cell) /\ Len(a) = w - 1 + 1
          /\ \A k \in 1..(w - 1 + 1) : a[k] = D[1 + k - 1]
      BY <1>4, <2>1, SubSeqProperties
    <3>2. w - 1 + 1 = w /\ \A k \in 1..w : 1 + k - 1 = k
      BY <1>4
    <3> QED
      BY <3>1, <3>2
  <2> HIDE DEF a
  <2>3. p[i] \in 1..w /\ a[p[i]] = t[i]
    BY <1>2, <1>3, <1>4, <1>5, <2>2
  <2>4. t[i] \in Range(a)
    BY <2>2, <2>3, RangeEquality
  <2> QED
    BY <2>4
<1>6. CASE ~(p[i] <= w)
  <2> DEFINE m == Len(t) - r + 1
  <2>1. m \in Nat /\ m >= 1 /\ Len(t) - m + 1 = r /\ m <= Len(t)
    BY <1>1, <1>4
  <2>2. \A k \in m..Len(t) : t[k] \in Cell
    BY <1>1, <2>1
  <2>3. b \in Seq(Cell) /\ Len(b) = r /\ \A k \in 1..r : b[k] = t[m + k - 1]
    BY <1>1, <2>1, <2>2, SubSeqProperties
  <2>4. i >= m
    <3>1. p[i] \in Nat /\ Len(D) - p[i] >= Len(t) - i
      BY <1>2, <1>3
    <3>2. Len(D) - p[i] <= r - 1
      BY <1>3, <1>4, <1>6, <3>1 DEF r
    <3> QED
      BY <1>1, <1>3, <1>4, <3>1, <3>2
  <2>5. i - m + 1 \in 1..r /\ m + (i - m + 1) - 1 = i
    BY <1>1, <1>4, <2>1, <2>4
  <2> HIDE DEF m, b
  <2>6. b[i - m + 1] = t[i]
    BY <2>3, <2>5
  <2>7. t[i] \in Range(b)
    BY <2>3, <2>5, <2>6, RangeEquality
  <2> QED
    BY <2>7
<1> QED
  BY <1>5, <1>6
-----------------------------------------------------------------------------
(* Lines that follow each other.                                           *)

\* The lines from m + 1 to n, behind those up to m.
LEMMA LinesSplit ==
  ASSUME NEW n \in 0..MaxLines, NEW m \in 0..n, NEW a \in 1..(m + 1)
  PROVE  /\ Lines(a, m) \in Seq(Cell) /\ Lines(m + 1, n) \in Seq(Cell)
         /\ Lines(a, n) = Lines(a, m) \o Lines(m + 1, n)
<1> DEFINE p == [i \in 1..(m - a + 1) |-> Line(a + i - 1)]
           q == [i \in 1..(n - (m + 1) + 1) |-> Line((m + 1) + i - 1)]
           s == [i \in 1..(n - a + 1) |-> Line(a + i - 1)]
<1>1. MaxLines \in Nat /\ n \in Nat /\ m \in Nat /\ a \in Nat /\ m - a + 1 \in Nat /\ n - m \in Nat
      /\ n - (m + 1) + 1 = n - m /\ n - a + 1 = (m - a + 1) + (n - m) /\ n - a + 1 \in Nat
  BY LoggingAssumption
<1>2. \A i \in 1..MaxLines : Line(i) \in Seq(Cell)
  BY LineFacts
<1>3. p \in Seq(Seq(Cell)) /\ Len(p) = m - a + 1 /\ \A i \in 1..(m - a + 1) : p[i] = Line(a + i - 1)
  <2>1. \A i \in 1..(m - a + 1) : a + i - 1 \in 1..MaxLines
    BY <1>1
  <2>2. p \in [1..(m - a + 1) -> Seq(Cell)]
    BY <1>2, <2>1
  <2>3. \A i \in 1..(m - a + 1) : p[i] = Line(a + i - 1)
    OBVIOUS
  <2> DEFINE k == m - a + 1
  <2>4. p \in [1..k -> Seq(Cell)] /\ k \in Nat
    BY <1>1, <2>2
  <2> HIDE DEF k, p
  <2>5. p \in Seq(Seq(Cell)) /\ Len(p) = k
    BY <2>4
  <2> QED
    BY <2>3, <2>5 DEF k
<1>4. q \in Seq(Seq(Cell)) /\ Len(q) = n - m /\ \A i \in 1..(n - m) : q[i] = Line(m + i)
  <2>1. \A i \in 1..(n - m) : (m + 1) + i - 1 \in 1..MaxLines /\ (m + 1) + i - 1 = m + i
    BY <1>1
  <2>2. q \in [1..(n - m) -> Seq(Cell)]
    BY <1>1, <1>2, <2>1
  <2> QED
    BY <1>1, <2>1, <2>2
<1>5. s \in Seq(Seq(Cell)) /\ Len(s) = n - a + 1 /\ \A i \in 1..(n - a + 1) : s[i] = Line(a + i - 1)
  <2>1. \A i \in 1..(n - a + 1) : a + i - 1 \in 1..MaxLines
    BY <1>1
  <2>2. s \in [1..(n - a + 1) -> Seq(Cell)]
    BY <1>2, <2>1
  <2>3. \A i \in 1..(n - a + 1) : s[i] = Line(a + i - 1)
    OBVIOUS
  <2> DEFINE k == n - a + 1
  <2>4. s \in [1..k -> Seq(Cell)] /\ k \in Nat
    BY <1>1, <2>2
  <2> HIDE DEF k, s
  <2>5. s \in Seq(Seq(Cell)) /\ Len(s) = k
    BY <2>4
  <2> QED
    BY <2>3, <2>5 DEF k
<1>6. Lines(a, m) = FlattenSeq(p) /\ Lines(m + 1, n) = FlattenSeq(q) /\ Lines(a, n) = FlattenSeq(s)
  BY DEF Lines
<1> HIDE DEF p, q, s
<1>7. /\ p \o q \in Seq(Seq(Cell)) /\ Len(p \o q) = n - a + 1
      /\ \A i \in 1..(n - a + 1) :
           (p \o q)[i] = IF i <= m - a + 1 THEN p[i] ELSE q[i - (m - a + 1)]
  <2>1. /\ p \o q \in Seq(Seq(Cell)) /\ Len(p \o q) = Len(p) + Len(q)
        /\ \A i \in 1..(Len(p) + Len(q)) : (p \o q)[i] = IF i <= Len(p) THEN p[i] ELSE q[i - Len(p)]
    BY <1>3, <1>4, ConcatProperties
  <2> QED
    BY <1>1, <1>3, <1>4, <2>1
<1>8. \A i \in 1..(n - a + 1) : s[i] = (p \o q)[i]
  <2> TAKE i \in 1..(n - a + 1)
  <2>1. CASE i <= m - a + 1
    <3>1. i \in 1..(m - a + 1)
      BY <1>1, <2>1
    <3> QED
      BY <1>3, <1>5, <1>7, <2>1, <3>1
  <2>2. CASE ~(i <= m - a + 1)
    <3>1. i - (m - a + 1) \in 1..(n - m) /\ m + (i - (m - a + 1)) = a + i - 1
      BY <1>1, <2>2
    <3>2. q[i - (m - a + 1)] = Line(a + i - 1)
      BY <1>4, <3>1
    <3> QED
      BY <1>5, <1>7, <2>2, <3>2
  <2> QED
    BY <2>1, <2>2
<1>9. s = p \o q
  BY <1>5, <1>7, <1>8, SeqEqual
<1> QED
  BY <1>3, <1>4, <1>6, <1>9, FlattenConcat, FlattenType

\* One line, and none.
LEMMA LinesSmall ==
  /\ \A n \in 1..MaxLines : Lines(n, n) = Line(n)
  /\ \A n \in 0..MaxLines : Lines(n + 1, n) = <<>>
<1>1. MaxLines \in Nat
  BY LoggingAssumption
<1>2. ASSUME NEW n \in 1..MaxLines PROVE Lines(n, n) = Line(n)
  <2> DEFINE s == [i \in 1..(n - n + 1) |-> Line(n + i - 1)]
  <2>1. Lines(n, n) = FlattenSeq(s)
    BY DEF Lines
  <2>2. n - n + 1 = 1 /\ n + 1 - 1 = n
    BY <1>1
  <2>3. s = [i \in 1..1 |-> Line(n + i - 1)]
    BY <2>2
  <2>4. Len(s) = 1 /\ s[1] = Line(n)
    BY <2>2, <2>3
  <2> HIDE DEF s
  <2>5. Len(s) \in Nat \ {0}
    BY <2>4
  <2>6. PICK f : Joins(s, f) /\ FlattenSeq(s) = f[Len(s)]
    BY <2>5, FlattenStepwise
  <2> QED
    BY <2>1, <2>4, <2>6 DEF Joins
<1>3. ASSUME NEW n \in 0..MaxLines PROVE Lines(n + 1, n) = <<>>
  <2> DEFINE s == [i \in 1..(n - (n + 1) + 1) |-> Line((n + 1) + i - 1)]
  <2>1. Lines(n + 1, n) = FlattenSeq(s)
    BY DEF Lines
  <2>2. n - (n + 1) + 1 = 0
    BY <1>1
  <2>3. s = <<>>
    BY <2>2
  <2> QED
    BY <2>1, <2>3, FlattenEmpty
<1> QED
  BY <1>2, <1>3

\* The lines up to one end with it.
LEMMA LinesEnd ==
  ASSUME NEW m \in 0..MaxLines, Lines(1, m) # <<>>
  PROVE  Ends(Lines(1, m)[Len(Lines(1, m))])
<1>0. MaxLines \in Nat /\ LineLen \in Nat \ {0}
  BY LoggingAssumption
<1>1. CASE m = 0
  <2>1. 0 \in 0..MaxLines /\ 0 + 1 = 1
    BY <1>0
  <2>2. Lines(1, 0) = <<>>
    BY <2>1, LinesSmall
  <2> QED
    BY <1>1, <2>2
<1>2. CASE m # 0
  <2> DEFINE u == Lines(1, m - 1)
             v == Line(m)
  <2>1. m \in 1..MaxLines /\ m - 1 \in 0..m /\ 1 \in 1..((m - 1) + 1) /\ (m - 1) + 1 = m
    BY <1>0, <1>2
  <2>2. u \in Seq(Cell) /\ Lines(1, m) = u \o v
    BY <2>1, LinesSplit, LinesSmall
  <2>3. v \in Seq(Cell) /\ Len(v) = LineLen /\ Ends(v[LineLen])
    BY <2>1, LineFacts
  <2> HIDE DEF u, v
  <2>4. /\ Len(u \o v) = Len(u) + LineLen /\ Len(u) \in Nat
        /\ \A k \in 1..(Len(u) + LineLen) : (u \o v)[k] = IF k <= Len(u) THEN u[k] ELSE v[k - Len(u)]
    <3>1. u \in Seq(Cell) /\ v \in Seq(Cell) /\ Len(v) = LineLen
      BY <2>2, <2>3
    <3>2. Len(u) \in Nat
      BY <3>1, LenProperties
    <3>3. /\ Len(u \o v) = Len(u) + Len(v)
          /\ \A k \in 1..(Len(u) + Len(v)) : (u \o v)[k] = IF k <= Len(u) THEN u[k] ELSE v[k - Len(u)]
      BY <3>1, ConcatProperties, Zenon
    <3> QED
      BY <3>1, <3>2, <3>3, Zenon
  <2>5. /\ Len(u) + LineLen \in 1..(Len(u) + LineLen) /\ ~(Len(u) + LineLen <= Len(u))
        /\ (Len(u) + LineLen) - Len(u) = LineLen
    BY <1>0, <2>4
  <2> QED
    BY <2>2, <2>3, <2>4, <2>5
<1> QED
  BY <1>1, <1>2
-----------------------------------------------------------------------------
(* The invariant of the logger.                                            *)

\* The interests of the logger's two descriptors, once main loops, are those of
\* their buffers; until then nobody has asked for them.
Watched ==
  /\ status = "boot" => sel.items[LogFd] = Unused /\ sel.items[FileFd] = Unused
  /\ status = "set" => /\ sel.items[LogFd] = {}
                       /\ sel.items[FileFd] = IF open THEN {} ELSE Unused
  /\ status = "up" => /\ sel.items[LogFd] = IF text = <<>> THEN {} ELSE {"W"}
                      /\ sel.items[FileFd] = IF ~open THEN Unused
                                             ELSE IF fileText = <<>> THEN {} ELSE {"W"}

Texts ==
  /\ text \in Seq(Cell) /\ Entries(text) /\ fileText \in Seq(Cell)
  /\ out \in Seq(Cell) /\ file \in Seq(Cell)
  /\ logged \in 0..MaxLines /\ stalls \in 0..MaxStalls
  /\ open \in BOOLEAN /\ closed \subseteq Other
  /\ status \in {"boot", "set", "up", "down", "broken"}

\* Before main loops everything is in the first buffer; a file that did not open
\* has nothing waiting for it.
Started ==
  /\ status \in {"boot", "set"} =>
       /\ fileText = <<>> /\ out = <<>> /\ file = <<>> /\ stalls = 0
       /\ \A n \in 1..logged : Holds(text, Line(n))
  /\ status = "boot" => ~open
  /\ Serving /\ ~open => fileText = <<>>

\* Without a short write, standard output has the first lines and the buffer
\* the others.
WholeLines ==
  Serving /\ stalls = 0 =>
    \E m \in 0..logged : /\ text = Lines(m + 1, logged) /\ out = Dated(Lines(1, m))
                         /\ open => file \o fileText = out

IInv == SelInv /\ Texts /\ Watched /\ Started /\ WholeLines /\ NothingMissing

\* An operation on one descriptor leaves the items of the others alone.
LEMMA ItemAfter ==
  ASSUME NEW t, TableInv(t), NEW fd \in Int, NEW i \in SUBSET Op, NEW g \in Fds
  PROVE  /\ Registered(t, fd, i).items[g]
              = IF fd = g /\ t.items[g] = Unused THEN i ELSE t.items[g]
         /\ InterestSet(t, fd, i).items[g]
              = IF fd = g /\ t.items[g] # Unused THEN i ELSE t.items[g]
         /\ fd # g => Unregistered(t, fd).items[g] = t.items[g]
<1>1. /\ t.size = NextCapacity(Initial) /\ t \in TableType
      /\ t.items \in [0..(NextCapacity(Initial) - 1) -> {Unused} \cup SUBSET Op]
      /\ g \in 0..(NextCapacity(Initial) - 1)
  BY FdsFit DEF TableInv, TableType
<1>2. CASE fd \notin Fds
  BY <1>2 DEF Registered, InterestSet, Unregistered
<1>3. CASE fd \in Fds
  <2>1. ~(fd > t.size) /\ ~(fd >= t.size) /\ fd \in 0..(NextCapacity(Initial) - 1)
    BY <1>1, <1>3, SelectorAssumption, FdsFit DEF Fds
  <2>2. \A j : /\ Asked(t, fd, j).items = [t.items EXCEPT ![fd] = j]
               /\ \A v : [Asked(t, fd, j) EXCEPT !.maxFd = v].items = [t.items EXCEPT ![fd] = j]
    BY <1>1 DEF Asked, TableType
  <2>3. \A j : [t.items EXCEPT ![fd] = j][g] = IF fd = g THEN j ELSE t.items[g]
    BY <1>1, <2>1
  <2>4. Registered(t, fd, i).items[g] = IF fd = g /\ t.items[g] = Unused THEN i ELSE t.items[g]
    <3>1. CASE t.items[fd] # Unused
      BY <1>3, <2>1, <3>1 DEF Registered
    <3>2. CASE t.items[fd] = Unused
      <4>1. Registered(t, fd, i) = [Asked(t, fd, i) EXCEPT !.maxFd = IF fd > @ THEN fd ELSE @]
        BY <1>3, <2>1, <3>2 DEF Registered
      <4>2. Registered(t, fd, i).items = [t.items EXCEPT ![fd] = i]
        BY <2>2, <4>1
      <4> QED
        BY <2>3, <3>2, <4>2
    <3> QED
      BY <3>1, <3>2
  <2>5. InterestSet(t, fd, i).items[g] = IF fd = g /\ t.items[g] # Unused THEN i ELSE t.items[g]
    <3>1. CASE t.items[fd] = Unused
      BY <1>3, <2>1, <3>1 DEF InterestSet
    <3>2. CASE t.items[fd] # Unused
      <4>1. InterestSet(t, fd, i) = Asked(t, fd, i)
        BY <1>3, <2>1, <3>2 DEF InterestSet
      <4>2. InterestSet(t, fd, i).items = [t.items EXCEPT ![fd] = i]
        BY <2>2, <4>1
      <4> QED
        BY <2>3, <3>2, <4>2
    <3> QED
      BY <3>1, <3>2
  <2>6. ASSUME fd # g PROVE Unregistered(t, fd).items[g] = t.items[g]
    <3>1. CASE t.items[fd] = Unused
      BY <1>3, <2>1, <3>1 DEF Unregistered
    <3>2. CASE t.items[fd] # Unused
      <4> DEFINE u == Asked(t, fd, Unused)
      <4>1. Unregistered(t, fd) = [u EXCEPT !.maxFd = HighestUsed(u)]
        BY <1>3, <2>1, <3>2 DEF Unregistered
      <4>2. Unregistered(t, fd).items = [t.items EXCEPT ![fd] = Unused]
        BY <2>2, <4>1
      <4> QED
        BY <2>3, <2>6, <4>2
    <3> QED
      BY <3>1, <3>2
  <2> QED
    BY <2>4, <2>5, <2>6
<1> QED
  BY <1>2, <1>3

\* pselect is asked to write what a used item asks to write.
LEMMA WriteSet ==
  ASSUME SelInv, NEW g \in Fds
  PROVE  /\ g \in sel.w <=> sel.items[g] # Unused /\ "W" \in sel.items[g]
         /\ Unused # {} /\ Unused # {"W"} /\ "W" \notin Unused
         /\ {} \in SUBSET Op /\ {"W"} \in SUBSET Op
<1>1. Unused # {} /\ Unused # {"W"} /\ "W" \notin Unused /\ {} \in SUBSET Op /\ {"W"} \in SUBSET Op
  BY DEF Unused, Op
<1>2. g \in DOMAIN sel.items /\ sel.w = {fd \in Used(sel) : "W" \in sel.items[fd]}
  BY FdsFit DEF SelInv, TableInv, TableType, SetsAgree
<1> QED
  BY <1>1, <1>2 DEF Used

LEMMA NoEntries == Entries(<<>>)
BY DEF Entries

\* Nothing is logged and nothing is registered.
LEMMA InitInv == Init => IInv
<1> SUFFICES ASSUME Init PROVE IInv
  OBVIOUS
<1>1. SelInv
  BY NewTable DEF SelInv, Init, TableInit
<1>2. MaxLines \in Nat /\ MaxStalls \in Nat
  BY LoggingAssumption
<1>3. Texts
  <2>1. <<>> \in Seq(Cell)
    BY EmptySeq
  <2>2. 0 \in 0..MaxLines /\ 0 \in 0..MaxStalls
    BY <1>2
  <2> QED
    BY <2>1, <2>2, NoEntries DEF Texts, Init
<1>4. Watched
  <2>1. LogFd \in Fds /\ FileFd \in Fds
    BY LoggingAssumption
  <2>2. sel = SelectorNew /\ status = "boot"
    BY DEF Init, TableInit
  <2>3. \A g \in Fds : SelectorNew.items[g] = Unused
    BY FdsFit DEF SelectorNew
  <2> QED
    BY <2>1, <2>2, <2>3 DEF Watched
<1>5. Started
  BY DEF Started, Init
<1>6. WholeLines
  <2>1. 0 \in 0..MaxLines /\ 0 + 1 = 1 /\ 0 \in 0..0
    BY <1>2
  <2>2. Lines(0 + 1, 0) = <<>> /\ Lines(1, 0) = <<>>
    BY <2>1, LinesSmall
  <2>3. Dated(<<>>) = <<>>
    BY DatedType, EmptySeq
  <2>4. text = <<>> /\ out = <<>> /\ logged = 0 /\ ~open
    BY DEF Init
  <2>5. text = Lines(0 + 1, logged) /\ out = Dated(Lines(1, 0)) /\ 0 \in 0..logged
    BY <2>1, <2>2, <2>3, <2>4
  <2> QED
    BY <2>4, <2>5 DEF WholeLines
<1>7. NothingMissing
  BY DEF NothingMissing, Init
<1> QED
  BY <1>1, <1>3, <1>4, <1>5, <1>6, <1>7 DEF IInv

\* logger_initialize.
LEMMA InitializeKeeps ==
  ASSUME IInv, Initialize, SelInv'
  PROVE  IInv'
<1> USE DEF IInv
<1>0. LogFd \in Fds /\ FileFd \in Fds /\ LogFd # FileFd /\ LogFd \in Int /\ FileFd \in Int
  BY LoggingAssumption DEF Fds
<1>1. /\ UNCHANGED <<text, fileText, out, file, logged, stalls, closed>>
      /\ status = "boot" /\ status' = "set" /\ open' \in BOOLEAN
  BY DEF Initialize
<1>2. sel.items[LogFd] = Unused /\ sel.items[FileFd] = Unused /\ ~open
  BY <1>1 DEF Watched, Started
<1>3. Texts'
  BY <1>1 DEF Texts
<1>4. Watched'
  <2> DEFINE t == Registered(sel, LogFd, {})
  <2>0. {} \in SUBSET Op /\ Unused # {}
    BY <1>0, WriteSet
  <2>1. TableInv(t) /\ t.items[LogFd] = {} /\ t.items[FileFd] = Unused
    BY <1>0, <1>2, <2>0, RegisteredTable, ItemAfter DEF SelInv
  <2> HIDE DEF t
  <2>2. Registered(t, FileFd, {}).items[LogFd] = {} /\ Registered(t, FileFd, {}).items[FileFd] = {}
    BY <1>0, <2>0, <2>1, ItemAfter
  <2>3. \/ open' = TRUE /\ sel' = Registered(t, FileFd, {})
        \/ open' = FALSE /\ sel' = t
    BY DEF Initialize, t
  <2> QED
    BY <1>1, <2>1, <2>2, <2>3 DEF Watched
<1>5. Started'
  BY <1>1 DEF Started
<1>6. WholeLines'
  <2>1. file \o fileText = out
    BY <1>1, ConcatEmptySeq, EmptySeq DEF Started
  <2>2. Serving
    BY <1>1 DEF Serving
  <2> QED
    BY <1>1, <2>1, <2>2 DEF WholeLines
<1>7. NothingMissing'
  <2>1. Serving /\ \A n \in 1..logged : Holds(text, Line(n))
    BY <1>1 DEF Serving, Started
  <2> QED
    BY <1>1, <2>1 DEF NothingMissing
<1> QED
  BY <1>3, <1>4, <1>5, <1>6, <1>7

\* log_to_stdout.
LEMMA LogKeeps ==
  ASSUME IInv, Log, SelInv'
  PROVE  IInv'
<1> USE DEF IInv
<1> DEFINE x == logged + 1
           L == Line(x)
<1>0. /\ LogFd \in Fds /\ FileFd \in Fds /\ LogFd # FileFd /\ LogFd \in Int
      /\ MaxLines \in Nat /\ LineLen \in Nat \ {0}
  BY LoggingAssumption DEF Fds
<1>1. /\ status \in {"boot", "set", "up"} /\ status' = IF status = "set" THEN "up" ELSE status
      /\ logged < MaxLines /\ logged' = x /\ text' = text \o L
      /\ sel' = IF status = "boot" THEN sel ELSE InterestSet(sel, LogFd, {"W"})
      /\ UNCHANGED <<fileText, out, file, stalls, open, closed>>
  BY DEF Log
<1>2. /\ logged \in Nat /\ x \in 1..MaxLines /\ text \in Seq(Cell)
      /\ \A n \in 1..x : n # x => n \in 1..logged /\ n \in 1..MaxLines
      /\ out \in Seq(Cell) /\ file \in Seq(Cell) /\ fileText \in Seq(Cell)
  BY <1>0, <1>1 DEF Texts
<1>3. /\ L \in Seq(Cell) /\ L # <<>> /\ Len(L) = LineLen /\ \A k \in 1..LineLen : L[k] = <<x, k>>
      /\ Holds(L, Line(x)) /\ Line(x) = L /\ Entries(text \o L)
      /\ \A n \in 1..MaxLines : Line(n) \in Seq(Cell) /\ Line(n) # <<>>
  BY <1>2, LineFacts, HoldsItself, EntriesConcat DEF Texts
<1> HIDE DEF L, x
<1>4. text' \in Seq(Cell) /\ text' # <<>>
  BY <1>1, <1>2, <1>3, ConcatProperties, ConcatEqualIffEmpty
<1>5. \A n \in 1..MaxLines : Holds(text, Line(n)) => Holds(text', Line(n))
  BY <1>1, <1>2, <1>3, HoldsConcat
<1>6. Holds(text', Line(x))
  BY <1>1, <1>2, <1>3, HoldsConcat
<1>7. Texts'
  BY <1>0, <1>1, <1>2, <1>3, <1>4 DEF Texts
<1>8. Watched'
  <2>1. CASE status = "boot"
    BY <1>1, <2>1 DEF Watched
  <2>2. CASE status # "boot"
    <3>1. {"W"} \in SUBSET Op /\ Unused # {} /\ Unused # {"W"}
      BY <1>0, WriteSet
    <3>2. sel.items[LogFd] # Unused
      BY <1>1, <2>2, <3>1 DEF Watched
    <3>3. sel'.items[LogFd] = {"W"} /\ sel'.items[FileFd] = sel.items[FileFd]
      BY <1>0, <1>1, <2>2, <3>1, <3>2, ItemAfter DEF SelInv
    <3>4. status' = "up"
      BY <1>1, <2>2
    <3>5. sel.items[FileFd] = IF ~open THEN Unused ELSE IF fileText = <<>> THEN {} ELSE {"W"}
      BY <1>1, <2>2 DEF Watched, Started
    <3> QED
      BY <1>1, <1>4, <3>3, <3>4, <3>5 DEF Watched
  <2> QED
    BY <2>1, <2>2
<1>9. Started'
  <2>1. ASSUME status' \in {"boot", "set"}, NEW n \in 1..logged'
        PROVE  Holds(text', Line(n))
    <3>1. status = "boot"
      BY <1>1, <2>1
    <3>2. CASE n = x
      BY <1>6, <3>2
    <3>3. CASE n # x
      <4>1. n \in 1..logged /\ n \in 1..MaxLines
        BY <1>1, <1>2, <2>1, <3>3
      <4> QED
        BY <1>5, <3>1, <4>1 DEF Started
    <3> QED
      BY <3>2, <3>3
  <2>2. Serving
    BY <1>1 DEF Serving
  <2>3. status' \in {"boot", "set"} => status = "boot"
    BY <1>1
  <2> QED
    BY <1>1, <2>1, <2>2, <2>3 DEF Started
<1>10. WholeLines'
  <2> SUFFICES ASSUME Serving', stalls' = 0 PROVE WholeLines'
    BY DEF WholeLines
  <2>1. Serving /\ stalls = 0
    BY <1>1 DEF Serving
  <2>2. PICK m \in 0..logged : /\ text = Lines(m + 1, logged) /\ out = Dated(Lines(1, m))
                               /\ open => file \o fileText = out
    BY <2>1 DEF WholeLines
  <2>3. x \in 0..MaxLines /\ logged \in 0..x /\ m + 1 \in 1..(logged + 1) /\ logged + 1 = x
        /\ m \in 0..x
    BY <1>2, <2>2 DEF x
  <2>4. Lines(m + 1, x) = Lines(m + 1, logged) \o Lines(logged + 1, x)
    BY <2>3, LinesSplit
  <2>5. Lines(logged + 1, x) = L
    BY <1>2, <2>3, LinesSmall DEF L
  <2>6. text' = Lines(m + 1, logged')
    BY <1>1, <2>2, <2>4, <2>5
  <2> QED
    BY <1>1, <2>2, <2>3, <2>6 DEF WholeLines
<1>11. NothingMissing'
  <2>1. Serving
    BY <1>1 DEF Serving
  <2>2. Range(text') = Range(text) \cup Range(L)
    BY <1>1, <1>2, <1>3, RangeConcatenation
  <2>3. \A k \in 1..LineLen : <<x, k>> \in Range(L)
    BY <1>3, RangeEquality
  <2>4. ASSUME NEW n \in 1..logged'
        PROVE  /\ \A k \in 1..LineLen : <<n, k>> \in Range(out) \cup Range(text')
               /\ open => Holds(text', Line(n)) \/ Holds(file \o fileText, Dated(Line(n)))
    <3>1. CASE n = x
      BY <1>6, <2>2, <2>3, <3>1
    <3>2. CASE n # x
      <4>1. n \in 1..logged /\ n \in 1..MaxLines
        BY <1>1, <1>2, <2>4, <3>2
      <4>2. /\ \A k \in 1..LineLen : <<n, k>> \in Range(out) \cup Range(text)
            /\ open => Holds(text, Line(n)) \/ Holds(file \o fileText, Dated(Line(n)))
        BY <2>1, <4>1 DEF NothingMissing
      <4> QED
        BY <1>5, <2>2, <4>1, <4>2
    <3> QED
      BY <3>1, <3>2
  <2>5. status' # "broken"
    BY <1>1
  <2> QED
    BY <1>1, <2>4, <2>5 DEF NothingMissing
<1> QED
  BY <1>7, <1>8, <1>9, <1>10, <1>11

\* What the first half of logger_handle_write does.
LEMMA CopiedFacts ==
  ASSUME IInv, Writable(LogFd)
  PROVE  LET c == CopiedToFile(sel) IN
         /\ status = "up" /\ text \in Seq(Cell) /\ text # <<>>
         /\ TableInv(c.sel) /\ c.text \in Seq(Cell)
         /\ open => c.text = fileText \o Dated(text) /\ c.text # <<>>
         /\ ~open => c.text = <<>> /\ fileText = <<>>
         /\ c.sel.items[LogFd] = {"W"}
         /\ c.sel.items[FileFd] = IF open THEN {"W"} ELSE Unused
<1> USE DEF IInv
<1> DEFINE c == CopiedToFile(sel)
<1>0. LogFd \in Fds /\ FileFd \in Fds /\ LogFd # FileFd /\ FileFd \in Int
  BY LoggingAssumption DEF Fds
<1>1. status = "up" /\ LogFd \in sel.w /\ open \in BOOLEAN /\ Serving
  BY DEF Writable, Texts, Serving
<1>2. text \in Seq(Cell) /\ fileText \in Seq(Cell)
  BY DEF Texts
<1>3. "W" \in sel.items[LogFd] /\ {"W"} \in SUBSET Op /\ Unused # {} /\ Unused # {"W"}
  BY <1>0, <1>1, WriteSet
<1>4. text # <<>> /\ sel.items[LogFd] = {"W"}
  BY <1>1, <1>3 DEF Watched
<1>5. Dated(text) \in Seq(Cell) /\ Dated(text) # <<>>
  BY <1>2, <1>4, DatedType
<1>6. CASE open
  <2>1. c.text = fileText \o Dated(text) /\ c.sel = InterestSet(sel, FileFd, {"W"})
    BY <1>6 DEF CopiedToFile
  <2>2. sel.items[FileFd] # Unused
    BY <1>1, <1>3, <1>6 DEF Watched
  <2>3. TableInv(c.sel) /\ c.sel.items[LogFd] = {"W"} /\ c.sel.items[FileFd] = {"W"}
    BY <1>0, <1>3, <1>4, <2>1, <2>2, InterestSetTable, ItemAfter DEF SelInv
  <2>4. c.text \in Seq(Cell) /\ c.text # <<>>
    BY <1>2, <1>5, <2>1, ConcatProperties, ConcatEqualIffEmpty
  <2> QED
    BY <1>1, <1>2, <1>4, <1>6, <2>1, <2>3, <2>4
<1>7. CASE ~open
  <2>1. c.text = fileText /\ c.sel = sel
    BY <1>7 DEF CopiedToFile
  <2>2. fileText = <<>>
    BY <1>1, <1>7 DEF Started
  <2>3. sel.items[FileFd] = Unused
    BY <1>1, <1>7 DEF Watched
  <2> QED
    BY <1>1, <1>2, <1>4, <1>7, <2>1, <2>2, <2>3 DEF SelInv
<1> QED
  BY <1>6, <1>7

\* What waits for the file, once the text was copied there, has every line.
LEMMA CopiedLines ==
  ASSUME IInv, Writable(LogFd), open, NEW n \in 1..logged
  PROVE  Holds(file \o CopiedToFile(sel).text, Dated(Line(n)))
<1> USE DEF IInv
<1> DEFINE d == Dated(text)
           e == Dated(Line(n))
<1>0. MaxLines \in Nat
  BY LoggingAssumption
<1>1. status = "up" /\ text \in Seq(Cell) /\ CopiedToFile(sel).text = fileText \o d
  BY CopiedFacts
<1>2. n \in 1..MaxLines /\ fileText \in Seq(Cell) /\ file \in Seq(Cell) /\ d \in Seq(Cell)
  BY <1>0, <1>1, DatedType DEF Texts
<1>3. Holds(text, Line(n)) \/ Holds(file \o fileText, e)
  BY <1>1 DEF NothingMissing, Serving
<1>4. Holds(text, Line(n)) => Holds(d, e)
  BY <1>1, <1>2, DatedHolds DEF Texts
<1> HIDE DEF d, e
<1>5. file \o fileText \in Seq(Cell) /\ fileText \o d \in Seq(Cell) /\ e \in Seq(Cell) /\ e # <<>>
  BY <1>2, ConcatProperties, LineFacts, DatedType DEF e
<1>6. (file \o fileText) \o d = file \o (fileText \o d)
  <2>1. Cat(Cat(file, fileText), d) = Cat(file, Cat(fileText, d))
    BY <1>2, CatAssociates, SMT
  <2> QED
    BY <2>1, Zenon DEF Cat
<1>7. Holds((file \o fileText) \o d, e)
  <2>1. Holds(file \o fileText, e) \/ Holds(d, e)
    BY <1>3, <1>4
  <2> QED
    BY <1>2, <1>5, <2>1, HoldsConcat, Zenon
<1> QED
  BY <1>1, <1>6, <1>7 DEF e

\* logger_handle_write, when everything is written.
LEMMA WriteAllKeeps ==
  ASSUME IInv, WriteAll, SelInv'
  PROVE  IInv'
<1> USE DEF IInv
<1> DEFINE c == CopiedToFile(sel)
           d == Dated(text)
<1>0. LogFd \in Fds /\ FileFd \in Fds /\ LogFd # FileFd /\ LogFd \in Int /\ MaxLines \in Nat
  BY LoggingAssumption DEF Fds
<1>1. /\ Writable(LogFd) /\ fileText' = c.text /\ sel' = InterestSet(c.sel, LogFd, {})
      /\ out' = out \o d /\ text' = <<>> /\ UNCHANGED <<file, logged, stalls, open, closed, status>>
  BY DEF WriteAll
<1>2. /\ status = "up" /\ text \in Seq(Cell) /\ text # <<>>
      /\ TableInv(c.sel) /\ c.text \in Seq(Cell)
      /\ open => c.text = fileText \o d /\ c.text # <<>>
      /\ ~open => c.text = <<>> /\ fileText = <<>>
      /\ c.sel.items[LogFd] = {"W"}
      /\ c.sel.items[FileFd] = IF open THEN {"W"} ELSE Unused
  BY <1>1, CopiedFacts
<1>3. open => \A n \in 1..logged : Holds(file \o c.text, Dated(Line(n)))
  BY <1>1, CopiedLines
<1>4. d \in Seq(Cell) /\ \A x \in Range(text) : x \in Range(d)
  BY <1>2, DatedType, DatedCells
<1> HIDE DEF c, d
<1>5. /\ out \in Seq(Cell) /\ file \in Seq(Cell) /\ fileText \in Seq(Cell) /\ logged \in 0..MaxLines
      /\ open \in BOOLEAN /\ out' \in Seq(Cell)
  BY <1>1, <1>4, ConcatProperties DEF Texts
<1>6. Texts'
  BY <1>1, <1>2, <1>5, EmptySeq, NoEntries DEF Texts
<1>7. Watched'
  <2>1. {} \in SUBSET Op /\ Unused # {} /\ Unused # {"W"}
    BY <1>0, WriteSet
  <2>2. /\ InterestSet(c.sel, LogFd, {}).items[LogFd] = {}
        /\ InterestSet(c.sel, LogFd, {}).items[FileFd] = c.sel.items[FileFd]
    <3>1. TableInv(c.sel) /\ c.sel.items[LogFd] # Unused
      BY <1>2, <2>1
    <3> QED
      BY <1>0, <2>1, <3>1, ItemAfter
  <2> QED
    BY <1>1, <1>2, <2>2 DEF Watched
<1>8. Started'
  BY <1>1, <1>2 DEF Started
<1>9. WholeLines'
  <2> SUFFICES ASSUME stalls = 0 PROVE WholeLines'
    BY <1>1 DEF WholeLines
  <2>1. PICK m \in 0..logged : /\ text = Lines(m + 1, logged) /\ out = Dated(Lines(1, m))
                               /\ open => file \o fileText = out
    BY <1>2 DEF WholeLines, Serving
  <2>2. /\ m \in 0..logged /\ 1 \in 1..(m + 1) /\ m \in 0..MaxLines /\ logged \in 0..MaxLines
        /\ logged \in 0..logged
    BY <1>0, <1>5
  <2>3. /\ Lines(1, m) \in Seq(Cell) /\ Lines(m + 1, logged) \in Seq(Cell)
        /\ Lines(1, logged) = Lines(1, m) \o Lines(m + 1, logged)
    BY <2>2, LinesSplit
  <2>4. Lines(1, m) # <<>> => Ends(Lines(1, m)[Len(Lines(1, m))])
    BY <2>2, LinesEnd
  <2>5. Dated(Lines(1, logged)) = Dated(Lines(1, m)) \o Dated(Lines(m + 1, logged))
    BY <2>3, <2>4, DatedConcat
  <2>6. out' = Dated(Lines(1, logged))
    BY <1>1, <2>1, <2>5 DEF d
  <2>7. text' = Lines(logged + 1, logged)
    BY <1>1, <2>2, LinesSmall
  <2>8. open => file \o c.text = out'
    <3>0. Cat(Cat(file, fileText), d) = Cat(file, Cat(fileText, d))
      <4>1. file \in Seq(Cell) /\ fileText \in Seq(Cell) /\ d \in Seq(Cell)
        BY <1>4, <1>5
      <4> QED
        BY <4>1, CatAssociates, SMT
    <3>1. (file \o fileText) \o d = file \o (fileText \o d)
      BY <3>0, Zenon DEF Cat
    <3> QED
      BY <1>1, <1>2, <2>1, <3>1
  <2> QED
    BY <1>1, <2>2, <2>6, <2>7, <2>8 DEF WholeLines
<1>10. NothingMissing'
  <2>1. Range(out') = Range(out) \cup Range(d)
    BY <1>1, <1>4, <1>5, RangeConcatenation
  <2>2. \A n \in 1..logged : \A k \in 1..LineLen : <<n, k>> \in Range(out) \cup Range(text)
    BY <1>2 DEF NothingMissing, Serving
  <2>3. \A n \in 1..logged : \A k \in 1..LineLen : <<n, k>> \in Range(out')
    BY <1>4, <2>1, <2>2
  <2> QED
    BY <1>1, <1>2, <1>3, <2>3 DEF NothingMissing
<1> QED
  BY <1>6, <1>7, <1>8, <1>9, <1>10

\* logger_handle_write, when a part is written.
LEMMA WritePartKeeps ==
  ASSUME IInv, WritePart, SelInv'
  PROVE  IInv'
<1> USE DEF IInv
<1> DEFINE c == CopiedToFile(sel)
           d == Dated(text)
<1>0. LogFd \in Fds /\ FileFd \in Fds /\ MaxLines \in Nat /\ MaxStalls \in Nat
  BY LoggingAssumption
<1>1. /\ Writable(LogFd) /\ fileText' = c.text /\ sel' = c.sel /\ stalls < MaxStalls
      /\ stalls' = stalls + 1 /\ UNCHANGED <<file, logged, open, closed>>
  BY DEF WritePart
<1>2. PICK w \in 1..(Len(d) - 1) :
        /\ out' = out \o SubSeq(d, 1, w)
        /\ text' = IF Len(d) - w > Len(text) THEN <<>> ELSE Kept(Len(d) - w, w)
        /\ status' = IF Len(d) - w > Len(text) THEN "broken" ELSE status
  BY DEF WritePart
<1>3. /\ status = "up" /\ text \in Seq(Cell) /\ text # <<>>
      /\ TableInv(c.sel) /\ c.text \in Seq(Cell)
      /\ open => c.text = fileText \o d /\ c.text # <<>>
      /\ ~open => c.text = <<>> /\ fileText = <<>>
      /\ c.sel.items[LogFd] = {"W"}
      /\ c.sel.items[FileFd] = IF open THEN {"W"} ELSE Unused
  BY <1>1, CopiedFacts
<1>4. open => \A n \in 1..logged : Holds(file \o c.text, Dated(Line(n)))
  BY <1>1, CopiedLines
<1>5. d \in Seq(Cell) /\ Len(d) \in Nat /\ Len(text) \in Nat
  BY <1>3, DatedType
<1>6. /\ out \in Seq(Cell) /\ file \in Seq(Cell) /\ logged \in 0..MaxLines /\ stalls \in 0..MaxStalls
      /\ open \in BOOLEAN
  BY DEF Texts
<1> DEFINE a == SubSeq(d, 1, w)
           r == Len(d) - w
           b == SubSeq(text, Len(text) - r + 1, Len(text))
<1>7. a \in Seq(Cell) /\ out' \in Seq(Cell)
  <2>1. w \in Nat /\ 1 <= w /\ w <= Len(d)
    BY <1>5
  <2> HIDE DEF d
  <2>2. \A k \in 1..w : d[k] \in Cell
    BY <1>5, <2>1
  <2>3. a \in Seq(Cell)
    BY <2>1, <2>2, SubSeqProperties
  <2> HIDE DEF a
  <2>4. out \o a \in Seq(Cell)
    BY <1>6, <2>3, ConcatProperties
  <2> QED
    BY <1>2, <2>3, <2>4 DEF a, d
<1>8. stalls' \in 0..MaxStalls /\ stalls' > 0
  BY <1>0, <1>1, <1>6
<1>9. CASE r > Len(text)
  <2>1. text' = <<>> /\ status' = "broken"
    BY <1>2, <1>9
  <2>2. Texts'
    BY <1>1, <1>3, <1>6, <1>7, <1>8, <2>1, EmptySeq, NoEntries DEF Texts
  <2> QED
    BY <1>8, <2>1, <2>2 DEF Watched, Started, WholeLines, NothingMissing, Serving
<1>10. CASE ~(r > Len(text))
  <2>1. text' = b /\ status' = "up"
    BY <1>2, <1>3, <1>10 DEF Kept
  <2>2. r \in Nat /\ r >= 1 /\ r <= Len(text)
    BY <1>5, <1>10
  <2>3. \A x \in Range(text) : x \in Range(a) \/ x \in Range(b)
    BY <1>3, <2>2, ShortWriteCells
  <2>4. b \in Seq(Cell) /\ b # <<>> /\ Entries(b)
    <3> DEFINE m == Len(text) - r + 1
    <3>1. m \in Nat /\ m >= 1 /\ m <= Len(text) /\ Len(text) - m + 1 = r
      BY <1>5, <2>2
    <3>2. \A k \in m..Len(text) : text[k] \in Cell
      BY <1>3, <1>5, <3>1
    <3>3. b \in Seq(Cell) /\ Len(b) = r
      BY <1>5, <3>1, <3>2, SubSeqProperties
    <3>4. Entries(b)
      <4>1. m \in 1..Len(text) /\ Entries(text)
        BY <1>5, <3>1 DEF Texts
      <4> QED
        BY <1>3, <4>1, EntriesSuffix
    <3> HIDE DEF b, r
    <3> QED
      BY <2>2, <3>3, <3>4
  <2> HIDE DEF a, b, c, d, r
  <2>5. Texts'
    BY <1>1, <1>3, <1>6, <1>7, <1>8, <2>1, <2>4 DEF Texts
  <2>6. Watched'
    BY <1>1, <1>3, <2>1, <2>4 DEF Watched
  <2>7. Started'
    BY <1>1, <1>3, <2>1 DEF Started
  <2>8. WholeLines'
    BY <1>8 DEF WholeLines
  <2>9. NothingMissing'
    <3>1. out' = out \o a
      BY <1>2 DEF a, d
    <3>2. Range(out') = Range(out) \cup Range(a)
      BY <1>6, <1>7, <3>1, RangeConcatenation
    <3>3. \A n \in 1..logged : \A k \in 1..LineLen : <<n, k>> \in Range(out) \cup Range(text)
      BY <1>3 DEF NothingMissing, Serving
    <3>4. \A n \in 1..logged : \A k \in 1..LineLen : <<n, k>> \in Range(out') \cup Range(text')
      BY <2>1, <2>3, <3>2, <3>3
    <3> QED
      BY <1>1, <1>4, <2>1, <3>4 DEF NothingMissing
  <2> QED
    BY <2>5, <2>6, <2>7, <2>8, <2>9
<1> QED
  BY <1>9, <1>10

\* logger_handle_write, when write fails.
LEMMA WriteNothingKeeps ==
  ASSUME IInv, WriteNothing, SelInv'
  PROVE  IInv'
<1> USE DEF IInv
<1> DEFINE c == CopiedToFile(sel)
<1>0. MaxStalls \in Nat
  BY LoggingAssumption
<1>1. /\ Writable(LogFd) /\ fileText' = c.text /\ sel' = c.sel /\ stalls < MaxStalls
      /\ stalls' = stalls + 1 /\ UNCHANGED <<text, out, file, logged, open, closed, status>>
  BY DEF WriteNothing
<1>2. /\ status = "up" /\ text \in Seq(Cell) /\ text # <<>>
      /\ c.text \in Seq(Cell)
      /\ open => c.text # <<>>
      /\ ~open => c.text = <<>>
      /\ c.sel.items[LogFd] = {"W"}
      /\ c.sel.items[FileFd] = IF open THEN {"W"} ELSE Unused
  BY <1>1, CopiedFacts
<1>3. open => \A n \in 1..logged : Holds(file \o c.text, Dated(Line(n)))
  BY <1>1, CopiedLines
<1> HIDE DEF c
<1>4. stalls' \in 0..MaxStalls /\ stalls' # 0
  BY <1>0, <1>1 DEF Texts
<1>5. Texts'
  BY <1>1, <1>2, <1>4 DEF Texts
<1>6. Watched'
  BY <1>1, <1>2 DEF Watched
<1>7. Started'
  BY <1>1, <1>2 DEF Started
<1>8. WholeLines'
  BY <1>4 DEF WholeLines
<1>9. NothingMissing'
  <2>1. \A n \in 1..logged : \A k \in 1..LineLen : <<n, k>> \in Range(out) \cup Range(text)
    BY <1>2 DEF NothingMissing, Serving
  <2> QED
    BY <1>1, <1>2, <1>3, <2>1 DEF NothingMissing
<1> QED
  BY <1>5, <1>6, <1>7, <1>8, <1>9

\* logger_handle_write, when the dated text does not fit.
LEMMA OverrunKeeps ==
  ASSUME IInv, Overrun, SelInv'
  PROVE  IInv'
<1> USE DEF IInv
<1>1. /\ UNCHANGED <<sel, text, fileText, out, file, logged, stalls, open, closed>>
      /\ Overruns(text) /\ status' = "broken" /\ status = "up"
  BY DEF Overrun, Writable
<1>2. Overruns(text')
  BY <1>1
<1>3. NothingMissing'
  BY <1>1, <1>2 DEF NothingMissing, Serving
<1>4. Texts'
  BY <1>1 DEF Texts
<1> QED
  BY <1>1, <1>3, <1>4 DEF Watched, Started, WholeLines, Serving

\* logger_file_handle_write: what is taken from the buffer is in the file.
LEMMA FileWriteKeeps ==
  ASSUME IInv, FileWrite, SelInv'
  PROVE  IInv'
<1> USE DEF IInv
<1>0. LogFd \in Fds /\ FileFd \in Fds /\ LogFd # FileFd /\ FileFd \in Int
  BY LoggingAssumption DEF Fds
<1>1. Writable(FileFd) /\ UNCHANGED <<text, out, logged, stalls, open, closed, status>>
  BY DEF FileWrite
<1>2. PICK w \in 1..Len(fileText) :
        /\ file' = file \o SubSeq(fileText, 1, w)
        /\ fileText' = SubSeq(fileText, w + 1, Len(fileText))
        /\ sel' = IF w = Len(fileText) THEN InterestSet(sel, FileFd, {}) ELSE sel
  BY DEF FileWrite
<1>3. status = "up" /\ FileFd \in sel.w
  BY <1>1 DEF Writable
<1>4. /\ out \in Seq(Cell) /\ file \in Seq(Cell) /\ fileText \in Seq(Cell) /\ open \in BOOLEAN
      /\ Len(fileText) \in Nat
  BY DEF Texts
<1>5. "W" \in sel.items[FileFd] /\ "W" \notin Unused /\ {} \in SUBSET Op /\ Unused # {}
      /\ Unused # {"W"}
  BY <1>0, <1>3, WriteSet
<1>6. open /\ fileText # <<>> /\ sel.items[FileFd] = {"W"}
      /\ sel.items[LogFd] = IF text = <<>> THEN {} ELSE {"W"}
  BY <1>3, <1>4, <1>5 DEF Watched
<1> DEFINE n == Len(fileText)
           a == SubSeq(fileText, 1, w)
           b == SubSeq(fileText, w + 1, n)
<1>7. w \in Nat /\ n \in Nat /\ 1 <= w /\ w <= n
  BY <1>4
<1>8. /\ a \in Seq(Cell) /\ b \in Seq(Cell)
      /\ w = n => b = <<>>
      /\ w # n => b # <<>>
  <2>1. \A k \in 1..n : fileText[k] \in Cell
    BY <1>4
  <2> HIDE DEF n
  <2>2. a \in Seq(Cell)
    <3>1. 1 \in Int /\ w \in Int /\ \A k \in 1..w : k \in 1..n
      BY <1>7
    <3> QED
      BY <2>1, <3>1, SubSeqProperties
  <2>3. b \in Seq(Cell) /\ Len(b) = IF w + 1 <= n THEN n - (w + 1) + 1 ELSE 0
    <3>1. w + 1 \in Int /\ n \in Int /\ \A k \in (w + 1)..n : k \in 1..n
      BY <1>7
    <3> QED
      BY <2>1, <3>1, SubSeqProperties
  <2> HIDE DEF a, b
  <2>4. w = n => Len(b) = 0
    BY <1>7, <2>3
  <2>5. w # n => Len(b) # 0
    BY <1>7, <2>3
  <2> QED
    BY <2>2, <2>3, <2>4, <2>5, EmptySeq
<1>9. a \o b = fileText
  <2>1. SubSeq(fileText, 1, n) = fileText
    BY <1>4, SubSeqFull
  <2>2. 1 \in 1..(n + 1) /\ w \in (1 - 1)..n /\ n \in w..n
    BY <1>7
  <2> QED
    BY <1>4, <2>1, <2>2, ConcatAdjacentSubSeq
<1>10. file' = file \o a /\ fileText' = b
  BY <1>2
<1> HIDE DEF a, b, n
<1>11. file' \in Seq(Cell) /\ fileText' \in Seq(Cell)
  BY <1>4, <1>8, <1>10, ConcatProperties
<1>12. file' \o fileText' = file \o fileText
  <2>1. file \in Seq(Cell) /\ a \in Seq(Cell) /\ b \in Seq(Cell)
    BY <1>4, <1>8
  <2>2. Cat(Cat(file, a), b) = Cat(file, Cat(a, b))
    BY <2>1, CatAssociates, SMT
  <2> QED
    BY <1>9, <1>10, <2>2, Zenon DEF Cat
<1>13. Texts'
  BY <1>1, <1>11 DEF Texts
<1>14. Watched'
  <2>1. CASE w = n
    <3>1. sel' = InterestSet(sel, FileFd, {}) /\ fileText' = <<>>
      BY <1>2, <1>8, <1>10, <2>1 DEF n
    <3>2. TableInv(sel) /\ sel.items[FileFd] # Unused
      BY <1>5, <1>6 DEF SelInv
    <3>3. /\ InterestSet(sel, FileFd, {}).items[FileFd] = {}
          /\ InterestSet(sel, FileFd, {}).items[LogFd] = sel.items[LogFd]
      BY <1>0, <1>5, <3>2, ItemAfter
    <3> QED
      BY <1>1, <1>3, <1>6, <3>1, <3>3 DEF Watched
  <2>2. CASE w # n
    <3>1. sel' = sel /\ fileText' # <<>>
      BY <1>2, <1>8, <1>10, <2>2 DEF n
    <3> QED
      BY <1>1, <1>3, <1>6, <3>1 DEF Watched
  <2> QED
    BY <2>1, <2>2
<1>15. Started'
  BY <1>1, <1>3, <1>6 DEF Started
<1>16. WholeLines'
  <2> SUFFICES ASSUME Serving', stalls' = 0 PROVE WholeLines'
    BY DEF WholeLines
  <2>1. PICK m \in 0..logged : /\ text = Lines(m + 1, logged) /\ out = Dated(Lines(1, m))
                               /\ open => file \o fileText = out
    BY <1>1, <1>3 DEF WholeLines, Serving
  <2> QED
    BY <1>1, <1>12, <2>1 DEF WholeLines
<1>17. NothingMissing'
  <2>1. \A i \in 1..logged : /\ \A k \in 1..LineLen : <<i, k>> \in Range(out) \cup Range(text)
                             /\ open => Holds(text, Line(i)) \/ Holds(file \o fileText, Dated(Line(i)))
    BY <1>3 DEF NothingMissing, Serving
  <2> QED
    BY <1>1, <1>3, <1>12, <2>1 DEF NothingMissing
<1> QED
  BY <1>13, <1>14, <1>15, <1>16, <1>17

\* The rest of the server leaves the two items of the logger alone.
LEMMA OthersKeeps ==
  ASSUME IInv, Others, SelInv'
  PROVE  IInv'
<1> USE DEF IInv
<1>0. LogFd \in Fds /\ FileFd \in Fds
  BY LoggingAssumption
<1>1. UNCHANGED <<text, fileText, out, file, logged, stalls, open, status>>
      /\ closed \subseteq Other /\ closed' \subseteq Other
  BY DEF Others, Texts
<1>2. PICK fd \in Other :
        \/ \E i \in SUBSET Op : sel' = Registered(sel, fd, i) \/ sel' = InterestSet(sel, fd, i)
        \/ sel' = Unregistered(sel, fd)
        \/ sel' = sel
  BY DEF Others
<1>3. fd \in Int /\ fd # LogFd /\ fd # FileFd
  BY LoggingAssumption
<1>4. \A g \in {LogFd, FileFd} : sel'.items[g] = sel.items[g]
  <2> SUFFICES ASSUME NEW g \in {LogFd, FileFd} PROVE sel'.items[g] = sel.items[g]
    OBVIOUS
  <2>1. g \in Fds /\ fd # g /\ TableInv(sel) /\ {} \in SUBSET Op
    BY <1>0, <1>3 DEF SelInv
  <2>2. CASE sel' = Unregistered(sel, fd)
    BY <1>3, <2>1, <2>2, ItemAfter
  <2>3. CASE \E i \in SUBSET Op : sel' = Registered(sel, fd, i) \/ sel' = InterestSet(sel, fd, i)
    <3>1. PICK i \in SUBSET Op : sel' = Registered(sel, fd, i) \/ sel' = InterestSet(sel, fd, i)
      BY <2>3
    <3> QED
      BY <1>3, <2>1, <3>1, ItemAfter
  <2> QED
    BY <1>2, <2>2, <2>3
<1>5. sel'.items[LogFd] = sel.items[LogFd] /\ sel'.items[FileFd] = sel.items[FileFd]
  BY <1>4
<1>6. Texts' /\ Started' /\ NothingMissing' /\ WholeLines'
  BY <1>1 DEF Texts, Started, NothingMissing, WholeLines, Serving
<1>7. Watched'
  BY <1>1, <1>5 DEF Watched
<1> QED
  BY <1>6, <1>7

\* logger_destroy: nothing is promised after it.
LEMMA DestroyKeeps ==
  ASSUME IInv, Destroy, SelInv'
  PROVE  IInv'
<1> USE DEF IInv
<1>1. /\ status' = "down" /\ text' = <<>> /\ fileText' = <<>>
      /\ UNCHANGED <<out, file, logged, stalls, open, closed>>
  BY DEF Destroy
<1>2. Texts'
  BY <1>1, EmptySeq, NoEntries DEF Texts
<1> QED
  BY <1>1, <1>2 DEF Watched, Started, WholeLines, NothingMissing, Serving

\* Each step keeps the invariant.
LEMMA StepKeeps ==
  ASSUME IInv, [Next]_vars
  PROVE  IInv'
<1>0. SelInv'
  BY TableKept DEF IInv
<1>1. CASE Initialize
  BY <1>0, <1>1, InitializeKeeps
<1>2. CASE Log
  BY <1>0, <1>2, LogKeeps
<1>3. CASE StdoutWrite
  BY <1>0, <1>3, WriteAllKeeps, WritePartKeeps, WriteNothingKeeps, OverrunKeeps DEF StdoutWrite
<1>4. CASE FileWrite
  BY <1>0, <1>4, FileWriteKeeps
<1>5. CASE Others
  BY <1>0, <1>5, OthersKeeps
<1>6. CASE Destroy
  BY <1>0, <1>6, DestroyKeeps
<1>7. CASE UNCHANGED vars
  BY <1>0, <1>7 DEF vars, IInv, Texts, Watched, Started, WholeLines, NothingMissing, Serving
<1> QED
  BY <1>1, <1>2, <1>3, <1>4, <1>5, <1>6, <1>7 DEF Next

\* What the buffers, the two outputs and the interests of the logger have to do
\* with one another, whatever is logged and written, until what is written
\* overruns its room or a short write breaks the buffer (logger.c:28-170).
THEOREM LoggerInvariant == Spec => []IInv
<1>1. IInv /\ [Next]_vars => IInv'
  BY StepKeeps
<1> QED
  BY <1>1, InitInv, PTL DEF Spec

\* The buffers and outputs hold cells of lines and dates, the table is one.
THEOREM LoggerTypes == Spec => []TypeOK
<1>1. IInv => TypeOK
  <2> SUFFICES ASSUME IInv PROVE TypeOK
    OBVIOUS
  <2>1. TableTypeOK
    BY SelectorAssumption DEF IInv, SelInv, TableInv, TableType, TableTypeOK
  <2> QED
    BY <2>1 DEF IInv, Texts, TypeOK
<1> QED
  BY <1>1, LoggerInvariant, PTL

\* What waits to be written is waited for, and only that, in any use of the
\* table by the rest of the server (logger.c:46-50, 78-127, 142-164).
THEOREM WaitsForItsOutputs == Spec => []LoggerAwake
<1>1. IInv => LoggerAwake
  <2> SUFFICES ASSUME IInv, status = "up"
               PROVE  /\ text # <<>> <=> LogFd \in sel.w
                      /\ fileText # <<>> <=> FileFd \in sel.w
    BY DEF LoggerAwake
  <2>1. LogFd \in Fds /\ FileFd \in Fds /\ SelInv
    BY LoggingAssumption DEF IInv
  <2>2. /\ LogFd \in sel.w <=> sel.items[LogFd] # Unused /\ "W" \in sel.items[LogFd]
        /\ FileFd \in sel.w <=> sel.items[FileFd] # Unused /\ "W" \in sel.items[FileFd]
        /\ Unused # {} /\ Unused # {"W"}
    BY <2>1, WriteSet
  <2>3. /\ sel.items[LogFd] = IF text = <<>> THEN {} ELSE {"W"}
        /\ sel.items[FileFd] = IF ~open THEN Unused
                               ELSE IF fileText = <<>> THEN {} ELSE {"W"}
        /\ ~open => fileText = <<>>
    BY DEF IInv, Watched, Started, Serving
  <2>4. text # <<>> <=> LogFd \in sel.w
    BY <2>2, <2>3
  <2>5. fileText # <<>> <=> FileFd \in sel.w
    BY <2>2, <2>3
  <2> QED
    BY <2>4, <2>5
<1> QED
  BY <1>1, LoggerInvariant, PTL

\* As long as standard output takes whole texts and none of them overruns its
\* room, it and the file get every entry once and in order, each line with its
\* date, wherever the entries have newlines (logger.c:78-164).
THEOREM EveryLineOnce == Spec => []LogIsExact
<1>1. IInv => LogIsExact
  <2> SUFFICES ASSUME IInv, Serving, stalls = 0
               PROVE  /\ out \o Dated(text) = Dated(Lines(1, logged))
                      /\ open => file \o fileText = out
    BY DEF LogIsExact
  <2>1. PICK m \in 0..logged : /\ text = Lines(m + 1, logged) /\ out = Dated(Lines(1, m))
                               /\ open => file \o fileText = out
    BY DEF IInv, WholeLines
  <2>2. /\ m \in 0..logged /\ 1 \in 1..(m + 1) /\ m \in 0..MaxLines /\ logged \in 0..MaxLines
    BY LoggingAssumption DEF IInv, Texts
  <2>3. /\ Lines(1, m) \in Seq(Cell) /\ Lines(m + 1, logged) \in Seq(Cell)
        /\ Lines(1, logged) = Lines(1, m) \o Lines(m + 1, logged)
    BY <2>2, LinesSplit
  <2>4. Lines(1, m) # <<>> => Ends(Lines(1, m)[Len(Lines(1, m))])
    BY <2>2, LinesEnd
  <2>5. Dated(Lines(1, logged)) = Dated(Lines(1, m)) \o Dated(Lines(m + 1, logged))
    BY <2>3, <2>4, DatedConcat
  <2> QED
    BY <2>1, <2>5
<1> QED
  BY <1>1, LoggerInvariant, PTL

\* A short write to standard output repeats bytes and loses none, whatever the
\* lengths of the entries, of the date and of what is taken, unless it breaks the
\* buffer (logger.c:111-114); without one, only a text of more lines than it has
\* room for dates breaks the process (logger.c:44-66).
THEOREM ShortWritesLoseNothing == Spec => []NothingMissing
<1>1. IInv => NothingMissing
  BY DEF IInv
<1> QED
  BY <1>1, LoggerInvariant, PTL
=============================================================================
