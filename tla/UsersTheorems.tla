--------------------------- MODULE UsersTheorems ---------------------------
(***************************************************************************)
(* The accounts over any number of runs of the server, for any names,      *)
(* passwords, files and sizes of the table: proofs.  What load_users makes *)
(* of a text is a recursion over its characters; a least place at which a  *)
(* claim about it failed leads to a contradiction with the one before.     *)
(***************************************************************************)
EXTENDS Users, CommonLemmas, FiniteSetTheorems, SequenceTheorems

Unique(t)  == \A i, j \in DOMAIN t : t[i].name = t[j].name => i = j
IsTable(t) == t \in Seq(Account) /\ Len(t) <= MaxUsers /\ Unique(t)

\* What an orderly stop wrote is the text of the table it found.
IInv ==
  /\ IsTable(table) /\ IsTable(kept)
  /\ file \in Seq(Char) /\ written \in Seq(Char)
  /\ status \in {"down", "starting", "running", "stopping"}
  /\ status = "stopping" /\ kept # <<>> => written = Saved(kept)
  /\ status = "down" /\ kept # <<>> => file = Saved(kept)
-----------------------------------------------------------------------------
(* The operations on the table.                                            *)

\* A table without accounts.
LEMMA EmptyTable == IsTable(<<>>)
<1>1. <<>> \in Seq(Account) /\ Len(<<>>) = 0 /\ DOMAIN <<>> = {}
  OBVIOUS
<1> QED
  BY <1>1, AccountsAssumption DEF IsTable, Unique

\* user_create.
LEMMA CreatedKeeps ==
  ASSUME NEW t, IsTable(t), NEW u \in Account
  PROVE  IsTable(Created(t, u))
<1>0. t \in Seq(Account) /\ Len(t) <= MaxUsers /\ Unique(t) /\ MaxUsers \in Nat
  BY AccountsAssumption DEF IsTable
<1>1. CASE Creatable(t, u)
  <2> DEFINE v == Append(t, u)
  <2>1. Len(t) < MaxUsers /\ \A i \in DOMAIN t : t[i].name # u.name
    BY <1>1 DEF Creatable, NamesOf
  <2>2. /\ v \in Seq(Account) /\ Len(v) = Len(t) + 1
        /\ \A i \in 1..Len(t) : v[i] = t[i]
        /\ v[Len(t) + 1] = u
    BY <1>0, AppendProperties
  <2> HIDE DEF v
  <2>3. Unique(v)
    <3> SUFFICES ASSUME NEW i \in 1..(Len(t) + 1), NEW j \in 1..(Len(t) + 1), v[i].name = v[j].name
                 PROVE  i = j
      BY <2>2 DEF Unique
    <3>1. CASE i <= Len(t) /\ j <= Len(t)
      BY <1>0, <2>2, <3>1 DEF Unique
    <3>2. CASE i <= Len(t) /\ j = Len(t) + 1
      BY <1>0, <2>1, <2>2, <3>2
    <3>3. CASE i = Len(t) + 1 /\ j <= Len(t)
      BY <1>0, <2>1, <2>2, <3>3
    <3> QED
      BY <1>0, <3>1, <3>2, <3>3
  <2>4. Created(t, u) = v
    BY <1>1 DEF Created, v
  <2> QED
    BY <1>0, <2>1, <2>2, <2>3, <2>4 DEF IsTable
<1>2. CASE ~Creatable(t, u)
  BY <1>0, <1>2 DEF Created, IsTable
<1> QED
  BY <1>1, <1>2

\* get_user_index: the scan stops at the first account with the name.
LEMMA IndexInTable ==
  ASSUME NEW t \in Seq(Account), NEW n \in NamesOf(t)
  PROVE  IndexOf(t, n) \in 1..Len(t) /\ t[IndexOf(t, n)].name = n
<1> DEFINE S == {i \in DOMAIN t : t[i].name = n}
<1>1. S \in SUBSET Nat /\ S # {}
  BY DEF NamesOf
<1>2. PICK m \in S : \A x \in S : m <= x
  BY <1>1, Least, Zenon
<1>3. \A j \in 1..(m - 1) : j \in DOMAIN t /\ j < m
  BY <1>2
<1>4. m \in DOMAIN t /\ t[m].name = n /\ \A j \in 1..(m - 1) : t[j].name # n
  BY <1>2, <1>3
<1>5. IndexOf(t, n) \in DOMAIN t /\ t[IndexOf(t, n)].name = n
  BY <1>4, Zenon DEF IndexOf
<1> QED
  BY <1>5

\* user_delete: the accounts in front stay and those behind move down by one.
LEMMA DeletedCells ==
  ASSUME NEW t, IsTable(t), NEW n \in NamesOf(t)
  PROVE  LET v == Deleted(t, n) IN
         /\ v \in Seq(Account) /\ Len(v) = Len(t) - 1
         /\ \A i \in 1..(Len(t) - 1) : v[i] = IF i < IndexOf(t, n) THEN t[i] ELSE t[i + 1]
<1>0. t \in Seq(Account) /\ Len(t) \in Nat /\ Len(t) <= MaxUsers /\ Unique(t) /\ MaxUsers \in Nat
  BY AccountsAssumption DEF IsTable
<1> DEFINE k == IndexOf(t, n)
           a == SubSeq(t, 1, k - 1)
           b == SubSeq(t, k + 1, Len(t))
           v == a \o b
<1>1. k \in 1..Len(t)
  BY <1>0, IndexInTable
<1> HIDE DEF k
<1>2. /\ a \in Seq(Account) /\ Len(a) = k - 1 /\ \A i \in 1..(k - 1) : a[i] = t[i]
      /\ b \in Seq(Account) /\ Len(b) = Len(t) - k /\ \A i \in 1..(Len(t) - k) : b[i] = t[k + i]
  BY <1>0, <1>1
<1> HIDE DEF a, b
<1>3. /\ v \in Seq(Account) /\ Len(v) = Len(a) + Len(b)
      /\ \A i \in 1..(Len(a) + Len(b)) : v[i] = IF i <= Len(a) THEN a[i] ELSE b[i - Len(a)]
  BY <1>2, ConcatProperties
<1> HIDE DEF v
<1>4. /\ Len(v) = Len(t) - 1
      /\ \A i \in 1..(Len(t) - 1) : v[i] = IF i < k THEN t[i] ELSE t[i + 1]
  <2>1. Len(v) = Len(t) - 1
    BY <1>0, <1>1, <1>2, <1>3
  <2>2. ASSUME NEW i \in 1..(Len(t) - 1), i < k PROVE v[i] = t[i]
    <3>1. i \in 1..(k - 1) /\ i \in 1..(Len(a) + Len(b)) /\ i <= Len(a)
      BY <1>0, <1>1, <1>2, <2>2
    <3> QED
      BY <1>2, <1>3, <3>1
  <2>3. ASSUME NEW i \in 1..(Len(t) - 1), ~(i < k) PROVE v[i] = t[i + 1]
    <3>1. i - (k - 1) \in 1..(Len(t) - k) /\ k + (i - (k - 1)) = i + 1 /\ ~(i <= k - 1)
      BY <1>0, <1>1, <2>3
    <3>2. b[i - (k - 1)] = t[i + 1]
      BY <1>2, <3>1
    <3>3. Len(a) = k - 1 /\ i \in 1..(Len(a) + Len(b)) /\ ~(i <= Len(a))
      BY <1>0, <1>1, <1>2, <3>1
    <3>4. v[i] = b[i - Len(a)]
      BY <1>3, <3>3
    <3> QED
      BY <3>2, <3>3, <3>4
  <2> QED
    BY <2>1, <2>2, <2>3
<1>5. Deleted(t, n) = v
  BY Zenon DEF Deleted, RemoveAt, k, a, b, v
<1> QED
  BY <1>3, <1>4, <1>5 DEF k

\* user_delete: what is left keeps its order, so no name appears twice.
LEMMA DeletedKeeps ==
  ASSUME NEW t, IsTable(t), NEW n
  PROVE  IsTable(Deleted(t, n))
<1>0. t \in Seq(Account) /\ Len(t) \in Nat /\ Len(t) <= MaxUsers /\ Unique(t) /\ MaxUsers \in Nat
  BY AccountsAssumption DEF IsTable
<1>1. CASE n \in NamesOf(t)
  <2> DEFINE k == IndexOf(t, n)
             v == Deleted(t, n)
  <2>1. k \in 1..Len(t)
    BY <1>0, <1>1, IndexInTable
  <2>2. /\ v \in Seq(Account) /\ Len(v) = Len(t) - 1
        /\ \A i \in 1..(Len(t) - 1) : v[i] = IF i < k THEN t[i] ELSE t[i + 1]
    BY <1>1, DeletedCells
  <2> HIDE DEF k, v
  <2>3. Unique(v)
    <3> SUFFICES ASSUME NEW i \in 1..(Len(t) - 1), NEW j \in 1..(Len(t) - 1), v[i].name = v[j].name
                 PROVE  i = j
      <4>1. DOMAIN v = 1..(Len(t) - 1)
        BY <1>0, <2>2
      <4> QED
        BY <4>1, Zenon DEF Unique
    <3> DEFINE p == IF i < k THEN i ELSE i + 1
               q == IF j < k THEN j ELSE j + 1
    <3>1. p \in 1..Len(t) /\ q \in 1..Len(t)
      BY <1>0, <2>1
    <3>2. v[i] = t[p] /\ v[j] = t[q]
      BY <2>2
    <3>3. p = q
      <4>1. p \in DOMAIN t /\ q \in DOMAIN t /\ t[p].name = t[q].name
        BY <1>0, <3>1, <3>2, LenProperties
      <4> HIDE DEF p, q
      <4> QED
        BY <1>0, <4>1, Zenon DEF Unique
    <3> QED
      BY <1>0, <2>1, <3>3
  <2> QED
    BY <1>0, <2>2, <2>3 DEF IsTable, v
<1>2. CASE n \notin NamesOf(t)
  BY <1>2 DEF Deleted
<1> QED
  BY <1>1, <1>2

\* user_change_password.
LEMMA ChangedKeeps ==
  ASSUME NEW t, IsTable(t), NEW n, NEW p \in Seq(Char)
  PROVE  IsTable(PasswordChanged(t, n, p))
<1>0. t \in Seq(Account) /\ Len(t) <= MaxUsers /\ Unique(t)
  BY DEF IsTable
<1>1. CASE n \in NamesOf(t)
  <2> DEFINE k == IndexOf(t, n)
             v == [t EXCEPT ![k] = [t[k] EXCEPT !.pass = p]]
  <2>1. k \in 1..Len(t)
    BY <1>0, <1>1, IndexInTable
  <2>2. PasswordChanged(t, n, p) = v
    BY <1>1 DEF PasswordChanged
  <2> HIDE DEF k
  <2>3. t[k] \in Account
    BY <1>0, <2>1
  <2>4. [t[k] EXCEPT !.pass = p] \in Account /\ [t[k] EXCEPT !.pass = p].name = t[k].name
    BY <2>3 DEF Account
  <2>5. v \in Seq(Account) /\ Len(v) = Len(t) /\ \A i \in 1..Len(t) : v[i].name = t[i].name
    BY <1>0, <2>1, <2>4, ExceptSeq
  <2> HIDE DEF v
  <2>6. DOMAIN v = 1..Len(t) /\ DOMAIN t = 1..Len(t)
    BY <1>0, <2>5
  <2>7. Unique(v)
    BY <1>0, <2>5, <2>6 DEF Unique
  <2> QED
    BY <1>0, <2>2, <2>5, <2>7 DEF IsTable
<1>2. CASE n \notin NamesOf(t)
  BY <1>2 DEF PasswordChanged
<1> QED
  BY <1>1, <1>2
-----------------------------------------------------------------------------
(* Reading a text.                                                         *)

\* The readers of load_users, with a table as it should be.
Readers == {r \in Reader : IsTable(r.table)}

\* The readers after each of the first n characters.
IsReading(text, n, f) ==
  f = [k \in 0..n |-> IF k = 0 THEN Fresh ELSE Read(text[k])[f[k - 1]]]

\* The recursion over the characters has a value: at the least one without, it
\* would extend that of the character before.
LEMMA ReadingExists ==
  ASSUME NEW text, NEW n \in Nat
  PROVE  \E f : IsReading(text, n, f)
<1> DEFINE Bad == {m \in Nat : ~\E f : IsReading(text, m, f)}
<1>1. SUFFICES ASSUME Bad # {} PROVE FALSE
  OBVIOUS
<1>2. PICK m \in Bad : \A x \in Bad : m <= x
  BY <1>1, Least, Zenon
<1>3. CASE m = 0
  <2>1. IsReading(text, 0, [k \in 0..0 |-> Fresh])
    BY DEF IsReading
  <2> QED
    BY <1>2, <1>3, <2>1
<1>4. CASE m # 0
  <2>1. m - 1 \in Nat /\ m - 1 \notin Bad
    BY <1>2, <1>4
  <2>2. PICK g : IsReading(text, m - 1, g)
    BY <2>1
  <2>3. /\ DOMAIN g = 0..(m - 1)
        /\ \A k \in 0..(m - 1) : g[k] = IF k = 0 THEN Fresh ELSE Read(text[k])[g[k - 1]]
    BY <2>2 DEF IsReading
  <2> DEFINE f == [k \in 0..m |-> IF k = m THEN Read(text[m])[g[m - 1]] ELSE g[k]]
             h == [k \in 0..m |-> IF k = 0 THEN Fresh ELSE Read(text[k])[f[k - 1]]]
  <2>4. \A k \in 0..m : f[k] = h[k]
    <3> TAKE k \in 0..m
    <3>1. CASE k = 0
      BY <1>4, <2>1, <2>3, <3>1
    <3>2. CASE k # 0 /\ k # m
      <4>1. k \in 0..(m - 1) /\ k - 1 \in 0..m /\ k - 1 # m
        BY <1>2, <3>2
      <4>2. f[k] = g[k] /\ f[k - 1] = g[k - 1]
        BY <3>2, <4>1
      <4>3. g[k] = Read(text[k])[g[k - 1]]
        BY <2>3, <3>2, <4>1
      <4>4. h[k] = Read(text[k])[f[k - 1]]
        BY <3>2
      <4> QED
        BY <4>2, <4>3, <4>4
    <3>3. CASE k = m
      <4>1. m - 1 \in 0..m /\ m - 1 # m
        BY <1>2, <2>1
      <4>2. f[m - 1] = g[m - 1] /\ f[k] = Read(text[m])[g[m - 1]]
        BY <3>3, <4>1
      <4>3. h[k] = Read(text[m])[f[m - 1]]
        BY <1>4, <3>3
      <4> QED
        BY <4>2, <4>3
    <3> QED
      BY <3>1, <3>2, <3>3
  <2>5. f = h
    BY <2>4, Zenon
  <2>6. IsReading(text, m, f)
    BY <2>5, Zenon DEF IsReading
  <2> QED
    BY <1>2, <2>6
<1> QED
  BY <1>3, <1>4

\* f holds the readers of a text.
Reads(text, f) ==
  f[0] = Fresh /\ \A k \in 1..Len(text) : f[k] = Read(text[k])[f[k - 1]]

\* Each character makes the next reader of the one before it.
LEMMA ReadingStepwise ==
  ASSUME NEW text, Len(text) \in Nat
  PROVE  Reads(text, Reading(text))
<1>1. PICK g : IsReading(text, Len(text), g)
  BY ReadingExists
<1>2. IsReading(text, Len(text), Reading(text))
  BY <1>1, Zenon DEF Reading, IsReading
<1> DEFINE f == Reading(text)
<1>3. \A k \in 0..Len(text) : f[k] = IF k = 0 THEN Fresh ELSE Read(text[k])[f[k - 1]]
  BY <1>2 DEF IsReading
<1> HIDE DEF f
<1>4. f[0] = Fresh
  BY <1>3
<1>5. \A k \in 1..Len(text) : f[k] = Read(text[k])[f[k - 1]]
  <2> TAKE k \in 1..Len(text)
  <2>1. k \in 0..Len(text) /\ k # 0
    OBVIOUS
  <2> QED
    BY <1>3, <2>1
<1> QED
  BY <1>4, <1>5 DEF Reads, f

\* What has been read does not depend on what follows.
LEMMA SamePrefix ==
  ASSUME NEW p, NEW q, NEW f, NEW g, Reads(p, f), Reads(q, g), NEW n \in Nat,
         Len(p) \in Nat, Len(q) \in Nat, n <= Len(p), n <= Len(q),
         \A i \in 1..n : p[i] = q[i]
  PROVE  \A k \in 0..n : f[k] = g[k]
<1> DEFINE Bad == {k \in 0..n : f[k] # g[k]}
<1>1. SUFFICES ASSUME Bad # {} PROVE FALSE
  OBVIOUS
<1>2. PICK k \in Bad : \A x \in Bad : k <= x
  <2>1. Bad \in SUBSET Nat
    OBVIOUS
  <2> QED
    BY <1>1, <2>1, Least, Zenon
<1>3. k # 0
  BY <1>2 DEF Reads
<1>4. /\ k \in 1..Len(p) /\ k \in 1..Len(q) /\ k \in 1..n
      /\ k - 1 \in 0..n /\ ~(k <= k - 1)
  BY <1>2, <1>3
<1>5. f[k - 1] = g[k - 1]
  BY <1>2, <1>4
<1> QED
  BY <1>2, <1>4, <1>5 DEF Reads

LEMMA FreshReader == Fresh \in Readers
<1>1. <<>> \in Seq(Char) /\ <<>> \in Seq(Account) /\ USER \in Level
  BY DEF Level
<1>2. Fresh \in Reader /\ Fresh.table = <<>>
  BY <1>1 DEF Fresh, Reader
<1> QED
  BY <1>2, EmptyTable DEF Readers

\* user_create with what was parsed.
LEMMA EnteredReader ==
  ASSUME NEW r \in Readers
  PROVE  Entered(r) \in Readers
<1> DEFINE u == [name |-> r.name, pass |-> r.pass, level |-> r.level]
           T == Created(r.table, u)
<1>1. r \in Reader /\ IsTable(r.table)
  BY DEF Readers
<1>2. u \in Account
  BY <1>1 DEF Reader, Account
<1> HIDE DEF u
<1>3. IsTable(T)
  BY <1>1, <1>2, CreatedKeeps
<1> HIDE DEF T
<1>4. T \in Seq(Account)
  BY <1>3 DEF IsTable
<1>5. Entered(r) = [r EXCEPT !.mode = "start", !.table = T]
  BY Zenon DEF Entered, T, u
<1>6. Entered(r) \in Reader /\ Entered(r).table = T
  BY <1>1, <1>4, <1>5 DEF Reader
<1> QED
  BY <1>3, <1>6 DEF Readers

\* A character of the name or the password.
LEMMA LongerReader ==
  ASSUME NEW r \in Readers, NEW c \in Char
  PROVE  /\ [r EXCEPT !.name = Append(@, c)] \in Readers
         /\ [r EXCEPT !.pass = Append(@, c)] \in Readers
<1>1. r \in Reader /\ IsTable(r.table)
  BY DEF Readers
<1>2. r.name \in Seq(Char) /\ r.pass \in Seq(Char)
  BY <1>1 DEF Reader
<1> DEFINE n == Append(r.name, c)
           p == Append(r.pass, c)
<1>3. n \in Seq(Char) /\ p \in Seq(Char)
  BY <1>2, AppendProperties
<1> HIDE DEF n, p
<1>4. [r EXCEPT !.name = n] \in Readers /\ [r EXCEPT !.pass = p] \in Readers
  BY <1>1, <1>3 DEF Reader, Readers
<1> QED
  BY <1>4 DEF n, p

\* Whatever a character is, the table read so far stays as it should be.
LEMMA ReadReader ==
  ASSUME NEW r \in Readers, NEW c \in Char
  PROVE  Read(c)[r] \in Readers
<1>1. r \in Reader /\ IsTable(r.table)
  BY DEF Readers
<1>2. r.mode \in {"start", "name", "pass", "skip", "over"}
  BY <1>1 DEF Reader
<1>3. \A m \in {"start", "name", "pass", "skip", "over"} : [r EXCEPT !.mode = m] \in Readers
  BY <1>1 DEF Reader, Readers
<1>4. CASE r.mode = "start"
  <2>1. \A l \in Level : [r EXCEPT !.mode = "name", !.name = <<>>, !.pass = <<>>, !.level = l] \in Readers
    <3>1. <<>> \in Seq(Char)
      OBVIOUS
    <3> QED
      BY <1>1, <3>1 DEF Reader, Readers
  <2>2. (IF c = "@" THEN ADMIN ELSE USER) \in Level
    BY DEF Level
  <2>3. ReadLevel(r, c) \in Readers
    BY <1>3, <2>1, <2>2 DEF ReadLevel
  <2>4. Read(c)[r] = ReadLevel(r, c)
    BY <1>1, <1>4 DEF Read
  <2> QED
    BY <2>3, <2>4
<1>5. CASE r.mode = "name"
  <2>1. ReadName(r, c) \in Readers
    BY <1>3, LongerReader DEF ReadName
  <2>2. Read(c)[r] = ReadName(r, c)
    BY <1>1, <1>5 DEF Read
  <2> QED
    BY <2>1, <2>2
<1>6. CASE r.mode = "pass"
  <2>1. ReadPass(r, c) \in Readers
    BY <1>3, EnteredReader, LongerReader DEF ReadPass
  <2>2. Read(c)[r] = ReadPass(r, c)
    BY <1>1, <1>6 DEF Read
  <2> QED
    BY <2>1, <2>2
<1>7. CASE r.mode = "skip"
  <2>1. Skip(r, c) \in Readers
    BY <1>3 DEF Skip
  <2>2. Read(c)[r] = Skip(r, c)
    BY <1>1, <1>7 DEF Read
  <2> QED
    BY <2>1, <2>2
<1>8. CASE r.mode = "over"
  <2>1. Read(c)[r] = r
    BY <1>1, <1>8 DEF Read
  <2> QED
    BY <2>1
<1> QED
  BY <1>2, <1>4, <1>5, <1>6, <1>7, <1>8

LEMMA ReadingReaders ==
  ASSUME NEW text \in Seq(Char), NEW f, Reads(text, f)
  PROVE  \A k \in 0..Len(text) : f[k] \in Readers
<1> DEFINE Bad == {k \in 0..Len(text) : f[k] \notin Readers}
<1>0. Len(text) \in Nat /\ \A k \in 1..Len(text) : text[k] \in Char
  OBVIOUS
<1>1. SUFFICES ASSUME Bad # {} PROVE FALSE
  OBVIOUS
<1>2. PICK k \in Bad : \A x \in Bad : k <= x
  <2>1. Bad \in SUBSET Nat
    BY <1>0
  <2> QED
    BY <1>1, <2>1, Least, Zenon
<1>3. k # 0
  BY <1>2, FreshReader DEF Reads
<1>4. k \in 1..Len(text) /\ k - 1 \in 0..Len(text) /\ ~(k <= k - 1)
  BY <1>0, <1>2, <1>3
<1>5. f[k - 1] \in Readers /\ text[k] \in Char
  BY <1>0, <1>2, <1>4
<1>6. Read(text[k])[f[k - 1]] \in Readers
  BY <1>5, ReadReader
<1> QED
  BY <1>2, <1>4, <1>6 DEF Reads

LEMMA FinishedTable ==
  ASSUME NEW r \in Readers
  PROVE  IsTable(Finished(r))
BY EnteredReader DEF Finished, Readers

\* Whatever the file holds, the table that is read from it has each name once
\* and no more accounts than its array.
LEMMA LoadedTable ==
  ASSUME NEW text \in Seq(Char)
  PROVE  IsTable(Loaded(text))
<1>1. Len(text) \in Nat /\ Len(text) \in 0..Len(text)
  OBVIOUS
<1>2. Reading(text)[Len(text)] \in Readers
  BY <1>1, ReadingStepwise, ReadingReaders
<1> QED
  BY <1>2, FinishedTable DEF Loaded
-----------------------------------------------------------------------------
(* Reading what save_users writes.                                         *)

MarkOf(u) == IF u.level = ADMIN THEN "@" ELSE "#"

\* Within a line for u, after i characters of the name or of the password.
NameRead(u, T, i) == [mode |-> "name", name |-> SubSeq(u.name, 1, i), pass |-> <<>>,
                      level |-> u.level, table |-> T]
PassRead(u, T, i) == [mode |-> "pass", name |-> u.name, pass |-> SubSeq(u.pass, 1, i),
                      level |-> u.level, table |-> T]

\* A table and an account whose name and password are read as they were written.
PlainCase(T, u) ==
  IsTable(T) /\ u \in Account /\ u.name \in PlainName /\ u.pass \in PlainPass

LEMMA PlainCaseTypes ==
  ASSUME NEW T, NEW u, PlainCase(T, u)
  PROVE  /\ T \in Seq(Account) /\ IsTable(T) /\ u.level \in Level
         /\ u.name \in Seq(Char) /\ Len(u.name) \in Nat
         /\ u.pass \in Seq(Char) /\ Len(u.pass) \in Nat
         /\ \A i \in 1..Len(u.name) :
              u.name[i] \in Char \ {":", "newline", "control", "negative"}
         /\ \A i \in 1..Len(u.pass) : u.pass[i] \in Char \ {"newline", "control", "negative"}
         /\ u = [name |-> u.name, pass |-> u.pass, level |-> u.level]
<1>1. u.name \in Seq(Char) /\ u.pass \in Seq(Char) /\ u.level \in Level
      /\ u = [name |-> u.name, pass |-> u.pass, level |-> u.level]
  BY DEF PlainCase, Account
<1>2. \A i \in 1..Len(u.name) : u.name[i] \in Char \ {":", "newline", "control", "negative"}
  BY ElementOfSeq DEF PlainCase, PlainName
<1>3. \A i \in 1..Len(u.pass) : u.pass[i] \in Char \ {"newline", "control", "negative"}
  BY ElementOfSeq DEF PlainCase, PlainPass
<1>4. Len(u.name) \in Nat /\ Len(u.pass) \in Nat
  BY <1>1, LenProperties
<1>5. T \in Seq(Account) /\ IsTable(T)
  BY DEF PlainCase, IsTable
<1> QED
  BY <1>1, <1>2, <1>3, <1>4, <1>5

\* The first i characters, and one more.
LEMMA OneMore ==
  ASSUME NEW S, NEW s \in Seq(S), NEW i \in 1..Len(s)
  PROVE  /\ SubSeq(s, 1, i - 1) \in Seq(S) /\ SubSeq(s, 1, i) \in Seq(S)
         /\ SubSeq(s, 1, i) = Append(SubSeq(s, 1, i - 1), s[i])
<1>1. 1 \in 1..Len(s) /\ s[i] \in S
  OBVIOUS
<1>2. SubSeq(s, 1, i) = SubSeq(s, 1, i - 1) \o <<s[i]>>
  BY <1>1, SubSeqRecursiveSecond
<1>3. SubSeq(s, 1, i - 1) \in Seq(S) /\ SubSeq(s, 1, i) \in Seq(S)
  OBVIOUS
<1> DEFINE a == SubSeq(s, 1, i - 1)
           x == s[i]
<1>4. a \in Seq(S) /\ x \in S
  BY <1>1, <1>3
<1> HIDE DEF a, x
<1>5. Append(a, x) = a \o <<x>>
  BY <1>4, AppendIsConcat
<1> QED
  BY <1>2, <1>3, <1>5 DEF a, x

LEMMA MidlineReaders ==
  ASSUME NEW T, NEW u, PlainCase(T, u)
  PROVE  /\ \A i \in 0..Len(u.name) : NameRead(u, T, i) \in Reader
         /\ \A i \in 0..Len(u.pass) : PassRead(u, T, i) \in Reader
<1>1. /\ T \in Seq(Account) /\ u.level \in Level
      /\ u.name \in Seq(Char) /\ u.pass \in Seq(Char) /\ <<>> \in Seq(Char)
  BY PlainCaseTypes, EmptySeq
<1>2. \A s \in Seq(Char) : \A i \in 0..Len(s) : SubSeq(s, 1, i) \in Seq(Char)
  OBVIOUS
<1>3. /\ \A i \in 0..Len(u.name) : SubSeq(u.name, 1, i) \in Seq(Char)
      /\ \A i \in 0..Len(u.pass) : SubSeq(u.pass, 1, i) \in Seq(Char)
  BY <1>1, <1>2
<1> QED
  BY <1>1, <1>3 DEF NameRead, PassRead, Reader

\* A reader is what is in its fields.
LEMMA SameReader ==
  ASSUME NEW a \in Reader, NEW b \in Reader, a.mode = b.mode, a.name = b.name,
         a.pass = b.pass, a.level = b.level, a.table = b.table
  PROVE  a = b
BY DEF Reader

\* The mark of the level.
LEMMA MarkRead ==
  ASSUME NEW T, NEW u, PlainCase(T, u), NEW r \in Reader, r.mode = "start", r.table = T
  PROVE  Read(MarkOf(u))[r] = NameRead(u, T, 0)
<1>1. u.level \in Level /\ u.name \in Seq(Char)
  BY PlainCaseTypes
<1>2. SubSeq(u.name, 1, 0) = <<>>
  BY SubSeqEmpty
<1>3. Read(MarkOf(u))[r] = ReadLevel(r, MarkOf(u))
  BY DEF Read
<1>4. MarkOf(u) \in {"@", "#"} /\ (IF MarkOf(u) = "@" THEN ADMIN ELSE USER) = u.level
  BY <1>1 DEF MarkOf, Level, ADMIN, USER
<1>5. ReadLevel(r, MarkOf(u)) =
        [r EXCEPT !.mode = "name", !.name = <<>>, !.pass = <<>>, !.level = u.level]
  BY <1>4 DEF ReadLevel
<1> DEFINE x == [r EXCEPT !.mode = "name", !.name = <<>>, !.pass = <<>>, !.level = u.level]
           y == NameRead(u, T, 0)
<1>6. /\ x \in Reader /\ x.mode = "name" /\ x.name = <<>> /\ x.pass = <<>>
      /\ x.level = u.level /\ x.table = T
  <2>1. <<>> \in Seq(Char)
    OBVIOUS
  <2> QED
    BY <1>1, <2>1 DEF Reader
<1>7. /\ y.mode = "name" /\ y.name = <<>> /\ y.pass = <<>>
      /\ y.level = u.level /\ y.table = T
  BY <1>2 DEF NameRead
<1>8. y \in Reader
  <2>1. 0 \in 0..Len(u.name)
    BY <1>1
  <2> QED
    BY <2>1, MidlineReaders
<1> HIDE DEF x, y
<1>9. x = y
  BY <1>6, <1>7, <1>8, SameReader
<1> QED
  BY <1>3, <1>5, <1>9 DEF x, y

\* A character of the name.
LEMMA NameStep ==
  ASSUME NEW T, NEW u, PlainCase(T, u), NEW i \in 1..Len(u.name)
  PROVE  Read(u.name[i])[NameRead(u, T, i - 1)] = NameRead(u, T, i)
<1> DEFINE c == u.name[i]
           r == NameRead(u, T, i - 1)
<1>1. /\ c \notin {":", "negative"} /\ c # "newline" /\ c # "control"
      /\ u.name \in Seq(Char) /\ Len(u.name) \in Nat
  BY PlainCaseTypes
<1>2. i - 1 \in 0..Len(u.name)
  BY <1>1
<1>3. r \in Reader /\ r.mode = "name"
  BY <1>2, MidlineReaders DEF NameRead
<1>4. [r EXCEPT !.name = Append(@, c)] = NameRead(u, T, i)
  <2> DEFINE x == [r EXCEPT !.name = Append(@, c)]
             y == NameRead(u, T, i)
             a == Append(r.name, c)
  <2>1. y \in Reader
    BY <1>1, MidlineReaders
  <2>2. y.name = a
    BY <1>1, OneMore DEF NameRead
  <2>3. y.mode = r.mode /\ y.pass = r.pass /\ y.level = r.level /\ y.table = r.table
    BY DEF NameRead
  <2>4. a \in Seq(Char)
    BY <2>1, <2>2 DEF Reader
  <2>5. x = [r EXCEPT !.name = a]
    BY DEF x, a
  <2> HIDE DEF a, r, c, x, y
  <2>6. /\ x \in Reader /\ x.name = a /\ x.mode = r.mode
        /\ x.pass = r.pass /\ x.level = r.level /\ x.table = r.table
    BY <1>3, <2>4, <2>5 DEF Reader
  <2>7. x = y
    BY <2>1, <2>2, <2>3, <2>6, SameReader
  <2> QED
    BY <2>7 DEF x, y
<1> HIDE DEF c, r
<1>5. Read(c)[r] = ReadName(r, c)
  BY <1>3 DEF Read
<1>6. ReadName(r, c) = [r EXCEPT !.name = Append(@, c)]
  BY <1>1 DEF ReadName
<1> QED
  BY <1>4, <1>5, <1>6 DEF c, r

\* The delimiter.
LEMMA DelimiterRead ==
  ASSUME NEW T, NEW u, PlainCase(T, u)
  PROVE  Read(":")[NameRead(u, T, Len(u.name))] = PassRead(u, T, 0)
<1> DEFINE r == NameRead(u, T, Len(u.name))
<1>1. u.name \in Seq(Char) /\ Len(u.name) \in Nat /\ u.pass \in Seq(Char)
  BY PlainCaseTypes
<1>2. r \in Reader /\ r.mode = "name"
  BY <1>1, MidlineReaders DEF NameRead
<1>3. SubSeq(u.pass, 1, 0) = <<>> /\ SubSeq(u.name, 1, Len(u.name)) = u.name
  BY <1>1, SubSeqEmpty, SubSeqFull
<1>4. [r EXCEPT !.mode = "pass"] = PassRead(u, T, 0)
  <2> DEFINE n == u.name
             l == u.level
  <2>1. /\ r = [mode |-> "name", name |-> n, pass |-> <<>>, level |-> l, table |-> T]
        /\ PassRead(u, T, 0) = [mode |-> "pass", name |-> n, pass |-> <<>>, level |-> l, table |-> T]
    BY <1>3 DEF NameRead, PassRead
  <2> HIDE DEF r, n, l
  <2> QED
    BY <2>1
<1> HIDE DEF r
<1>5. Read(":")[r] = [r EXCEPT !.mode = "pass"]
  BY <1>2 DEF Read, ReadName
<1> QED
  BY <1>4, <1>5 DEF r

\* A character of the password.
LEMMA PassStep ==
  ASSUME NEW T, NEW u, PlainCase(T, u), NEW i \in 1..Len(u.pass)
  PROVE  Read(u.pass[i])[PassRead(u, T, i - 1)] = PassRead(u, T, i)
<1> DEFINE c == u.pass[i]
           r == PassRead(u, T, i - 1)
<1>1. /\ c \notin {"newline", "negative"} /\ c # "control"
      /\ u.pass \in Seq(Char) /\ Len(u.pass) \in Nat
  BY PlainCaseTypes
<1>2. i - 1 \in 0..Len(u.pass)
  BY <1>1
<1>3. r \in Reader /\ r.mode = "pass"
  BY <1>2, MidlineReaders DEF PassRead
<1>4. [r EXCEPT !.pass = Append(@, c)] = PassRead(u, T, i)
  <2> DEFINE x == [r EXCEPT !.pass = Append(@, c)]
             y == PassRead(u, T, i)
             a == Append(r.pass, c)
  <2>1. y \in Reader
    BY <1>1, MidlineReaders
  <2>2. y.pass = a
    BY <1>1, OneMore DEF PassRead
  <2>3. y.mode = r.mode /\ y.name = r.name /\ y.level = r.level /\ y.table = r.table
    BY DEF PassRead
  <2>4. a \in Seq(Char)
    BY <2>1, <2>2 DEF Reader
  <2>5. x = [r EXCEPT !.pass = a]
    BY DEF x, a
  <2> HIDE DEF a, r, c, x, y
  <2>6. /\ x \in Reader /\ x.pass = a /\ x.mode = r.mode
        /\ x.name = r.name /\ x.level = r.level /\ x.table = r.table
    BY <1>3, <2>4, <2>5 DEF Reader
  <2>7. x = y
    BY <2>1, <2>2, <2>3, <2>6, SameReader
  <2> QED
    BY <2>7 DEF x, y
<1> HIDE DEF c, r
<1>5. Read(c)[r] = ReadPass(r, c)
  BY <1>3 DEF Read
<1>6. ReadPass(r, c) = [r EXCEPT !.pass = Append(@, c)]
  BY <1>1 DEF ReadPass
<1> QED
  BY <1>4, <1>5, <1>6 DEF c, r

\* The end of the line.
LEMMA NewlineRead ==
  ASSUME NEW T, NEW u, PlainCase(T, u)
  PROVE  LET r == Read("newline")[PassRead(u, T, Len(u.pass))] IN
         r.mode = "start" /\ r.table = Created(T, u)
<1> DEFINE r == PassRead(u, T, Len(u.pass))
<1>1. /\ u.pass \in Seq(Char) /\ Len(u.pass) \in Nat
      /\ u = [name |-> u.name, pass |-> u.pass, level |-> u.level]
  BY PlainCaseTypes
<1>2. r \in Reader /\ r.mode = "pass"
  <2>1. \A i \in 0..Len(u.pass) : PassRead(u, T, i) \in Reader
    BY MidlineReaders
  <2>2. Len(u.pass) \in 0..Len(u.pass)
    BY <1>1
  <2>3. r.mode = "pass"
    BY DEF PassRead
  <2> QED
    BY <2>1, <2>2, <2>3
<1>3. SubSeq(u.pass, 1, Len(u.pass)) = u.pass
  BY <1>1, SubSeqFull
<1>4. r.table = T /\ [name |-> r.name, pass |-> r.pass, level |-> r.level] = u
  BY <1>1, <1>3 DEF PassRead
<1> HIDE DEF r
<1>5. Read("newline")[r] = Entered(r)
  BY <1>2 DEF Read, ReadPass
<1>6. Entered(r).mode = "start" /\ Entered(r).table = Created(T, u)
  BY <1>2, <1>4 DEF Entered, Reader
<1> QED
  BY <1>5, <1>6 DEF r

\* Where the characters of a line are.
LEMMA LineCells ==
  ASSUME NEW u \in Account
  PROVE  LET L == LineOf(u)
             a == Len(u.name)
             b == Len(u.pass)
         IN  /\ L \in Seq(Char) /\ Len(L) = a + b + 3
             /\ L[1] = MarkOf(u) /\ L[a + 2] = ":" /\ L[a + b + 3] = "newline"
             /\ \A i \in 1..a : L[i + 1] = u.name[i]
             /\ \A i \in 1..b : L[a + 2 + i] = u.pass[i]
<1> DEFINE n == u.name
           p == u.pass
           m == <<MarkOf(u)>>
           d == <<":">>
           e == <<"newline">>
           a == Len(n)
           b == Len(p)
<1>1. /\ n \in Seq(Char) /\ p \in Seq(Char) /\ a \in Nat /\ b \in Nat
  BY LenProperties DEF Account
<1>2. /\ m \in Seq(Char) /\ Len(m) = 1 /\ m[1] = MarkOf(u)
      /\ d \in Seq(Char) /\ Len(d) = 1 /\ d[1] = ":"
      /\ e \in Seq(Char) /\ Len(e) = 1 /\ e[1] = "newline"
  <2>1. MarkOf(u) \in Char /\ ":" \in Char /\ "newline" \in Char
    BY DEF MarkOf, Char, Special
  <2> QED
    BY <2>1
<1> HIDE DEF n, p, m, d, e
<1> DEFINE x == m \o n
           y == x \o d
           z == y \o p
           L == z \o e
<1>3. /\ x \in Seq(Char) /\ Len(x) = a + 1
      /\ x[1] = MarkOf(u) /\ \A i \in 1..a : x[i + 1] = n[i]
  <2>1. /\ x \in Seq(Char) /\ Len(x) = 1 + a
        /\ \A i \in 1..(1 + a) : x[i] = IF i <= 1 THEN m[i] ELSE n[i - 1]
    BY <1>1, <1>2, ConcatProperties
  <2> HIDE DEF x
  <2>2. \A i \in 1..a : i + 1 \in 1..(1 + a) /\ ~(i + 1 <= 1) /\ (i + 1) - 1 = i
    BY <1>1
  <2>3. 1 \in 1..(1 + a) /\ 1 + a = a + 1
    BY <1>1
  <2> QED
    BY <1>2, <2>1, <2>2, <2>3
<1> HIDE DEF x
<1>4. /\ y \in Seq(Char) /\ Len(y) = a + 2
      /\ y[1] = MarkOf(u) /\ y[a + 2] = ":" /\ \A i \in 1..a : y[i + 1] = n[i]
  <2>1. /\ y \in Seq(Char) /\ Len(y) = (a + 1) + 1
        /\ \A i \in 1..((a + 1) + 1) : y[i] = IF i <= a + 1 THEN x[i] ELSE d[i - (a + 1)]
    BY <1>2, <1>3, ConcatProperties
  <2> HIDE DEF y
  <2>2. \A i \in 1..a : i + 1 \in 1..((a + 1) + 1) /\ i + 1 <= a + 1
    BY <1>1
  <2>3. /\ (a + 1) + 1 = a + 2 /\ 1 \in 1..((a + 1) + 1) /\ 1 <= a + 1
        /\ a + 2 \in 1..((a + 1) + 1) /\ ~(a + 2 <= a + 1) /\ (a + 2) - (a + 1) = 1
    BY <1>1
  <2>4. y[1] = MarkOf(u)
    BY <1>3, <2>1, <2>3
  <2>5. y[a + 2] = ":"
    BY <1>2, <2>1, <2>3
  <2>6. \A i \in 1..a : y[i + 1] = n[i]
    BY <1>3, <2>1, <2>2
  <2> QED
    BY <2>1, <2>3, <2>4, <2>5, <2>6
<1> HIDE DEF y
<1>5. /\ z \in Seq(Char) /\ Len(z) = a + b + 2
      /\ \A i \in 1..(a + 2) : z[i] = y[i]
      /\ \A i \in 1..b : z[a + 2 + i] = p[i]
  <2>1. /\ z \in Seq(Char) /\ Len(z) = (a + 2) + b
        /\ \A i \in 1..((a + 2) + b) : z[i] = IF i <= a + 2 THEN y[i] ELSE p[i - (a + 2)]
    <3>0. y \in Seq(Char) /\ p \in Seq(Char)
      BY <1>1, <1>4
    <3>1. /\ z \in Seq(Char) /\ Len(z) = Len(y) + Len(p)
          /\ \A i \in 1..(Len(y) + Len(p)) : z[i] = IF i <= Len(y) THEN y[i] ELSE p[i - Len(y)]
      BY <3>0, ConcatProperties
    <3>2. Len(y) = a + 2 /\ Len(p) = b
      BY <1>4
    <3> HIDE DEF z, a, b
    <3> QED
      BY <3>1, <3>2
  <2> HIDE DEF z
  <2>2. \A i \in 1..(a + 2) : i \in 1..((a + 2) + b) /\ i <= a + 2
    BY <1>1
  <2>3. \A i \in 1..b : /\ a + 2 + i \in 1..((a + 2) + b) /\ ~(a + 2 + i <= a + 2)
                        /\ (a + 2 + i) - (a + 2) = i
    BY <1>1
  <2>4. (a + 2) + b = a + b + 2
    BY <1>1
  <2>5. \A i \in 1..(a + 2) : z[i] = y[i]
    BY <2>1, <2>2
  <2>6. \A i \in 1..b : z[a + 2 + i] = p[i]
    BY <2>1, <2>3
  <2> QED
    BY <2>1, <2>4, <2>5, <2>6
<1> HIDE DEF z
<1>6. /\ L \in Seq(Char) /\ Len(L) = a + b + 3 /\ L[a + b + 3] = "newline"
      /\ \A i \in 1..(a + b + 2) : L[i] = z[i]
  <2>1. /\ L \in Seq(Char) /\ Len(L) = (a + b + 2) + 1
        /\ \A i \in 1..((a + b + 2) + 1) : L[i] = IF i <= a + b + 2 THEN z[i] ELSE e[i - (a + b + 2)]
    <3>0. z \in Seq(Char) /\ e \in Seq(Char)
      BY <1>2, <1>5
    <3>1. /\ L \in Seq(Char) /\ Len(L) = Len(z) + Len(e)
          /\ \A i \in 1..(Len(z) + Len(e)) : L[i] = IF i <= Len(z) THEN z[i] ELSE e[i - Len(z)]
      BY <3>0, ConcatProperties
    <3>2. Len(z) = a + b + 2 /\ Len(e) = 1
      BY <1>2, <1>5
    <3> HIDE DEF L, a, b
    <3> QED
      BY <3>1, <3>2
  <2> HIDE DEF L
  <2>2. /\ (a + b + 2) + 1 = a + b + 3 /\ a + b + 3 \in 1..((a + b + 2) + 1)
        /\ ~(a + b + 3 <= a + b + 2) /\ (a + b + 3) - (a + b + 2) = 1
        /\ \A i \in 1..(a + b + 2) : i \in 1..((a + b + 2) + 1) /\ i <= a + b + 2
    BY <1>1
  <2>3. L[a + b + 3] = "newline"
    BY <1>2, <2>1, <2>2
  <2>4. \A i \in 1..(a + b + 2) : L[i] = z[i]
    BY <2>1, <2>2
  <2> QED
    BY <2>1, <2>2, <2>3, <2>4
<1>7. L = LineOf(u)
  BY Zenon DEF LineOf, MarkOf, n, p, m, d, e, x, y, z
<1> HIDE DEF L
<1>8. /\ 1 \in 1..(a + 2) /\ a + 2 \in 1..(a + 2) /\ 1 \in 1..(a + b + 2) /\ a + 2 \in 1..(a + b + 2)
      /\ \A i \in 1..a : i + 1 \in 1..(a + 2) /\ i + 1 \in 1..(a + b + 2)
      /\ \A i \in 1..b : a + 2 + i \in 1..(a + b + 2)
  BY <1>1
<1>9. L[1] = MarkOf(u) /\ L[a + 2] = ":"
  BY <1>4, <1>5, <1>6, <1>8
<1>10. \A i \in 1..a : L[i + 1] = n[i]
  BY <1>4, <1>5, <1>6, <1>8
<1>11. \A i \in 1..b : L[a + 2 + i] = p[i]
  BY <1>5, <1>6, <1>8
<1> QED
  BY <1>6, <1>7, <1>9, <1>10, <1>11 DEF n, p

\* From the p-th character on, text has a line for u, which a reader between two
\* lines begins.
LineAhead(text, f, p, T, u) ==
  /\ PlainCase(T, u)
  /\ Reads(text, f) /\ f[p] \in Reader /\ f[p].mode = "start" /\ f[p].table = T
  /\ p + Len(LineOf(u)) <= Len(text)
  /\ \A j \in 1..Len(LineOf(u)) : text[p + j] = LineOf(u)[j]

\* The table stays as it is up to the end of the line, and then user_create has
\* been called for u.
LEMMA LineRead ==
  ASSUME NEW text \in Seq(Char), NEW f, NEW p \in Nat, NEW T, NEW u, LineAhead(text, f, p, T, u)
  PROVE  LET q == p + Len(LineOf(u)) IN
         /\ f[q].mode = "start" /\ f[q].table = Created(T, u)
         /\ \A k \in p..(q - 1) : f[k].table = T
<1> DEFINE L == LineOf(u)
           a == Len(u.name)
           b == Len(u.pass)
<1>1. PlainCase(T, u)
  BY DEF LineAhead
<1>2. u \in Account /\ a \in Nat /\ b \in Nat
  BY <1>1, PlainCaseTypes DEF PlainCase
<1>3. /\ L \in Seq(Char) /\ Len(L) = a + b + 3
      /\ L[1] = MarkOf(u) /\ L[a + 2] = ":" /\ L[a + b + 3] = "newline"
      /\ \A i \in 1..a : L[i + 1] = u.name[i]
      /\ \A i \in 1..b : L[a + 2 + i] = u.pass[i]
  BY <1>2, LineCells
<1> HIDE DEF L, a, b
<1>4. \A j \in 1..(a + b + 3) : f[p + j] = Read(L[j])[f[p + (j - 1)]]
  <2> TAKE j \in 1..(a + b + 3)
  <2>1. text[p + j] = L[j] /\ p + (a + b + 3) <= Len(text)
    BY <1>3 DEF LineAhead, L
  <2>2. p + j \in 1..Len(text) /\ (p + j) - 1 = p + (j - 1)
    <3>1. Len(text) \in Nat
      OBVIOUS
    <3> QED
      BY <1>2, <2>1, <3>1
  <2>3. f[p + j] = Read(text[p + j])[f[(p + j) - 1]]
    BY <2>2 DEF LineAhead, Reads
  <2> QED
    BY <2>1, <2>2, <2>3
<1>5. f[p + 1] = NameRead(u, T, 0)
  <2>1. 1 \in 1..(a + b + 3) /\ p + (1 - 1) = p
    BY <1>2
  <2>2. f[p + 1] = Read(MarkOf(u))[f[p]]
    BY <1>3, <1>4, <2>1
  <2> QED
    BY <1>1, <2>2, MarkRead DEF LineAhead
<1>6. \A i \in 0..a : f[p + (i + 1)] = NameRead(u, T, i)
  <2> DEFINE Bad == {i \in 0..a : f[p + (i + 1)] # NameRead(u, T, i)}
  <2>1. SUFFICES ASSUME Bad # {} PROVE FALSE
    OBVIOUS
  <2>2. PICK i \in Bad : \A x \in Bad : i <= x
    <3>1. Bad \in SUBSET Nat
      BY <1>2
    <3> QED
      BY <2>1, <3>1, Least, Zenon
  <2>3. i # 0
    BY <1>5, <2>2
  <2>4. /\ i \in 1..a /\ i - 1 \in 0..a /\ ~(i <= i - 1) /\ i + 1 \in 1..(a + b + 3)
        /\ (i - 1) + 1 = (i + 1) - 1
    BY <1>2, <2>2, <2>3
  <2>5. f[p + ((i + 1) - 1)] = NameRead(u, T, i - 1)
    BY <2>2, <2>4
  <2>6. f[p + (i + 1)] = Read(u.name[i])[NameRead(u, T, i - 1)]
    BY <1>3, <1>4, <2>4, <2>5
  <2>7. Read(u.name[i])[NameRead(u, T, i - 1)] = NameRead(u, T, i)
    BY <1>1, <2>4, NameStep DEF a
  <2> QED
    BY <2>2, <2>6, <2>7
<1>7. f[p + (a + 2)] = PassRead(u, T, 0)
  <2>1. a + 2 \in 1..(a + b + 3) /\ (a + 2) - 1 = a + 1 /\ a \in 0..a
    BY <1>2
  <2>2. f[p + (a + 2)] = Read(":")[NameRead(u, T, a)]
    BY <1>3, <1>4, <1>6, <2>1
  <2> QED
    BY <1>1, <2>2, DelimiterRead DEF a
<1>8. \A i \in 0..b : f[p + (a + 2 + i)] = PassRead(u, T, i)
  <2> DEFINE Bad == {i \in 0..b : f[p + (a + 2 + i)] # PassRead(u, T, i)}
  <2>1. SUFFICES ASSUME Bad # {} PROVE FALSE
    OBVIOUS
  <2>2. PICK i \in Bad : \A x \in Bad : i <= x
    <3>1. Bad \in SUBSET Nat
      BY <1>2
    <3> QED
      BY <2>1, <3>1, Least, Zenon
  <2>3. i # 0
    <3>1. a + 2 + 0 = a + 2
      BY <1>2
    <3> QED
      BY <1>7, <2>2, <3>1
  <2>4. /\ i \in 1..b /\ i - 1 \in 0..b /\ ~(i <= i - 1) /\ a + 2 + i \in 1..(a + b + 3)
        /\ a + 2 + (i - 1) = (a + 2 + i) - 1
    BY <1>2, <2>2, <2>3
  <2>5. f[p + ((a + 2 + i) - 1)] = PassRead(u, T, i - 1)
    BY <2>2, <2>4
  <2>6. f[p + (a + 2 + i)] = Read(u.pass[i])[PassRead(u, T, i - 1)]
    BY <1>3, <1>4, <2>4, <2>5
  <2>7. Read(u.pass[i])[PassRead(u, T, i - 1)] = PassRead(u, T, i)
    BY <1>1, <2>4, PassStep DEF b
  <2> QED
    BY <2>2, <2>6, <2>7
<1>9. f[p + (a + b + 3)].mode = "start" /\ f[p + (a + b + 3)].table = Created(T, u)
  <2>1. /\ a + b + 3 \in 1..(a + b + 3) /\ (a + b + 3) - 1 = a + 2 + b /\ b \in 0..b
    BY <1>2
  <2>2. f[p + (a + b + 3)] = Read("newline")[PassRead(u, T, b)]
    BY <1>3, <1>4, <1>8, <2>1
  <2> QED
    BY <1>1, <2>2, NewlineRead DEF b
<1>10. \A k \in p..(p + (a + b + 3) - 1) : f[k].table = T
  <2> TAKE k \in p..(p + (a + b + 3) - 1)
  <2>1. \/ k = p
        \/ k - p - 1 \in 0..a /\ k = p + ((k - p - 1) + 1)
        \/ k - p - (a + 2) \in 0..b /\ k = p + (a + 2 + (k - p - (a + 2)))
    BY <1>2
  <2>2. CASE k = p
    BY <2>2 DEF LineAhead
  <2>3. CASE k - p - 1 \in 0..a /\ k = p + ((k - p - 1) + 1)
    <3>1. f[k] = NameRead(u, T, k - p - 1)
      BY <1>6, <2>3
    <3> QED
      BY <3>1 DEF NameRead
  <2>4. CASE k - p - (a + 2) \in 0..b /\ k = p + (a + 2 + (k - p - (a + 2)))
    <3>1. f[k] = PassRead(u, T, k - p - (a + 2))
      BY <1>8, <2>4
    <3> QED
      BY <3>1 DEF PassRead
  <2> QED
    BY <2>1, <2>2, <2>3, <2>4
<1> QED
  BY <1>3, <1>9, <1>10 DEF L

\* user_create takes the next account of a table after those in front of it: its
\* name is not among theirs, and there is room for as many as there were.
LEMMA CreatedNext ==
  ASSUME NEW t, IsTable(t), NEW k \in 1..Len(t)
  PROVE  /\ IsTable(SubSeq(t, 1, k - 1)) /\ t[k] \in Account
         /\ Created(SubSeq(t, 1, k - 1), t[k]) = SubSeq(t, 1, k)
<1> DEFINE s == SubSeq(t, 1, k - 1)
<1>0. /\ t \in Seq(Account) /\ Len(t) \in Nat /\ DOMAIN t = 1..Len(t)
      /\ Len(t) <= MaxUsers /\ Unique(t) /\ MaxUsers \in Nat
  BY AccountsAssumption DEF IsTable
<1>1. t[k] \in Account /\ t[k].level \in Level
  <2>1. t[k] \in Account
    BY <1>0
  <2> QED
    BY <2>1 DEF Account
<1>2. s \in Seq(Account) /\ Len(s) = k - 1 /\ \A i \in 1..(k - 1) : s[i] = t[i]
  BY <1>0
<1>3. SubSeq(t, 1, k) = Append(s, t[k])
  BY <1>0, OneMore
<1> HIDE DEF s
<1>4. DOMAIN s = 1..(k - 1) /\ k - 1 \in Nat /\ k - 1 < MaxUsers
  BY <1>0, <1>2
<1>5. ASSUME NEW i \in 1..(k - 1), s[i].name = t[k].name PROVE FALSE
  <2>1. i \in 1..Len(t) /\ i # k /\ t[i].name = t[k].name
    BY <1>0, <1>2, <1>5
  <2> QED
    BY <1>0, <2>1 DEF Unique
<1>6. Creatable(s, t[k])
  <2>1. t[k].name \notin NamesOf(s)
    BY <1>4, <1>5 DEF NamesOf
  <2> QED
    BY <1>1, <1>2, <1>4, <2>1 DEF Creatable
<1>7. IsTable(s)
  <2>1. Unique(s)
    <3> SUFFICES ASSUME NEW i \in 1..(k - 1), NEW j \in 1..(k - 1), s[i].name = s[j].name
                 PROVE  i = j
      BY <1>4 DEF Unique
    <3>1. i \in DOMAIN t /\ j \in DOMAIN t /\ t[i].name = t[j].name
      BY <1>0, <1>2
    <3> QED
      BY <1>0, <3>1 DEF Unique
  <2>2. Len(s) <= MaxUsers
    BY <1>0, <1>2, <1>4
  <2> QED
    BY <1>2, <2>1, <2>2 DEF IsTable
<1> QED
  BY <1>1, <1>3, <1>6, <1>7 DEF Created, s

\* T is what t has in front of some account.
InFront(t, T) == \E j \in 0..Len(t) : T = SubSeq(t, 1, j)

\* x is the text of the first i accounts of t, as far as a reader can tell.
ReadsAs(t, x, i) ==
  /\ Reading(x)[Len(x)] \in Reader
  /\ Reading(x)[Len(x)].mode = "start" /\ Reading(x)[Len(x)].table = SubSeq(t, 1, i)
  /\ \A k \in 0..Len(x) : InFront(t, Reading(x)[k].table)

\* One line more is one account more.
LEMMA NextLine ==
  ASSUME NEW t, IsTable(t), AllPlain(t), NEW i \in 1..Len(t),
         NEW x \in Seq(Char), ReadsAs(t, x, i - 1)
  PROVE  x \o LineOf(t[i]) \in Seq(Char) /\ ReadsAs(t, x \o LineOf(t[i]), i)
<1> DEFINE u == t[i]
           L == LineOf(u)
           y == x \o L
           T == SubSeq(t, 1, i - 1)
           p == Len(x)
           q == p + Len(L)
           h == Reading(y)
<1>0. t \in Seq(Account) /\ DOMAIN t = 1..Len(t) /\ Len(t) \in Nat
  BY DEF IsTable
<1>1. IsTable(T) /\ u \in Account /\ Created(T, u) = SubSeq(t, 1, i)
  BY CreatedNext
<1>2. PlainCase(T, u)
  BY <1>0, <1>1 DEF PlainCase, AllPlain
<1>3. L \in Seq(Char) /\ Len(L) \in Nat
  BY <1>1, LineCells, LenProperties
<1> HIDE DEF u, L, T
<1>4. /\ y \in Seq(Char) /\ Len(y) = q
      /\ \A j \in 1..p : y[j] = x[j]
      /\ \A j \in 1..Len(L) : y[p + j] = L[j]
  <2>1. /\ y \in Seq(Char) /\ Len(y) = p + Len(L)
        /\ \A j \in 1..(p + Len(L)) : y[j] = IF j <= p THEN x[j] ELSE L[j - p]
    BY <1>3, ConcatProperties
  <2>2. p \in Nat
    OBVIOUS
  <2> HIDE DEF y, p
  <2>3. \A j \in 1..p : j \in 1..(p + Len(L)) /\ j <= p
    BY <1>3, <2>2
  <2>4. \A j \in 1..Len(L) : p + j \in 1..(p + Len(L)) /\ ~(p + j <= p) /\ (p + j) - p = j
    BY <1>3, <2>2
  <2>5. \A j \in 1..p : y[j] = x[j]
    BY <2>1, <2>3
  <2>6. \A j \in 1..Len(L) : y[p + j] = L[j]
    BY <2>1, <2>4
  <2> QED
    BY <2>1, <2>5, <2>6
<1>5. p \in Nat /\ q \in Nat /\ p <= q /\ p \in 0..p
  BY <1>3
<1>6. Reads(x, Reading(x)) /\ Reads(y, h)
  <2>1. Len(x) \in Nat /\ Len(y) \in Nat
    BY <1>4, <1>5
  <2> QED
    BY <2>1, ReadingStepwise
<1> HIDE DEF y, h
<1>7. \A k \in 0..p : h[k] = Reading(x)[k]
  <2>1. Len(x) \in Nat /\ p <= Len(x) /\ Len(y) \in Nat /\ p <= Len(y)
    BY <1>4, <1>5
  <2>2. \A j \in 1..p : x[j] = y[j]
    BY <1>4
  <2>3. \A k \in 0..p : Reading(x)[k] = h[k]
    BY <1>5, <1>6, <2>1, <2>2, SamePrefix
  <2> QED
    BY <2>3
<1>8. LineAhead(y, h, p, T, u)
  <2>1. h[p] \in Reader /\ h[p].mode = "start" /\ h[p].table = T
    BY <1>5, <1>7 DEF ReadsAs, T
  <2> QED
    BY <1>2, <1>3, <1>4, <1>5, <1>6, <2>1 DEF LineAhead, L
<1>9. /\ h[q].mode = "start" /\ h[q].table = SubSeq(t, 1, i)
      /\ \A k \in p..(q - 1) : h[k].table = T
  BY <1>1, <1>4, <1>5, <1>8, LineRead DEF L
<1>10. h[q] \in Reader
  <2>1. Len(y) \in 0..Len(y)
    BY <1>4, <1>5
  <2>2. h[Len(y)] \in Readers
    BY <1>4, <1>6, <2>1, ReadingReaders
  <2> QED
    BY <1>4, <2>2 DEF Readers
<1>11. \A k \in 0..q : InFront(t, h[k].table)
  <2> TAKE k \in 0..q
  <2>1. CASE k \in 0..p
    BY <1>7, <2>1 DEF ReadsAs
  <2>2. CASE k \in p..(q - 1)
    <3>1. i - 1 \in 0..Len(t)
      BY <1>0
    <3> QED
      BY <1>9, <2>2, <3>1 DEF InFront, T
  <2>3. CASE k = q
    BY <1>0, <1>9, <2>3 DEF InFront
  <2> QED
    BY <1>5, <2>1, <2>2, <2>3
<1> QED
  BY <1>4, <1>9, <1>10, <1>11 DEF ReadsAs, y, h, L, u

LinesOf(t) == [i \in 1..Len(t) |-> LineOf(t[i])]

LEMMA LinesType ==
  ASSUME NEW t \in Seq(Account)
  PROVE  LinesOf(t) \in Seq(Seq(Char)) /\ Len(LinesOf(t)) = Len(t)
         /\ Saved(t) = FlattenSeq(LinesOf(t)) /\ Saved(t) \in Seq(Char)
<1>1. \A i \in 1..Len(t) : LineOf(t[i]) \in Seq(Char)
  <2> TAKE i \in 1..Len(t)
  <2>1. t[i] \in Account
    OBVIOUS
  <2> QED
    BY <2>1, LineCells
<1>2. LinesOf(t) \in Seq(Seq(Char)) /\ Len(LinesOf(t)) = Len(t)
  BY <1>1 DEF LinesOf
<1>3. Saved(t) = FlattenSeq(LinesOf(t))
  BY DEF Saved, LinesOf
<1> QED
  BY <1>2, <1>3, FlattenType

LEMMA NothingRead ==
  ASSUME NEW t \in Seq(Account)
  PROVE  ReadsAs(t, <<>>, 0)
<1> DEFINE x == <<>>
<1>1. Len(x) = 0 /\ Len(x) \in Nat
  OBVIOUS
<1> HIDE DEF x
<1>2. Reading(x)[Len(x)] = Fresh
  BY <1>1, ReadingStepwise DEF Reads
<1>3. Fresh \in Reader /\ Fresh.mode = "start" /\ Fresh.table = <<>>
  BY FreshReader DEF Readers, Fresh
<1>4. SubSeq(t, 1, 0) = <<>>
  BY SubSeqEmpty
<1>5. InFront(t, <<>>)
  <2>1. 0 \in 0..Len(t)
    OBVIOUS
  <2> QED
    BY <1>4, <2>1 DEF InFront
<1>6. \A k \in 0..Len(x) : k = Len(x)
  BY <1>1
<1>7. ReadsAs(t, x, 0)
  BY <1>2, <1>3, <1>4, <1>5, <1>6 DEF ReadsAs
<1> QED
  BY <1>7 DEF x

\* The text of a table is read line by line.
LEMMA SavedReadsAs ==
  ASSUME NEW t, IsTable(t), AllPlain(t)
  PROVE  ReadsAs(t, Saved(t), Len(t))
<1>0. t \in Seq(Account) /\ Len(t) \in Nat
  BY DEF IsTable
<1>1. CASE t = <<>>
  <2>1. Saved(t) = <<>> /\ Len(t) = 0
    <3>1. LinesOf(t) = <<>> /\ Len(t) = 0
      BY <1>1, LinesType, EmptySeq
    <3> QED
      BY <1>0, <3>1, LinesType, FlattenEmpty
  <2> QED
    BY <1>0, <2>1, NothingRead
<1>2. CASE t # <<>>
  <2> DEFINE n == Len(t)
             ss == LinesOf(t)
  <2>1. n \in Nat \ {0}
    BY <1>0, <1>2, EmptySeq
  <2>2. /\ ss \in Seq(Seq(Char)) /\ Len(ss) = n /\ Saved(t) = FlattenSeq(ss)
        /\ \A i \in 1..n : ss[i] = LineOf(t[i])
    BY <1>0, LinesType DEF LinesOf
  <2> HIDE DEF ss, n
  <2>3. PICK f : Joins(ss, f) /\ FlattenSeq(ss) = f[n]
    <3>1. Len(ss) \in Nat \ {0}
      BY <2>1, <2>2
    <3> QED
      BY <2>2, <3>1, FlattenStepwise, Zenon
  <2>4. \A i \in 1..n : f[i] \in Seq(Char)
    BY <2>2, <2>3, JoinsType
  <2> DEFINE Bad == {i \in 1..n : ~ReadsAs(t, f[i], i)}
  <2>5. ASSUME Bad # {} PROVE FALSE
    <3>1. PICK m \in Bad : \A x \in Bad : m <= x
      <4>1. Bad \in SUBSET Nat
        BY <2>1
      <4> QED
        BY <2>5, <4>1, Least, Zenon
    <3>2. m \in 1..n /\ m \in 1..Len(t)
      BY <3>1 DEF n
    <3>3. CASE m = 1
      <4>1. ReadsAs(t, <<>>, m - 1) /\ <<>> \in Seq(Char)
        BY <1>0, <3>3, NothingRead
      <4>2. ReadsAs(t, <<>> \o LineOf(t[m]), m)
        BY <3>2, <4>1, NextLine
      <4>3. f[m] = LineOf(t[m])
        BY <2>2, <2>3, <3>2, <3>3 DEF Joins
      <4>4. <<>> \o LineOf(t[m]) = LineOf(t[m])
        BY <2>4, <3>2, <4>3, ConcatEmptySeq
      <4> QED
        BY <3>1, <4>2, <4>3, <4>4
    <3>4. CASE m # 1
      <4>1. m \in 2..Len(ss) /\ m - 1 \in 1..n /\ ~(m <= m - 1)
        BY <2>1, <2>2, <3>2, <3>4
      <4>2. ReadsAs(t, f[m - 1], m - 1)
        BY <3>1, <4>1
      <4>3. f[m] = f[m - 1] \o LineOf(t[m])
        BY <2>2, <2>3, <3>2, <4>1 DEF Joins
      <4>4. f[m - 1] \in Seq(Char)
        BY <2>4, <4>1
      <4>5. ReadsAs(t, f[m - 1] \o LineOf(t[m]), m)
        BY <3>2, <4>2, <4>4, NextLine
      <4> QED
        BY <3>1, <4>3, <4>5
    <3> QED
      BY <3>3, <3>4
  <2>6. ReadsAs(t, f[n], n)
    <3>1. n \in 1..n
      BY <2>1
    <3> QED
      BY <2>5, <3>1
  <2> QED
    BY <2>2, <2>3, <2>6 DEF n
<1> QED
  BY <1>1, <1>2

\* What an orderly stop writes is read back whole and in order, if parse_user
\* reads each name and password as it was written.
LEMMA LoadedSaved ==
  ASSUME NEW t, IsTable(t), AllPlain(t)
  PROVE  Loaded(Saved(t)) = t
<1>1. t \in Seq(Account)
  BY DEF IsTable
<1>2. ReadsAs(t, Saved(t), Len(t))
  BY SavedReadsAs
<1>3. SubSeq(t, 1, Len(t)) = t
  BY <1>1, SubSeqFull
<1> QED
  BY <1>2, <1>3 DEF ReadsAs, Loaded, Finished

\* What the load finds in a part of such a text: the accounts in front of some
\* account, and at most one more.
LEMMA LoadedCut ==
  ASSUME NEW t, IsTable(t), AllPlain(t), NEW n \in Nat, n <= Len(Saved(t))
  PROVE  \E T : /\ InFront(t, T) /\ IsTable(T)
                /\ \/ Loaded(SubSeq(Saved(t), 1, n)) = T
                   \/ \E u \in Account : Loaded(SubSeq(Saved(t), 1, n)) = Created(T, u)
<1> DEFINE x == Saved(t)
           w == SubSeq(x, 1, n)
           r == Reading(w)[n]
<1>1. x \in Seq(Char) /\ Len(x) \in Nat /\ ReadsAs(t, x, Len(t))
  BY LinesType, SavedReadsAs, LenProperties DEF IsTable
<1> HIDE DEF x
<1>2. w \in Seq(Char) /\ Len(w) = n /\ \A i \in 1..n : w[i] = x[i]
  <2>1. n <= Len(x)
    BY DEF x
  <2> QED
    BY <1>1, <2>1
<1> HIDE DEF w
<1>3. n \in 0..n /\ n \in 0..Len(x)
  BY <1>1 DEF x
<1>4. Reads(w, Reading(w)) /\ Reads(x, Reading(x))
  BY <1>1, <1>2, ReadingStepwise
<1>5. r = Reading(x)[n]
  <2>1. n <= Len(w) /\ Len(w) \in Nat /\ n <= Len(x)
    BY <1>2, <1>3
  <2>2. \A k \in 0..n : Reading(w)[k] = Reading(x)[k]
    BY <1>1, <1>2, <1>4, <2>1, SamePrefix
  <2> QED
    BY <1>3, <2>2
<1>6. InFront(t, r.table)
  BY <1>1, <1>3, <1>5 DEF ReadsAs
<1>7. r \in Readers
  BY <1>2, <1>3, <1>4, ReadingReaders
<1> HIDE DEF r
<1>8. Loaded(w) = Finished(r)
  BY <1>2 DEF Loaded, r
<1>9. IsTable(r.table) /\ [name |-> r.name, pass |-> r.pass, level |-> r.level] \in Account
  BY <1>7 DEF Readers, Reader, Account
<1>10. Entered(r).table = Created(r.table, [name |-> r.name, pass |-> r.pass, level |-> r.level])
  BY <1>7 DEF Entered, Readers, Reader
<1>11. \/ Loaded(w) = r.table
       \/ \E u \in Account : Loaded(w) = Created(r.table, u)
  BY <1>8, <1>9, <1>10, Zenon DEF Finished
<1> QED
  BY <1>6, <1>9, <1>11 DEF w, x
-----------------------------------------------------------------------------
(* The invariant and what follows from it.                                 *)

LEMMA InitInv == Init => IInv
<1> SUFFICES ASSUME Init PROVE IInv
  OBVIOUS
<1>1. file \in Seq(Char) /\ written \in Seq(Char)
  BY UsersAssumption DEF Init
<1> QED
  BY <1>1, EmptyTable DEF Init, IInv

\* Every step keeps the invariant.
LEMMA NextInv == IInv /\ [Next]_vars => IInv'
<1> SUFFICES ASSUME IInv, [Next]_vars PROVE IInv'
  OBVIOUS
<1> USE DEF IInv
<1>1. \A n \in Name, p \in Password, l \in Level : [name |-> n, pass |-> p, level |-> l] \in Account
  BY UsersAssumption DEF Account
<1>2. CASE Start
  <2>1. IsTable(table')
    BY <1>2, LoadedTable DEF Start
  <2> QED
    BY <1>2, <2>1, EmptyTable DEF Start
<1>3. CASE AddOption
  <2>1. IsTable(table')
    BY <1>1, <1>3, CreatedKeeps DEF AddOption, Level
  <2> QED
    BY <1>3, <2>1 DEF AddOption
<1>4. CASE Run
  BY <1>4 DEF Run
<1>5. CASE AddUser
  <2>1. IsTable(table')
    BY <1>1, <1>5, CreatedKeeps DEF AddUser, AddOf
  <2> QED
    BY <1>5, <2>1 DEF AddUser, AddOf
<1>6. CASE RemoveUser
  <2>1. IsTable(table')
    BY <1>6, DeletedKeeps DEF RemoveUser, RemoveOf
  <2> QED
    BY <1>6, <2>1 DEF RemoveUser, RemoveOf
<1>7. CASE ChangePassword
  <2>1. IsTable(table')
    BY <1>7, ChangedKeeps, UsersAssumption DEF ChangePassword, ChangeOf
  <2> QED
    BY <1>7, <2>1 DEF ChangePassword, ChangeOf
<1>8. CASE Shutdown
  <2>1. table' = <<>> /\ kept' = table /\ status' = "stopping"
    BY <1>8 DEF Shutdown
  <2>2. CASE table = <<>>
    BY <1>8, <2>1, <2>2, EmptyTable DEF Shutdown
  <2>3. CASE table # <<>>
    <3>1. written' = Saved(table) /\ written' \in Seq(Char)
      BY <1>8, <2>3, LinesType DEF Shutdown, IsTable
    <3>2. PICK n \in Flushed : n <= Len(written') /\ file' = SubSeq(written', 1, n)
      BY <1>8, <2>3 DEF Shutdown
    <3>3. file' \in Seq(Char)
      <4>1. n \in Nat
        BY UsersAssumption
      <4>2. \A x \in Seq(Char) : \A m \in Nat : m <= Len(x) => SubSeq(x, 1, m) \in Seq(Char)
        OBVIOUS
      <4> QED
        BY <3>1, <3>2, <4>1, <4>2
    <3> QED
      BY <2>1, <3>1, <3>3, EmptyTable
  <2> QED
    BY <2>2, <2>3
<1>9. CASE ShutdownFails
  BY <1>9, EmptyTable DEF ShutdownFails
<1>10. CASE Exit
  BY <1>10 DEF Exit
<1>11. CASE Crash
  BY <1>11, EmptyTable DEF Crash
<1>12. CASE UNCHANGED vars
  BY <1>12 DEF vars
<1> QED
  BY <1>2, <1>3, <1>4, <1>5, <1>6, <1>7, <1>8, <1>9, <1>10, <1>11, <1>12
  DEF Next

\* Every reachable state satisfies the invariant.
THEOREM SpecInv == Spec => []IInv
BY InitInv, NextInv, PTL DEF Spec

\* The table never outgrows the array users_init allocates, and tables and
\* files keep their types, whatever is created, deleted, saved and read again.
THEOREM TypeCorrect == Spec => []TypeOK
<1>1. IInv => TypeOK
  BY DEF IInv, IsTable, TypeOK
<1> QED
  BY <1>1, SpecInv, PTL

\* No two accounts ever have the same name, so that every scan for a name means
\* the same account.
THEOREM NoNameTwice == Spec => []NamesUnique
<1>1. IInv => NamesUnique
  BY DEF IInv, IsTable, Unique, NamesUnique
<1> QED
  BY <1>1, SpecInv, PTL

\* The accounts of an orderly stop are those of the next start, in order, with
\* their passwords and levels, if no name has the delimiter in it and no name or
\* password a byte below 32 or from 128 on: nothing is said of a table with one of
\* those (users.c:33-166, users.c:274-301).
THEOREM OrderlyStopKeepsAccounts == Spec => []AccountsSurvive
<1>1. IInv => AccountsSurvive
  BY LoadedSaved DEF IInv, AccountsSurvive
<1> QED
  BY <1>1, SpecInv, PTL
-----------------------------------------------------------------------------
(* The accounts as a directory.                                            *)

EntryOf(u) == [pass |-> u.pass, level |-> u.level]

\* Each account of a table is found under its name.
LEMMA AccountFound ==
  ASSUME NEW t, IsTable(t), NEW i \in 1..Len(t)
  PROVE  /\ t[i].name \in NamesOf(t) /\ IndexOf(t, t[i].name) = i
         /\ AccountsOf(t)[t[i].name] = EntryOf(t[i])
<1> DEFINE n == t[i].name
<1>0. t \in Seq(Account) /\ DOMAIN t = 1..Len(t) /\ Unique(t)
  BY DEF IsTable
<1>1. n \in NamesOf(t)
  BY <1>0 DEF NamesOf
<1>2. IndexOf(t, n) \in 1..Len(t) /\ t[IndexOf(t, n)].name = n
  BY <1>0, <1>1, IndexInTable
<1>3. IndexOf(t, n) = i
  BY <1>0, <1>2 DEF Unique
<1> QED
  BY <1>1, <1>3 DEF AccountsOf, EntryOf

\* A directory is that of a table if it has the accounts of the table.
LEMMA SameAccounts ==
  ASSUME NEW t, IsTable(t), NEW d, d = [n \in NamesOf(t) |-> d[n]],
         \A i \in 1..Len(t) : d[t[i].name] = EntryOf(t[i])
  PROVE  AccountsOf(t) = d
<1>0. t \in Seq(Account) /\ DOMAIN t = 1..Len(t)
  BY DEF IsTable
<1>1. ASSUME NEW n \in NamesOf(t) PROVE AccountsOf(t)[n] = d[n]
  <2>1. PICK i \in 1..Len(t) : n = t[i].name
    BY <1>0 DEF NamesOf
  <2> QED
    BY <2>1, AccountFound
<1>2. AccountsOf(t) = [n \in NamesOf(t) |-> AccountsOf(t)[n]]
  BY DEF AccountsOf
<1>3. [n \in NamesOf(t) |-> AccountsOf(t)[n]] = [n \in NamesOf(t) |-> d[n]]
  BY <1>1
<1> QED
  BY <1>2, <1>3

\* Sets are as large for the directory as they are here.
LEMMA SameSizes ==
  ASSUME NEW S
  PROVE  (D!IsFiniteSet(S) <=> IsFiniteSet(S)) /\ D!Cardinality(S) = Cardinality(S)
<1>1. D!IsFiniteSet(S) <=> IsFiniteSet(S)
  BY Zenon DEF D!IsFiniteSet, IsFiniteSet
<1>2. D!Cardinality(S) = Cardinality(S)
  BY Zenon DEF D!Cardinality, Cardinality
<1> QED
  BY <1>1, <1>2

\* There are as many names as accounts.
LEMMA NamesCount ==
  ASSUME NEW t, IsTable(t)
  PROVE  /\ DOMAIN AccountsOf(t) = NamesOf(t)
         /\ IsFiniteSet(NamesOf(t)) /\ Cardinality(NamesOf(t)) = Len(t)
         /\ D!IsDirectory(AccountsOf(t))
<1>0. t \in Seq(Account) /\ Len(t) \in Nat /\ DOMAIN t = 1..Len(t) /\ Unique(t) /\ Len(t) <= MaxUsers
  BY DEF IsTable
<1>1. DOMAIN AccountsOf(t) = NamesOf(t)
  BY DEF AccountsOf
<1> DEFINE f == [i \in 1..Len(t) |-> t[i].name]
<1>2. f \in Bijection(1..Len(t), NamesOf(t))
  <2>1. f \in [1..Len(t) -> NamesOf(t)]
    BY <1>0 DEF NamesOf
  <2>2. \A i, j \in 1..Len(t) : f[i] = f[j] => i = j
    BY <1>0 DEF Unique
  <2>3. \A n \in NamesOf(t) : \E i \in 1..Len(t) : f[i] = n
    BY <1>0 DEF NamesOf
  <2> HIDE DEF f
  <2> QED
    BY <2>1, <2>2, <2>3 DEF Bijection, Injection, Surjection, IsInjective
<1>3. ExistsBijection(1..Len(t), NamesOf(t))
  BY <1>2, Zenon DEF ExistsBijection
<1>4. IsFiniteSet(NamesOf(t)) /\ Cardinality(NamesOf(t)) = Len(t)
  BY <1>0, <1>3, FS_NatBijection, FS_CountingElements, Zenon
<1>5. AccountsOf(t) = [n \in DOMAIN AccountsOf(t) |-> AccountsOf(t)[n]]
  BY <1>1 DEF AccountsOf
<1>6. D!IsDirectory(AccountsOf(t))
  <2> DEFINE d == AccountsOf(t)
  <2>1. /\ d = [n \in DOMAIN d |-> d[n]] /\ D!IsFiniteSet(DOMAIN d)
        /\ D!Cardinality(DOMAIN d) <= MaxUsers
    BY <1>0, <1>1, <1>4, <1>5, SameSizes
  <2> HIDE DEF d
  <2>2. D!IsDirectory(d)
    BY <2>1, Zenon DEF D!IsDirectory
  <2> QED
    BY <2>2 DEF d
<1> QED
  BY <1>1, <1>4, <1>6

\* No accounts, before and after the server runs.
LEMMA NoAccounts ==
  /\ AccountsOf(<<>>) = D!Nobody
  /\ \A t : IsTable(t) /\ t # <<>> => AccountsOf(t) # D!Nobody
<1>1. NamesOf(<<>>) = {}
  BY DEF NamesOf
<1>2. AccountsOf(<<>>) = D!Nobody
  BY <1>1 DEF AccountsOf, D!Nobody
<1>3. ASSUME NEW t, IsTable(t), t # <<>> PROVE AccountsOf(t) # D!Nobody
  <2>1. 1 \in 1..Len(t)
    BY <1>3, EmptySeq DEF IsTable
  <2>2. DOMAIN AccountsOf(t) # {}
    BY <1>3, <2>1, AccountFound, NamesCount
  <2>3. DOMAIN D!Nobody = {}
    BY DEF D!Nobody
  <2> QED
    BY <2>2, <2>3
<1> QED
  BY <1>2, <1>3

\* user_create adds an account to the directory, unless it is full or the name
\* is taken.
LEMMA CreatedAccounts ==
  ASSUME NEW t, IsTable(t), NEW u \in Account
  PROVE  AccountsOf(Created(t, u)) =
           IF D!Takes(AccountsOf(t), u.name)
           THEN D!With(AccountsOf(t), u.name, D!Entry(u.pass, u.level))
           ELSE AccountsOf(t)
<1> DEFINE c == AccountsOf(t)
           n == u.name
           v == Created(t, u)
           d == D!With(c, n, EntryOf(u))
<1>0. /\ t \in Seq(Account) /\ Len(t) \in Nat /\ DOMAIN c = NamesOf(t)
      /\ D!Cardinality(NamesOf(t)) = Len(t) /\ u.level \in Level
  <2>1. t \in Seq(Account) /\ Len(t) \in Nat /\ u.level \in Level
    BY DEF IsTable, Account
  <2>2. DOMAIN c = NamesOf(t) /\ D!Cardinality(NamesOf(t)) = Len(t)
    BY NamesCount, SameSizes, Zenon
  <2> QED
    BY <2>1, <2>2
<1>1. D!Takes(c, n) <=> Creatable(t, u)
  BY <1>0, Zenon DEF D!Takes, Creatable
<1>2. D!Entry(u.pass, u.level) = EntryOf(u)
  BY DEF D!Entry, EntryOf
<1>3. CASE Creatable(t, u)
  <2>1. /\ v = Append(t, u) /\ IsTable(v)
        /\ \A i \in 1..Len(t) : t[i].name # n
    <3>1. v = Append(t, u)
      BY <1>3, Zenon DEF Created
    <3>2. IsTable(v)
      BY CreatedKeeps, Zenon
    <3>3. \A i \in 1..Len(t) : t[i].name # n
      BY <1>0, <1>3 DEF Creatable, NamesOf
    <3> QED
      BY <3>1, <3>2, <3>3
  <2>2. /\ Len(v) = Len(t) + 1 /\ v[Len(t) + 1] = u
        /\ \A i \in 1..Len(t) : v[i] = t[i]
    BY <1>0, <2>1, AppendProperties
  <2> HIDE DEF v
  <2>3. NamesOf(v) = NamesOf(t) \cup {n}
    <3>1. DOMAIN v = 1..(Len(t) + 1) /\ DOMAIN t = 1..Len(t)
      BY <1>0, <2>1, <2>2 DEF IsTable
    <3>2. 1..(Len(t) + 1) = 1..Len(t) \cup {Len(t) + 1}
      BY <1>0
    <3> QED
      BY <2>2, <3>1, <3>2 DEF NamesOf
  <2>4. d = [m \in NamesOf(v) |-> d[m]]
    BY <1>0, <2>3 DEF D!With
  <2>5. \A m \in NamesOf(v) : d[m] = IF m = n THEN EntryOf(u) ELSE c[m]
    BY <1>0, <2>3 DEF D!With
  <2> HIDE DEF d
  <2>6. ASSUME NEW i \in 1..Len(v) PROVE d[v[i].name] = EntryOf(v[i])
    <3>1. v[i].name \in NamesOf(v)
      BY <2>1, AccountFound
    <3>2. CASE i = Len(t) + 1
      BY <2>2, <2>5, <3>1, <3>2
    <3>3. CASE i # Len(t) + 1
      <4>1. i \in 1..Len(t)
        BY <1>0, <2>2, <3>3
      <4>2. c[t[i].name] = EntryOf(t[i])
        BY <4>1, AccountFound
      <4> QED
        BY <2>1, <2>2, <2>5, <3>1, <4>1, <4>2
    <3> QED
      BY <3>2, <3>3
  <2> HIDE DEF c, n
  <2>7. AccountsOf(v) = d
    <3>1. IsTable(v)
      BY <2>1
    <3> QED
      BY <2>4, <2>6, <3>1, SameAccounts, Zenon
  <2> QED
    BY <1>1, <1>2, <1>3, <2>7, Zenon DEF c, n, v, d
<1>4. CASE ~Creatable(t, u)
  BY <1>1, <1>4 DEF Created
<1> QED
  BY <1>3, <1>4

\* user_delete takes one account out of the directory.
LEMMA DeletedAccounts ==
  ASSUME NEW t, IsTable(t), NEW n \in NamesOf(t)
  PROVE  AccountsOf(Deleted(t, n)) = D!Without(AccountsOf(t), n)
<1> DEFINE c == AccountsOf(t)
           k == IndexOf(t, n)
           v == Deleted(t, n)
           d == D!Without(c, n)
<1>0. /\ t \in Seq(Account) /\ Len(t) \in Nat /\ DOMAIN t = 1..Len(t) /\ Unique(t)
      /\ DOMAIN c = NamesOf(t)
  BY NamesCount DEF IsTable
<1>1. k \in 1..Len(t) /\ t[k].name = n
  BY <1>0, IndexInTable
<1>2. /\ IsTable(v) /\ v \in Seq(Account) /\ Len(v) = Len(t) - 1
      /\ \A i \in 1..(Len(t) - 1) : v[i] = IF i < k THEN t[i] ELSE t[i + 1]
  BY DeletedCells, DeletedKeeps
<1> HIDE DEF k, v
<1> DEFINE at(i) == IF i < k THEN i ELSE i + 1
<1>3. \A i \in 1..Len(v) : v[i] = t[at(i)] /\ at(i) \in 1..Len(t) /\ at(i) # k
  BY <1>0, <1>1, <1>2
<1>4. \A j \in 1..Len(t) : j # k => \E i \in 1..Len(v) : j = at(i)
  <2> SUFFICES ASSUME NEW j \in 1..Len(t), j # k PROVE \E i \in 1..Len(v) : j = at(i)
    OBVIOUS
  <2>1. CASE j < k
    <3>1. j \in 1..Len(v) /\ j = at(j)
      BY <1>0, <1>1, <1>2, <2>1
    <3> QED
      BY <3>1
  <2>2. CASE ~(j < k)
    <3>1. j - 1 \in 1..Len(v) /\ j = at(j - 1)
      BY <1>0, <1>1, <1>2, <2>2
    <3> QED
      BY <3>1
  <2> QED
    BY <2>1, <2>2
<1> HIDE DEF at
<1>5. NamesOf(v) = NamesOf(t) \ {n}
  <2>1. DOMAIN v = 1..Len(v)
    BY <1>2
  <2>2. \A j \in 1..Len(t) : t[j].name = n <=> j = k
    BY <1>0, <1>1 DEF Unique
  <2>3. ASSUME NEW m \in NamesOf(v) PROVE m \in NamesOf(t) \ {n}
    <3>1. PICK i \in 1..Len(v) : m = v[i].name
      BY <2>1 DEF NamesOf
    <3> QED
      BY <1>0, <1>3, <2>2, <3>1 DEF NamesOf
  <2>4. ASSUME NEW m \in NamesOf(t) \ {n} PROVE m \in NamesOf(v)
    <3>1. PICK j \in 1..Len(t) : m = t[j].name
      BY <1>0 DEF NamesOf
    <3>2. PICK i \in 1..Len(v) : j = at(i)
      BY <1>1, <1>4, <3>1
    <3>3. m = v[i].name
      BY <1>3, <3>1, <3>2
    <3> QED
      BY <2>1, <3>3 DEF NamesOf
  <2> QED
    BY <2>3, <2>4
<1>6. d = [m \in NamesOf(v) |-> d[m]] /\ \A m \in NamesOf(v) : d[m] = c[m]
  BY <1>0, <1>5 DEF D!Without
<1> HIDE DEF d
<1>7. ASSUME NEW i \in 1..Len(v) PROVE d[v[i].name] = EntryOf(v[i])
  <2>1. v[i].name \in NamesOf(v) /\ v[i] = t[at(i)] /\ at(i) \in 1..Len(t)
    BY <1>2, <1>3, AccountFound
  <2>2. c[t[at(i)].name] = EntryOf(t[at(i)])
    BY <2>1, AccountFound
  <2> QED
    BY <1>6, <2>1, <2>2
<1> QED
  BY <1>2, <1>6, <1>7, SameAccounts DEF d, v

\* user_change_password gives one account a new password and its old level.
LEMMA ChangedAccounts ==
  ASSUME NEW t, IsTable(t), NEW n \in NamesOf(t), NEW p \in Seq(Char)
  PROVE  AccountsOf(PasswordChanged(t, n, p)) =
           D!With(AccountsOf(t), n, D!Entry(p, AccountsOf(t)[n].level))
<1> DEFINE c == AccountsOf(t)
           k == IndexOf(t, n)
           u == [t[k] EXCEPT !.pass = p]
           v == [t EXCEPT ![k] = u]
           d == D!With(c, n, EntryOf(u))
<1>0. /\ t \in Seq(Account) /\ Len(t) \in Nat /\ DOMAIN t = 1..Len(t) /\ Unique(t)
      /\ DOMAIN c = NamesOf(t)
  BY NamesCount DEF IsTable
<1>1. k \in 1..Len(t) /\ t[k].name = n
  BY <1>0, IndexInTable
<1>2. c[n] = EntryOf(t[k])
  BY <1>1, AccountFound
<1>3. PasswordChanged(t, n, p) = v
  BY DEF PasswordChanged
<1>4. IsTable(v)
  <2>1. IsTable(PasswordChanged(t, n, p))
    BY ChangedKeeps
  <2> HIDE DEF v
  <2> QED
    BY <1>3, <2>1
<1> HIDE DEF k
<1>5. t[k] \in Account
  BY <1>0, <1>1
<1>6. u \in Account /\ u.name = n /\ EntryOf(u) = D!Entry(p, c[n].level)
  BY <1>1, <1>2, <1>5 DEF Account, EntryOf, D!Entry
<1> HIDE DEF u
<1>7. Len(v) = Len(t) /\ \A i \in 1..Len(t) : v[i] = IF i = k THEN u ELSE t[i]
  BY <1>0, <1>1, <1>6, ExceptSeq
<1>8. DOMAIN v = 1..Len(t)
  BY <1>4, <1>7 DEF IsTable
<1> HIDE DEF v, c
<1>9. NamesOf(v) = NamesOf(t)
  <2>1. \A i \in 1..Len(t) : v[i].name = t[i].name
    BY <1>1, <1>6, <1>7
  <2> QED
    BY <1>0, <1>8, <2>1 DEF NamesOf
<1>10. \A m \in NamesOf(v) : d[m] = IF m = n THEN EntryOf(u) ELSE c[m]
  BY <1>0, <1>9 DEF D!With
<1>11. d = [m \in NamesOf(v) |-> d[m]]
  <2>1. NamesOf(v) = DOMAIN c \cup {n}
    BY <1>0, <1>9
  <2> QED
    BY <2>1 DEF D!With
<1> HIDE DEF d
<1>12. ASSUME NEW i \in 1..Len(v) PROVE d[v[i].name] = EntryOf(v[i])
  <2>1. v[i].name \in NamesOf(v) /\ i \in 1..Len(t)
    BY <1>4, <1>7, AccountFound
  <2>2. CASE i = k
    BY <1>6, <1>7, <1>10, <2>1, <2>2
  <2>3. CASE i # k
    <3>1. v[i] = t[i] /\ t[i].name # n
      BY <1>0, <1>1, <1>7, <2>1, <2>3 DEF Unique
    <3>2. c[t[i].name] = EntryOf(t[i])
      BY <2>1, AccountFound DEF c
    <3> QED
      BY <1>10, <2>1, <3>1, <3>2
  <2> QED
    BY <2>2, <2>3
<1>13. AccountsOf(v) = d
  BY <1>4, <1>11, <1>12, SameAccounts, Zenon
<1> QED
  BY <1>3, <1>6, <1>13, Zenon DEF c, d

\* A directory of names and passwords that are read as they were written is
\* that of such a table.
LEMMA PlainAccounts ==
  ASSUME NEW t, IsTable(t), D!IsPlain(AccountsOf(t))
  PROVE  AllPlain(t)
<1>1. t \in Seq(Account) /\ DOMAIN t = 1..Len(t)
  BY DEF IsTable
<1>2. ASSUME NEW i \in 1..Len(t) PROVE t[i].name \in PlainName /\ t[i].pass \in PlainPass
  <2>1. t[i].name \in DOMAIN AccountsOf(t) /\ AccountsOf(t)[t[i].name] = EntryOf(t[i])
    BY AccountFound, NamesCount
  <2>2. t[i].name \in PlainName /\ AccountsOf(t)[t[i].name].pass \in PlainPass
    BY <2>1 DEF D!IsPlain
  <2> QED
    BY <2>1, <2>2 DEF EntryOf
<1> QED
  BY <1>1, <1>2 DEF AllPlain

\* Accounts that stand in a table where those of another one stand are not
\* strange to it.
LEMMA KnownAccount ==
  ASSUME NEW t, IsTable(t), NEW v, IsTable(v), NEW i \in 1..Len(v), i \in 1..Len(t), v[i] = t[i]
  PROVE  v[i].name \notin D!Strange(AccountsOf(v), AccountsOf(t))
<1>1. /\ t[i].name \in DOMAIN AccountsOf(t)
      /\ AccountsOf(t)[t[i].name] = EntryOf(t[i]) /\ AccountsOf(v)[v[i].name] = EntryOf(v[i])
  BY AccountFound, NamesCount
<1> QED
  BY <1>1 DEF D!Strange

\* Of what is read from a part of the text, one account at most is not whole.
LEMMA OneStrange ==
  ASSUME NEW t, IsTable(t), NEW T, InFront(t, T), IsTable(T), NEW v, IsTable(v),
         v = T \/ \E u \in Account : v = Created(T, u)
  PROVE  \A m, n \in D!Strange(AccountsOf(v), AccountsOf(t)) : m = n
<1>1. PICK j \in 0..Len(t) : T = SubSeq(t, 1, j)
  BY DEF InFront
<1>2. /\ t \in Seq(Account) /\ Len(t) \in Nat /\ T \in Seq(Account) /\ v \in Seq(Account)
      /\ Len(v) \in Nat /\ DOMAIN v = 1..Len(v)
  BY DEF IsTable
<1>3. Len(T) = j /\ \A i \in 1..j : T[i] = t[i]
  <2>1. \A s \in Seq(Account) : \A k \in 0..Len(s) :
          Len(SubSeq(s, 1, k)) = k /\ \A i \in 1..k : SubSeq(s, 1, k)[i] = s[i]
    OBVIOUS
  <2> QED
    BY <1>1, <1>2, <2>1
<1>4. Len(v) <= j + 1 /\ \A i \in 1..j : i \in 1..Len(v) /\ v[i] = T[i]
  <2>1. CASE v = T
    BY <1>2, <1>3, <2>1
  <2>2. ASSUME NEW u \in Account, v = Created(T, u)
        PROVE  Len(v) <= j + 1 /\ \A i \in 1..j : i \in 1..Len(v) /\ v[i] = T[i]
    <3>1. CASE v = T
      BY <1>2, <1>3, <3>1
    <3>2. CASE v = Append(T, u)
      BY <1>2, <1>3, <3>2, AppendProperties
    <3> QED
      BY <2>2, <3>1, <3>2 DEF Created
  <2> QED
    BY <2>1, <2>2
<1>5. DOMAIN AccountsOf(v) = NamesOf(v)
  BY NamesCount
<1>6. ASSUME NEW m \in D!Strange(AccountsOf(v), AccountsOf(t))
      PROVE  j + 1 \in 1..Len(v) /\ m = v[j + 1].name
  <2>1. m \in NamesOf(v)
    BY <1>5 DEF D!Strange
  <2>2. PICK i \in 1..Len(v) : m = v[i].name
    BY <1>2, <2>1 DEF NamesOf
  <2>3. CASE i \in 1..j
    <3>1. i \in 1..Len(t) /\ v[i] = t[i]
      <4>1. v[i] = T[i] /\ T[i] = t[i]
        BY <1>3, <1>4, <2>3
      <4>2. i \in 1..Len(t)
        BY <1>2, <2>3
      <4> QED
        BY <4>1, <4>2
    <3>2. v[i].name \notin D!Strange(AccountsOf(v), AccountsOf(t))
      BY <3>1, KnownAccount
    <3> QED
      BY <1>6, <2>2, <3>2
  <2>4. CASE i \notin 1..j
    <3>1. i = j + 1
      BY <1>2, <1>4, <2>4
    <3> QED
      BY <2>2, <3>1
  <2> QED
    BY <2>3, <2>4
<1> QED
  BY <1>6, Zenon

\* What the text of an orderly stop, and a part of it, are worth to the next
\* start.
LEMMA SavedAccounts ==
  ASSUME NEW t, IsTable(t), NEW n \in Nat, n <= Len(Saved(t))
  PROVE  LET whole == AccountsOf(Loaded(Saved(t)))
             part  == AccountsOf(Loaded(SubSeq(Saved(t), 1, n)))
         IN  /\ D!IsDirectory(whole) /\ D!IsDirectory(part)
             /\ D!IsPlain(AccountsOf(t)) =>
                  /\ whole = AccountsOf(t)
                  /\ \A a, b \in D!Strange(part, AccountsOf(t)) : a = b
<1> DEFINE x == Saved(t)
           w == SubSeq(x, 1, n)
<1>1. x \in Seq(Char)
  BY LinesType DEF IsTable
<1>2. w \in Seq(Char)
  <2> HIDE DEF x
  <2> QED
    BY <1>1 DEF x
<1>3. IsTable(Loaded(x)) /\ IsTable(Loaded(w))
  BY <1>1, <1>2, LoadedTable
<1>4. D!IsDirectory(AccountsOf(Loaded(x))) /\ D!IsDirectory(AccountsOf(Loaded(w)))
  BY <1>3, NamesCount
<1>5. ASSUME D!IsPlain(AccountsOf(t))
      PROVE  /\ AccountsOf(Loaded(x)) = AccountsOf(t)
             /\ \A a, b \in D!Strange(AccountsOf(Loaded(w)), AccountsOf(t)) : a = b
  <2>1. AllPlain(t)
    BY <1>5, PlainAccounts
  <2>2. Loaded(x) = t
    BY <2>1, LoadedSaved
  <2>3. PICK T : /\ InFront(t, T) /\ IsTable(T)
                 /\ Loaded(w) = T \/ \E u \in Account : Loaded(w) = Created(T, u)
    BY <2>1, LoadedCut
  <2> DEFINE v == Loaded(w)
  <2>4. IsTable(v) /\ (v = T \/ \E u \in Account : v = Created(T, u))
    BY <1>3, <2>3
  <2> HIDE DEF v, w, x
  <2>5. \A a, b \in D!Strange(AccountsOf(v), AccountsOf(t)) : a = b
    BY <2>3, <2>4, OneStrange
  <2> QED
    BY <2>2, <2>5 DEF v
<1> QED
  BY <1>4, <1>5

\* The server starts with no account in memory and whatever the file it finds
\* has.
LEMMA InitIsDirectory == Init => D!Init
<1> SUFFICES ASSUME Init PROVE D!Init
  OBVIOUS
<1>1. table = <<>> /\ status = "down" /\ written = file /\ file \in Seq(Char)
  BY InitInv DEF IInv, Init
<1>2. D!IsDirectory(AccountsOf(Loaded(file)))
  BY <1>1, LoadedTable, NamesCount
<1> QED
  BY <1>1, <1>2, NoAccounts DEF D!Init

\* users_init.
LEMMA StartIsDirectory == Start => D!Start
<1> SUFFICES ASSUME Start PROVE D!Start
  OBVIOUS
<1>1. /\ status = "down" /\ status' = "starting" /\ table' = Loaded(file)
      /\ UNCHANGED <<file, written>>
  BY DEF Start
<1>2. /\ AccountsOf(table') = AccountsOf(Loaded(file))
      /\ UNCHANGED <<AccountsOf(Loaded(file)), AccountsOf(Loaded(written))>>
  BY <1>1
<1> QED
  BY <1>1, <1>2 DEF D!Start

\* An account of the option -u.
LEMMA OptionIsDirectory == IInv /\ AddOption => D!Option
<1> SUFFICES ASSUME IInv, AddOption PROVE D!Option
  OBVIOUS
<1>1. IsTable(table) /\ status = "starting" /\ UNCHANGED <<file, written, status>>
  BY DEF IInv, AddOption
<1>2. UNCHANGED <<AccountsOf(Loaded(file)), AccountsOf(Loaded(written)), status>>
  BY <1>1
<1>3. PICK n \in Name, p \in Password :
        table' = Created(table, [name |-> n, pass |-> p, level |-> USER])
  BY DEF AddOption
<1> DEFINE u == [name |-> n, pass |-> p, level |-> USER]
<1>4. u \in Account /\ u.name = n /\ u.pass = p /\ u.level = USER
  BY UsersAssumption DEF Account, Level
<1>5. table' = Created(table, u)
  BY <1>3
<1> HIDE DEF u
<1>6. AccountsOf(table') = IF D!Takes(AccountsOf(table), n)
                           THEN D!With(AccountsOf(table), n, D!Entry(p, USER))
                           ELSE AccountsOf(table)
  BY <1>1, <1>4, <1>5, CreatedAccounts
<1>7. D!Add(n, p, USER)
  BY <1>6 DEF D!Add
<1> QED
  BY <1>1, <1>2, <1>7 DEF D!Option

LEMMA RunIsDirectory == Run => D!Run
<1> SUFFICES ASSUME Run PROVE D!Run
  OBVIOUS
<1>1. /\ status = "starting" /\ status' = "running"
      /\ UNCHANGED <<table, file, written>>
  BY DEF Run
<1>2. UNCHANGED <<AccountsOf(table), AccountsOf(Loaded(file)), AccountsOf(Loaded(written))>>
  BY <1>1
<1> QED
  BY <1>1, <1>2 DEF D!Run

\* The requests: user_create, user_delete and user_change_password.
LEMMA RequestsAreDirectory == IInv => RequestsMeanAccounts
<1> SUFFICES ASSUME IInv PROVE RequestsMeanAccounts
  OBVIOUS
<1> DEFINE c == AccountsOf(table)
<1>0. IsTable(table)
  BY DEF IInv
<1>1. ASSUME NEW n \in Name, NEW p \in Password, NEW l \in Level, AddOf(n, p, l)
      PROVE  D!Add(n, p, l)
  <2> DEFINE u == [name |-> n, pass |-> p, level |-> l]
  <2>1. u \in Account /\ u.name = n /\ u.pass = p /\ u.level = l
    BY UsersAssumption DEF Account
  <2>2. table' = Created(table, u)
    BY <1>1 DEF AddOf
  <2> HIDE DEF u
  <2>3. AccountsOf(table') = IF D!Takes(c, n) THEN D!With(c, n, D!Entry(p, l)) ELSE c
    BY <1>0, <2>1, <2>2, CreatedAccounts
  <2> QED
    BY <2>3 DEF D!Add
<1>2. ASSUME NEW n \in NamesOf(table), RemoveOf(n) PROVE D!Remove(n)
  <2>1. AccountsOf(table') = D!Without(c, n)
    BY <1>0, <1>2, DeletedAccounts DEF RemoveOf
  <2> QED
    BY <2>1 DEF D!Remove
<1>3. ASSUME NEW n \in NamesOf(table), NEW p \in Password, ChangeOf(n, p) PROVE D!Change(n, p)
  <2>1. p \in Seq(Char) /\ table' = PasswordChanged(table, n, p)
    BY <1>3, UsersAssumption DEF ChangeOf
  <2>2. AccountsOf(table') = D!With(c, n, D!Entry(p, c[n].level))
    BY <1>0, <2>1, ChangedAccounts
  <2>3. n \in DOMAIN c
    BY <1>0, NamesCount
  <2> QED
    BY <2>2, <2>3 DEF D!Change
<1> QED
  BY <1>1, <1>2, <1>3 DEF RequestsMeanAccounts

LEMMA ServeIsDirectory == IInv /\ (AddUser \/ RemoveUser \/ ChangePassword) => D!Serve
<1> SUFFICES ASSUME IInv, AddUser \/ RemoveUser \/ ChangePassword PROVE D!Serve
  OBVIOUS
<1>1. RequestsMeanAccounts
  BY RequestsAreDirectory
<1>2. status = "running" /\ UNCHANGED <<file, written, status>>
  BY DEF AddUser, RemoveUser, ChangePassword, AddOf, RemoveOf, ChangeOf
<1>3. UNCHANGED <<AccountsOf(Loaded(file)), AccountsOf(Loaded(written)), status>>
  BY <1>2
<1>4. DOMAIN AccountsOf(table) = NamesOf(table)
  BY NamesCount DEF IInv
<1>5. \/ \E n \in Name, p \in Password, l \in Level : D!Add(n, p, l)
      \/ \E n \in NamesOf(table) : D!Remove(n)
      \/ \E n \in NamesOf(table), p \in Password : D!Change(n, p)
  BY <1>1, Zenon DEF RequestsMeanAccounts, AddUser, RemoveUser, ChangePassword
<1> QED
  BY <1>2, <1>3, <1>4, <1>5 DEF D!Serve

\* users_shutdown: the accounts go from memory to the stream, and the file has
\* what the stream wrote of them so far.
LEMMA ShutdownIsDirectory == IInv /\ Shutdown => D!Stop \/ D!StopUnwritten
<1> SUFFICES ASSUME IInv, Shutdown PROVE D!Stop \/ D!StopUnwritten
  OBVIOUS
<1>1. IsTable(table) /\ status = "running" /\ status' = "stopping" /\ table' = <<>>
  BY DEF IInv, Shutdown
<1>2. AccountsOf(table') = D!Nobody
  BY <1>1, NoAccounts
<1>3. CASE table = <<>>
  <2>1. UNCHANGED <<file, written>>
    BY <1>3 DEF Shutdown
  <2>2. UNCHANGED <<AccountsOf(Loaded(file)), AccountsOf(Loaded(written))>>
    BY <2>1
  <2> QED
    BY <1>1, <1>2, <2>2 DEF D!StopUnwritten
<1>4. CASE table # <<>>
  <2>1. written' = Saved(table)
    BY <1>4 DEF Shutdown
  <2>2. PICK n \in Flushed : n <= Len(written') /\ file' = SubSeq(written', 1, n)
    BY <1>4 DEF Shutdown
  <2>3. AccountsOf(table) # D!Nobody
    BY <1>1, <1>4, NoAccounts
  <2> DEFINE c == AccountsOf(table)
             whole == AccountsOf(Loaded(written'))
             part == AccountsOf(Loaded(file'))
  <2>4. /\ D!IsDirectory(whole) /\ D!IsDirectory(part)
        /\ D!IsPlain(c) => whole = c /\ \A a, b \in D!Strange(part, c) : a = b
    <3>1. n \in Nat /\ n <= Len(Saved(table)) /\ file' = SubSeq(Saved(table), 1, n)
      BY <2>1, <2>2, UsersAssumption
    <3>2. /\ D!IsDirectory(AccountsOf(Loaded(Saved(table))))
          /\ D!IsDirectory(AccountsOf(Loaded(SubSeq(Saved(table), 1, n))))
          /\ D!IsPlain(c) =>
               /\ AccountsOf(Loaded(Saved(table))) = c
               /\ \A a, b \in D!Strange(AccountsOf(Loaded(SubSeq(Saved(table), 1, n))), c) : a = b
      BY <1>1, <3>1, SavedAccounts
    <3> QED
      BY <2>1, <3>1, <3>2
  <2> QED
    BY <1>1, <1>2, <2>3, <2>4 DEF D!Stop
<1> QED
  BY <1>3, <1>4

LEMMA ShutdownFailsIsDirectory == ShutdownFails => D!StopUnwritten
<1> SUFFICES ASSUME ShutdownFails PROVE D!StopUnwritten
  OBVIOUS
<1>1. /\ status = "running" /\ status' = "stopping" /\ table' = <<>>
      /\ UNCHANGED <<file, written>>
  BY DEF ShutdownFails
<1>2. /\ AccountsOf(table') = D!Nobody
      /\ UNCHANGED <<AccountsOf(Loaded(file)), AccountsOf(Loaded(written))>>
  BY <1>1, NoAccounts
<1> QED
  BY <1>1, <1>2 DEF D!StopUnwritten

\* The text of the stream reaches the file.
LEMMA ExitIsDirectory == Exit => D!Exit
<1> SUFFICES ASSUME Exit PROVE D!Exit
  OBVIOUS
<1>1. /\ status = "stopping" /\ status' = "down" /\ file' = written
      /\ UNCHANGED <<table, written>>
  BY DEF Exit
<1>2. /\ AccountsOf(Loaded(file')) = AccountsOf(Loaded(written))
      /\ UNCHANGED <<AccountsOf(table), AccountsOf(Loaded(written))>>
  BY <1>1
<1> QED
  BY <1>1, <1>2 DEF D!Exit

\* What the stream still has is lost.
LEMMA CrashIsDirectory == Crash => D!Crash
<1> SUFFICES ASSUME Crash PROVE D!Crash
  OBVIOUS
<1>1. /\ status \in {"starting", "running", "stopping"} /\ status' = "down" /\ table' = <<>>
      /\ written' = file /\ file' = file
  BY DEF Crash
<1>2. /\ AccountsOf(table') = D!Nobody
      /\ AccountsOf(Loaded(written')) = AccountsOf(Loaded(file))
      /\ UNCHANGED AccountsOf(Loaded(file))
  BY <1>1, NoAccounts
<1> QED
  BY <1>1, <1>2 DEF D!Crash

LEMMA NextIsDirectory == IInv /\ [Next]_vars => [D!Next]_(D!vars)
<1> SUFFICES ASSUME IInv, [Next]_vars PROVE D!Next \/ UNCHANGED D!vars
  OBVIOUS
<1>1. CASE Start
  BY <1>1, StartIsDirectory DEF D!Next
<1>2. CASE AddUser \/ RemoveUser \/ ChangePassword
  BY <1>2, ServeIsDirectory DEF D!Next
<1>3. CASE Shutdown
  BY <1>3, ShutdownIsDirectory DEF D!Next
<1>4. CASE ShutdownFails
  BY <1>4, ShutdownFailsIsDirectory DEF D!Next
<1>5. CASE Exit
  BY <1>5, ExitIsDirectory DEF D!Next
<1>6. CASE Crash
  BY <1>6, CrashIsDirectory DEF D!Next
<1>7. CASE UNCHANGED vars
  <2>1. UNCHANGED <<table, file, written, status>>
    BY <1>7 DEF vars
  <2> QED
    BY <2>1 DEF D!vars
<1>8. CASE AddOption
  BY <1>8, OptionIsDirectory DEF D!Next
<1>9. CASE Run
  BY <1>9, RunIsDirectory DEF D!Next
<1> QED
  BY <1>1, <1>2, <1>3, <1>4, <1>5, <1>6, <1>7, <1>8, <1>9 DEF Next

\* Whatever the requests, stops, crashes and starts, the array with its scans
\* and moves, and the text it is written as and read from, are one map from
\* names to accounts: users.c implements Directory.tla.  What an orderly stop keeps
\* is what it found if parse_user reads every name and password as it was written;
\* otherwise it is some directory.  What a crash in the middle of a stop keeps is
\* then, but for one account at most, part of it (users.c:22-301).
THEOREM UsersImplementDirectory == Spec => AccountsAreADirectory
<1>1. Init => D!Init
  BY InitIsDirectory
<1>2. IInv /\ [Next]_vars => [D!Next]_(D!vars)
  BY NextIsDirectory
<1>3. IInv => [RequestsMeanAccounts]_vars
  BY RequestsAreDirectory
<1> QED
  BY <1>1, <1>2, <1>3, SpecInv, PTL DEF Spec, AccountsAreADirectory, D!Spec
=============================================================================
