-------------------------- MODULE MonitorTheorems --------------------------
(***************************************************************************)
(* The monitor for any number of administrators, names, passwords and      *)
(* methods, and tables of any size: proofs.                                *)
(***************************************************************************)
EXTENDS Monitor, CommonLemmas, FiniteSetTheorems, SequenceTheorems

\* What a session has gone through, by the state it is in.
SessionInv(c) ==
  /\ c.state \in {"new", "AUTH"} =>
       /\ c.wants = {"R"} /\ c.level = ADMIN /\ c.told = <<>>
       /\ c.login = NOBODY /\ c.done = FALSE /\ c.fate = "open" /\ c.read = 0
  /\ c.state = "REQ" =>
       /\ c.login = ADMIN /\ c.told = <<0>>
       /\ \/ c.wants = {"R"} /\ c.done = FALSE /\ c.fate \in {"open", "hangup", "stopped"}
          \/ c.wants = {"W"} /\ c.done = TRUE /\ c.ended = TRUE /\ c.fate = "open"
       /\ c.ended = FALSE \/ c.fate # "open" => c.read = 0
  /\ c.state = "closed" =>
       /\ ReplyAccepts(c.told) => c.login = ADMIN \/ c.fate \in {"hangup", "stopped"}
       /\ c.told = <<0, 0>> => c.done /\ c.login = ADMIN /\ c.fate = "answered"
       /\ c.done => c.fate \in {"answered", "lost", "stopped"}
       /\ c.fate = "refused" => ~c.done /\ (c.login = ADMIN => c.told = <<0>>)

Account == [name : Name, pass : Password, level : Level]

\* Only a session that ends leaves the process broken, and as long as it runs
\* none has.
Broken ==
  /\ status = "broken" => \E s \in Admin : conn[s].state = "REQ" /\ conn[s].fate # "open"
  /\ status = "running" => \A s \in Admin : conn[s].state = "REQ" => conn[s].fate = "open"

Fate == {"none", "open", "answered", "refused", "lost", "hangup", "stopped"}

IInv ==
  /\ conn \in [Admin -> Conn]
  /\ table \in Seq(Account) /\ Len(table) <= MaxUsers
  /\ methods \in [1..Cells -> {END} \cup Supported]
  /\ agreed \in Answers
  /\ status \in {"running", "stopped", "broken"}
  /\ \A s \in Admin : SessionInv(conn[s])
  /\ MethodsAsAnswered
  /\ Broken
-----------------------------------------------------------------------------
(* The table of accounts.                                                  *)

\* get_user_index finds the first account with the name.
LEMMA IndexIsFirst ==
  ASSUME NEW t \in Seq(Account), NEW n \in NamesOf(t)
  PROVE  /\ IndexOf(t, n) \in DOMAIN t /\ t[IndexOf(t, n)].name = n
         /\ \A j \in 1..(IndexOf(t, n) - 1) : t[j].name # n
<1> DEFINE S == {i \in DOMAIN t : t[i].name = n}
<1>1. S \in SUBSET Nat /\ S # {}
  BY DEF NamesOf
<1>2. PICK m \in S : \A x \in S : m <= x
  BY <1>1, Least, Zenon
<1>3. \A j \in 1..(m - 1) : j \in DOMAIN t /\ j < m
  BY <1>2
<1>4. m \in DOMAIN t /\ t[m].name = n /\ \A j \in 1..(m - 1) : t[j].name # n
  BY <1>2, <1>3
<1> QED
  BY <1>4, Zenon DEF IndexOf

LEMMA CreatedTable ==
  ASSUME NEW t \in Seq(Account), Len(t) <= MaxUsers,
         NEW n \in Name, NEW p \in Password, NEW l
  PROVE  LET u == [name |-> n, pass |-> p, level |-> l] IN
         /\ Created(t, u) \in Seq(Account) /\ Len(Created(t, u)) <= MaxUsers
         /\ Creatable(t, u) <=> Created(t, u) # t
<1> DEFINE u == [name |-> n, pass |-> p, level |-> l]
<1>0. MaxUsers \in Nat
  BY AccountsAssumption
<1>1. CASE Creatable(t, u)
  <2>1. u \in Account /\ Len(t) < MaxUsers
    BY <1>1 DEF Creatable, Account
  <2>2. Append(t, u) \in Seq(Account) /\ Len(Append(t, u)) = Len(t) + 1 /\ Append(t, u) # t
    BY <2>1
  <2> QED
    BY <1>0, <1>1, <2>1, <2>2 DEF Created
<1>2. CASE ~Creatable(t, u)
  BY <1>2 DEF Created
<1> QED
  BY <1>1, <1>2

LEMMA DeletedTable ==
  ASSUME NEW t \in Seq(Account), Len(t) <= MaxUsers, NEW n \in Name
  PROVE  /\ Deleted(t, n) \in Seq(Account) /\ Len(Deleted(t, n)) <= MaxUsers
         /\ n \in NamesOf(t) <=> Deleted(t, n) # t
<1>0. MaxUsers \in Nat
  BY AccountsAssumption
<1>1. CASE n \in NamesOf(t)
  <2> DEFINE k == IndexOf(t, n)
  <2>1. k \in 1..Len(t)
    BY <1>1, IndexIsFirst
  <2> HIDE DEF k
  <2>2. /\ SubSeq(t, 1, k - 1) \in Seq(Account) /\ Len(SubSeq(t, 1, k - 1)) = k - 1
        /\ SubSeq(t, k + 1, Len(t)) \in Seq(Account) /\ Len(SubSeq(t, k + 1, Len(t))) = Len(t) - k
    BY <2>1
  <2>3. RemoveAt(t, k) \in Seq(Account) /\ Len(RemoveAt(t, k)) = Len(t) - 1
    <3> DEFINE a == SubSeq(t, 1, k - 1)
               b == SubSeq(t, k + 1, Len(t))
    <3>1. a \in Seq(Account) /\ b \in Seq(Account) /\ Len(a) = k - 1 /\ Len(b) = Len(t) - k
      BY <2>2
    <3> HIDE DEF a, b
    <3>2. a \o b \in Seq(Account) /\ Len(a \o b) = Len(a) + Len(b)
      BY <3>1
    <3>3. Len(a \o b) = Len(t) - 1
      BY <2>1, <3>1, <3>2
    <3> QED
      BY <3>2, <3>3, Zenon DEF RemoveAt, a, b
  <2> QED
    BY <1>0, <1>1, <2>3 DEF Deleted, k
<1>2. CASE n \notin NamesOf(t)
  BY <1>2 DEF Deleted
<1> QED
  BY <1>1, <1>2

LEMMA ChangedTable ==
  ASSUME NEW t \in Seq(Account), NEW n \in Name, NEW p \in Password
  PROVE  LET u == PasswordChanged(t, n, p) IN
         /\ u \in Seq(Account) /\ Len(u) = Len(t)
         /\ n \in NamesOf(t) <=> n \in NamesOf(u) /\ u[IndexOf(u, n)].pass = p
         /\ n \notin NamesOf(t) => u = t
<1> DEFINE u == PasswordChanged(t, n, p)
<1>1. CASE n \in NamesOf(t)
  <2> DEFINE k == IndexOf(t, n)
  <2>1. k \in DOMAIN t /\ t[k].name = n /\ \A j \in 1..(k - 1) : t[j].name # n
    BY <1>1, IndexIsFirst
  <2> HIDE DEF k
  <2>2. u = [t EXCEPT ![k] = [t[k] EXCEPT !.pass = p]]
    BY <1>1 DEF PasswordChanged, k
  <2> HIDE DEF u
  <2>3. t[k] \in Account /\ [t[k] EXCEPT !.pass = p] \in Account
    <3>1. t[k] \in Account
      BY <2>1
    <3> QED
      BY <3>1 DEF Account
  <2>4. u \in Seq(Account) /\ Len(u) = Len(t) /\ DOMAIN u = DOMAIN t
    BY <2>1, <2>2, <2>3
  <2>5. \A i \in DOMAIN t : u[i].name = t[i].name
    BY <2>1, <2>2, <2>3 DEF Account
  <2>6. u[k].pass = p
    BY <2>1, <2>2, <2>3 DEF Account
  <2>7. n \in NamesOf(u)
    BY <2>1, <2>4, <2>5 DEF NamesOf
  <2>8. /\ IndexOf(u, n) \in DOMAIN u /\ u[IndexOf(u, n)].name = n
        /\ \A j \in 1..(IndexOf(u, n) - 1) : u[j].name # n
    BY <2>4, <2>7, IndexIsFirst
  <2>9. IndexOf(u, n) = k
    <3> DEFINE i == IndexOf(u, n)
    <3> HIDE DEF i
    <3>1. i \in 1..Len(t) /\ k \in 1..Len(t)
      BY <2>1, <2>4, <2>8 DEF i
    <3>2. ~(i < k)
      BY <2>1, <2>4, <2>5, <2>8, <3>1 DEF i
    <3>3. ~(k < i)
      BY <2>1, <2>4, <2>5, <2>8, <3>1 DEF i
    <3> QED
      BY <3>1, <3>2, <3>3 DEF i
  <2> QED
    BY <1>1, <2>4, <2>6, <2>7, <2>9 DEF u
<1>2. CASE n \notin NamesOf(t)
  BY <1>2 DEF PasswordChanged
<1> QED
  BY <1>1, <1>2
-----------------------------------------------------------------------------
(* The list of methods.                                                    *)

\* What is stored of a list are its entries before the first one that is not
\* supported.
LEMMA StoredPrefix ==
  ASSUME NEW n \in Nat, NEW l \in [1..n -> Methods]
  PROVE  /\ Len(l) = n /\ DOMAIN l = 1..n
         /\ Stored(l) \in 0..n
         /\ \A i \in 1..Stored(l) : l[i] \in Supported
<1> DEFINE P == {i \in DOMAIN l : \A j \in 1..i : l[j] \in Supported}
<1>1. Len(l) = n /\ DOMAIN l = 1..n
  OBVIOUS
<1>2. P \subseteq 1..n
  BY <1>1
<1>3. \A k \in Nat : IsFiniteSet(1..k) /\ Cardinality(1..k) = k
  BY FS_Interval
<1>4. IsFiniteSet(P) /\ Cardinality(P) <= n /\ Cardinality(P) \in Nat
  BY <1>2, <1>3, FS_Subset, FS_CardinalityType
<1>5. \A i \in 1..Cardinality(P) : i \in P
  <2> SUFFICES ASSUME NEW i \in 1..Cardinality(P), i \notin P PROVE FALSE
    OBVIOUS
  <2>1. \A q \in P : q < i
    <3> SUFFICES ASSUME NEW q \in P, q >= i PROVE i \in P
      BY <1>2
    <3>1. i \in DOMAIN l /\ q \in 1..n
      BY <1>1, <1>2, <1>4
    <3>2. \A j \in 1..i : j \in 1..q
      BY <3>1
    <3> QED
      BY <3>1, <3>2
  <2>2. P \subseteq 1..(i - 1) /\ i - 1 \in Nat
    BY <1>2, <1>4, <2>1
  <2>3. Cardinality(P) <= i - 1
    BY <1>3, <2>2, FS_Subset
  <2> QED
    BY <1>4, <2>3
<1>6. \A i \in P : l[i] \in Supported
  BY <1>2
<1>7. Stored(l) = Cardinality(P)
  BY DEF Stored
<1> HIDE DEF P
<1> QED
  BY <1>1, <1>4, <1>5, <1>6, <1>7

\* A list that is stored whole is what is accepted, whatever was there before, if
\* its end is where the scan gets to.
LEMMA ListStored ==
  ASSUME NEW m \in [1..Cells -> {END} \cup Supported],
         NEW n \in 0..(Cells - 1), NEW l \in [1..n -> Methods]
  PROVE  /\ MethodsChanged(m, l) \in [1..Cells -> {END} \cup Supported]
         /\ Stored(l) = Len(l) =>
              /\ Len(l) \in 0..(Cells - 1)
              /\ ScanEnds(MethodsChanged(m, l)) <=> Len(l) <= LastIndex
              /\ ScanEnds(MethodsChanged(m, l)) =>
                   AcceptedMethods(MethodsChanged(m, l)) = {l[i] : i \in DOMAIN l}
              /\ {l[i] : i \in DOMAIN l} \in SUBSET Supported
<1> DEFINE k == Stored(l)
           new == Overwritten(m, l, k)
<1>1. /\ Len(l) = n /\ DOMAIN l = 1..n /\ k \in 0..n
      /\ \A i \in 1..k : l[i] \in Supported
  BY StoredPrefix, MonitorAssumption
<1>2. Cells \in Nat /\ LastIndex \in 1..(Cells - 1)
  BY MonitorAssumption
<1> HIDE DEF k
<1>3. new \in [1..Cells -> {END} \cup Supported]
  BY <1>1, <1>2 DEF Overwritten
<1>4. MethodsChanged(m, l) = IF k = n THEN [new EXCEPT ![k + 1] = END] ELSE new
  BY <1>1 DEF MethodsChanged, k
<1>5. CASE k = n
  <2> DEFINE c == [new EXCEPT ![k + 1] = END]
  <2>1. k + 1 \in 1..Cells
    BY <1>1, <1>2
  <2>2. c \in [1..Cells -> {END} \cup Supported] /\ c[k + 1] = END
    BY <1>3, <2>1
  <2>3. \A i \in 1..k : c[i] = l[i] /\ c[i] \in Supported /\ c[i] # END
    <3> SUFFICES ASSUME NEW i \in 1..k PROVE c[i] = l[i] /\ l[i] \in Supported /\ l[i] # END
      OBVIOUS
    <3>1. i \in 1..Cells /\ i # k + 1 /\ i <= k
      BY <1>1, <1>2
    <3>2. new[i] = l[i]
      BY <3>1 DEF Overwritten
    <3> QED
      BY <1>1, <1>3, <3>1, <3>2 DEF Supported, END, NO_AUTH, USER_PASS
  <2> HIDE DEF c
  <2>4. /\ Scanned(c) = 1..(LastIndex + 1)
        /\ \A i \in 1..Cells : (\A j \in 1..i : c[j] # END) <=> i \in 1..k
    BY <1>1, <1>2, <2>1, <2>2, <2>3 DEF Scanned
  <2>5. ScanEnds(c) <=> k <= LastIndex
    <3>1. CASE k <= LastIndex
      BY <1>1, <1>2, <2>2, <2>4, <3>1 DEF ScanEnds
    <3>2. CASE ~(k <= LastIndex)
      BY <1>1, <1>2, <2>3, <2>4, <3>2 DEF ScanEnds
    <3> QED
      BY <3>1, <3>2
  <2>6. k <= LastIndex => AcceptedMethods(c) = {l[i] : i \in DOMAIN l}
    <3> SUFFICES ASSUME k <= LastIndex PROVE AcceptedMethods(c) = {l[i] : i \in DOMAIN l}
      OBVIOUS
    <3>1. {i \in Scanned(c) : \A j \in 1..i : c[j] # END} = 1..k
      BY <1>1, <1>2, <2>4
    <3> QED
      BY <1>1, <1>5, <2>3, <3>1 DEF AcceptedMethods
  <2>7. {l[i] : i \in DOMAIN l} \in SUBSET Supported
    BY <1>1, <1>5
  <2> QED
    BY <1>1, <1>2, <1>4, <1>5, <2>2, <2>5, <2>6, <2>7 DEF c
<1>6. CASE k # n
  BY <1>1, <1>3, <1>4, <1>6 DEF k
<1> QED
  BY <1>5, <1>6
-----------------------------------------------------------------------------
(* One session.                                                            *)

LEMMA ClosedSession ==
  ASSUME NEW c \in Conn, NEW f \in Fate, NEW b \in Seq(0..5), NEW d, d = Closed(c, f, b)
  PROVE  /\ d \in Conn
         /\ d.state = "closed" /\ d.fate = f /\ d.told = c.told \o b
         /\ d.login = c.login /\ d.done = c.done
<1>1. c.told \in Seq(0..5)
  BY DEF Conn
<1>2. c.told \o b \in Seq(0..5)
  BY <1>1
<1>3. 0 \in 0..(Cells - 1) /\ ADMIN \in Level
  BY MonitorAssumption DEF Level
<1> QED
  BY <1>2, <1>3 DEF Closed, Conn, Fate

\* A session that ends without another byte was told what it was told before.
LEMMA ClosedInSilence ==
  ASSUME NEW c \in Conn, NEW f \in Fate, NEW d, d = Closed(c, f, <<>>)
  PROVE  /\ d \in Conn
         /\ d.state = "closed" /\ d.fate = f /\ d.told = c.told
         /\ d.login = c.login /\ d.done = c.done
<1>1. c.told \in Seq(0..5)
  BY DEF Conn
<1>2. c.told \o <<>> = c.told
  BY <1>1, ConcatEmptySeq
<1>3. 0 \in 0..(Cells - 1) /\ ADMIN \in Level
  BY MonitorAssumption DEF Level
<1> QED
  BY <1>1, <1>2, <1>3 DEF Closed, Conn, Fate

\* What one session does leaves the others as they were.
LEMMA SessionStep ==
  ASSUME IInv, NEW s \in Admin, NEW c \in Conn, SessionInv(c),
         c.state = "REQ" => c.fate = "open",
         conn' = [conn EXCEPT ![s] = c], status = "running", status' = status
  PROVE  /\ conn' \in [Admin -> Conn] /\ \A x \in Admin : SessionInv(conn'[x])
         /\ status' \in {"running", "stopped", "broken"} /\ Broken'
<1>1. conn \in [Admin -> Conn] /\ \A x \in Admin : SessionInv(conn[x])
  BY DEF IInv
<1>2. conn' \in [Admin -> Conn]
  BY <1>1
<1>3. \A x \in Admin : SessionInv(conn'[x])
  BY <1>1
<1>4. Broken'
  BY <1>1 DEF IInv, Broken
<1> QED
  BY <1>2, <1>3, <1>4

LEMMA AcceptKeeps == ASSUME IInv, NEW s \in Admin, Accept(s) PROVE IInv'
<1>1. Fresh \in Conn /\ SessionInv(Fresh)
  <2>1. 0 \in 0..(Cells - 1) /\ ADMIN \in Level /\ <<>> \in Seq(0..5)
    BY MonitorAssumption DEF Level
  <2> QED
    BY <2>1 DEF Fresh, Conn, SessionInv
<1>2. /\ conn' = [conn EXCEPT ![s] = Fresh] /\ status = "running" /\ status' = status
      /\ UNCHANGED <<table, methods, agreed>> /\ Fresh.state = "new"
  BY DEF Accept, Become, Fresh
<1> QED
  BY <1>1, <1>2, SessionStep DEF IInv, MethodsAsAnswered

\* A session that logs in.
LEMMA AuthKeeps == ASSUME IInv, NEW s \in Admin, Auth(s) PROVE IInv'
<1> DEFINE c == conn[s]
<1>1. /\ Can(s, "R", {"new", "AUTH"}) /\ status = "running" /\ c.state \in {"new", "AUTH"}
      /\ UNCHANGED <<table, methods, agreed, status>>
  BY DEF Auth, AuthMore, AuthGone, LoginFails, Login, Can
<1>2. c \in Conn /\ SessionInv(c)
  BY DEF IInv
<1>3. /\ c.wants = {"R"} /\ c.level = ADMIN /\ c.told = <<>> /\ c.read = 0
      /\ c.login = NOBODY /\ c.done = FALSE /\ c.fate = "open"
  BY <1>1, <1>2 DEF SessionInv
<1>4. SUFFICES ASSUME NEW d \in Conn, SessionInv(d), d.state = "REQ" => d.fate = "open",
                      conn' = [conn EXCEPT ![s] = d]
               PROVE  IInv'
  <2>1. CASE AuthMore(s)
    <3> DEFINE d == [c EXCEPT !.state = "AUTH"]
    <3>1. d \in Conn /\ SessionInv(d) /\ d.state # "REQ" /\ conn' = [conn EXCEPT ![s] = d]
      BY <1>2, <1>3, <2>1 DEF AuthMore, Become, Conn, SessionInv
    <3> QED
      BY <1>4, <3>1
  <2>2. CASE AuthGone(s)
    <3> DEFINE b == <<Departure(c), IO_ERROR>>
               d == Closed(c, "hangup", b)
    <3>1. b \in Seq(0..5) /\ "hangup" \in Fate
      BY DEF Departure, IO_ERROR, Fate
    <3>2. /\ d \in Conn /\ d.state = "closed" /\ d.fate = "hangup" /\ d.done = c.done
          /\ d.told = c.told \o b
      <4> HIDE DEF b, c
      <4>1. d = Closed(c, "hangup", b)
        OBVIOUS
      <4> HIDE DEF d
      <4> QED
        BY <1>2, <3>1, <4>1, ClosedSession
    <3>3. d.told # <<0, 0>>
      <4>1. d.told = b
        BY <1>3, <3>1, <3>2
      <4> QED
        BY <4>1 DEF IO_ERROR
    <3>4. conn' = [conn EXCEPT ![s] = d]
      BY <2>2 DEF AuthGone, Become
    <3> HIDE DEF d
    <3>5. SessionInv(d)
      BY <1>3, <3>2, <3>3 DEF SessionInv
    <3> QED
      BY <1>4, <3>2, <3>4, <3>5
  <2>3. ASSUME NEW n \in Name, NEW p \in Password
        PROVE  LET l == LoggedIn(c, n, p) IN
               /\ l \in Conn /\ l.state = c.state /\ l.wants = {"R"} /\ l.told = <<>>
               /\ l.read = 0 /\ l.done = FALSE /\ l.fate = "open"
               /\ LoginError(n, p) = NO_ERROR => l.login = ADMIN /\ l.level = ADMIN
               /\ LoginError(n, p) # NO_ERROR => l.login # ADMIN
               /\ LoginError(n, p) \in 0..5
    <3>1. CASE Matches(n, p)
      <4> DEFINE v == table[IndexOf(table, n)].level
      <4>1. v \in Level
        <5>1. table \in Seq(Account) /\ n \in NamesOf(table)
          BY <3>1 DEF IInv, Matches
        <5>2. IndexOf(table, n) \in DOMAIN table
          BY <5>1, IndexIsFirst
        <5>3. table[IndexOf(table, n)] \in Account
          BY <5>1, <5>2
        <5> QED
          BY <5>3 DEF Account
      <4>2. LoggedIn(c, n, p) = [c EXCEPT !.level = v, !.login = v]
        BY <3>1 DEF LoggedIn
      <4>3. LoginError(n, p) = IF v # ADMIN THEN LACKS_PRIVILEGE ELSE NO_ERROR
        BY <3>1 DEF LoginError, Matches
      <4> HIDE DEF v
      <4>4. /\ LoggedIn(c, n, p) \in Conn
            /\ LoggedIn(c, n, p).login = v /\ LoggedIn(c, n, p).level = v
            /\ LoggedIn(c, n, p).state = c.state /\ LoggedIn(c, n, p).wants = c.wants
            /\ LoggedIn(c, n, p).told = c.told /\ LoggedIn(c, n, p).read = c.read
            /\ LoggedIn(c, n, p).done = c.done /\ LoggedIn(c, n, p).fate = c.fate
        BY <1>2, <4>1, <4>2 DEF Conn
      <4> QED
        BY <1>3, <4>3, <4>4 DEF LACKS_PRIVILEGE, NO_ERROR
    <3>2. CASE ~Matches(n, p)
      <4>1. LoggedIn(c, n, p) = c
        BY <3>2 DEF LoggedIn
      <4>2. LoginError(n, p) \in {USER_NOT_FOUND, WRONG_PASSWORD}
        BY <3>2 DEF LoginError
      <4> QED
        BY <1>2, <1>3, <4>1, <4>2
           DEF USER_NOT_FOUND, WRONG_PASSWORD, NO_ERROR, NOBODY, ADMIN
    <3> QED
      BY <3>1, <3>2
  <2>4. CASE LoginFails(s)
    <3>1. PICK n \in Name, p \in Password :
            /\ LoginError(n, p) # NO_ERROR
            /\ conn' = [conn EXCEPT ![s] = Closed(LoggedIn(c, n, p), "refused",
                          LoginRefusal(LoggedIn(c, n, p), LoginError(n, p)))]
      BY <2>4 DEF LoginFails, Become
    <3> DEFINE l == LoggedIn(c, n, p)
               b == LoginRefusal(l, LoginError(n, p))
               d == Closed(l, "refused", b)
    <3>2. /\ l \in Conn /\ l.told = <<>> /\ l.done = FALSE /\ l.login # ADMIN
          /\ LoginError(n, p) \in 0..5
      BY <2>3, <3>1
    <3> HIDE DEF l
    <3>3. b \in Seq(0..5) /\ b[1] = 1 /\ b # <<>> /\ Len(b) = 3 /\ "refused" \in Fate
      BY <3>2 DEF LoginRefusal, Departure, Fate
    <3> HIDE DEF b
    <3>4. /\ d \in Conn /\ d.state = "closed" /\ d.fate = "refused" /\ d.done = l.done
          /\ d.login = l.login /\ d.told = l.told \o b
      <4>1. d = Closed(l, "refused", b)
        OBVIOUS
      <4> HIDE DEF d
      <4>2. l \in Conn /\ "refused" \in Fate /\ b \in Seq(0..5)
        BY <3>2, <3>3
      <4> QED
        BY <4>1, <4>2, ClosedSession
    <3>5. d.told = b
      BY <3>2, <3>3, <3>4
    <3>6. d.told # <<0, 0>> /\ ~ReplyAccepts(d.told)
      BY <3>3, <3>5 DEF ReplyAccepts
    <3>7. conn' = [conn EXCEPT ![s] = d]
      BY <3>1 DEF l, b
    <3> HIDE DEF d
    <3>8. SessionInv(d)
      BY <3>2, <3>4, <3>6 DEF SessionInv
    <3> QED
      BY <1>4, <3>4, <3>7, <3>8
  <2>5. CASE Login(s)
    <3>1. PICK n \in Name, p \in Password :
            /\ LoginError(n, p) = NO_ERROR
            /\ conn' = [conn EXCEPT ![s] = [LoggedIn(c, n, p) EXCEPT
                          !.state = "REQ", !.told = <<Departure(LoggedIn(c, n, p))>>]]
      BY <2>5 DEF Login, Become
    <3> DEFINE l == LoggedIn(c, n, p)
               d == [l EXCEPT !.state = "REQ", !.told = <<Departure(l)>>]
    <3>2. /\ l \in Conn /\ l.wants = {"R"} /\ l.read = 0 /\ l.done = FALSE /\ l.fate = "open"
          /\ l.login = ADMIN /\ l.level = ADMIN
      BY <2>3, <3>1
    <3>3. conn' = [conn EXCEPT ![s] = d]
      BY <3>1
    <3> HIDE DEF l
    <3>4. Departure(l) = 0 /\ <<0>> \in Seq(0..5)
      BY <3>2 DEF Departure
    <3>5. /\ d \in Conn /\ d.state = "REQ" /\ d.told = <<0>> /\ d.wants = {"R"} /\ d.read = 0
          /\ d.done = FALSE /\ d.fate = "open" /\ d.login = ADMIN
      BY <3>2, <3>4 DEF Conn
    <3> HIDE DEF d
    <3>6. SessionInv(d)
      BY <3>5 DEF SessionInv
    <3> QED
      BY <1>4, <3>3, <3>5, <3>6
  <2> QED
    BY <2>1, <2>2, <2>4, <2>5 DEF Auth
<1> QED
  BY <1>1, <1>4, SessionStep DEF IInv, MethodsAsAnswered

\* A session that is being read from in MONITOR_REQ.
LEMMA Reading ==
  ASSUME IInv, NEW s \in Admin, Can(s, "R", {"REQ"})
  PROVE  /\ status = "running" /\ conn[s] \in Conn /\ conn[s].state = "REQ"
         /\ conn[s].wants = {"R"} /\ conn[s].told = <<0>> /\ conn[s].login = ADMIN
         /\ conn[s].done = FALSE /\ conn[s].fate = "open"
         /\ conn[s].ended = FALSE => conn[s].read = 0
<1>1. /\ status = "running" /\ "R" \in conn[s].wants /\ conn[s].state = "REQ"
      /\ conn[s] \in Conn /\ SessionInv(conn[s]) /\ Broken
  BY DEF Can, IInv
<1> QED
  BY <1>1 DEF SessionInv, Broken

\* A request that was handled: the session is answered if and only if the
\* request took effect.
LEMMA HandledStep ==
  ASSUME IInv, NEW s \in Admin, Can(s, "R", {"REQ"}),
         NEW ok, NEW done \in BOOLEAN, ok <=> done, Handled(s, ok, done)
  PROVE  /\ conn' \in [Admin -> Conn] /\ \A x \in Admin : SessionInv(conn'[x])
         /\ status' \in {"running", "stopped", "broken"} /\ Broken'
<1> DEFINE c == conn[s]
<1>1. /\ status = "running" /\ c \in Conn /\ c.state = "REQ" /\ c.wants = {"R"}
      /\ c.told = <<0>> /\ c.login = ADMIN /\ c.done = FALSE /\ c.fate = "open"
  BY Reading
<1>2. PICK d \in Conn : /\ SessionInv(d)
                        /\ d.state = "REQ" => d.fate = "open"
                        /\ conn' = [conn EXCEPT ![s] = d] /\ status' = status
  <2>1. CASE ok
    <3> DEFINE d == [c EXCEPT !.wants = {"W"}, !.type = "none", !.read = 0,
                             !.ended = TRUE, !.done = done]
    <3>1. conn' = [conn EXCEPT ![s] = d] /\ status' = status
      BY <2>1 DEF Handled, Become
    <3>2. done = TRUE /\ 0 \in 0..(Cells - 1)
      BY <2>1, MonitorAssumption
    <3> HIDE DEF c
    <3>3. /\ d \in Conn /\ d.state = "REQ" /\ d.wants = {"W"} /\ d.read = 0 /\ d.ended = TRUE
          /\ d.done = TRUE /\ d.told = <<0>> /\ d.login = ADMIN /\ d.fate = "open"
      BY <1>1, <3>2 DEF Conn
    <3> HIDE DEF d
    <3>4. SessionInv(d)
      BY <3>3 DEF SessionInv
    <3> QED
      BY <3>1, <3>3, <3>4
  <2>2. CASE ~ok
    <3> DEFINE e == [c EXCEPT !.done = done]
               d == Closed(e, "refused", <<>>)
    <3>1. conn' = [conn EXCEPT ![s] = d] /\ status' = status
      BY <2>2 DEF Handled, Become
    <3>2. done = FALSE /\ "refused" \in Fate /\ <<>> \in Seq(0..5)
      BY <2>2 DEF Fate
    <3> HIDE DEF c
    <3>3. e \in Conn /\ e.told = <<0>> /\ e.login = ADMIN /\ e.done = FALSE
      BY <1>1, <3>2 DEF Conn
    <3> HIDE DEF e
    <3>4. /\ d \in Conn /\ d.state = "closed" /\ d.fate = "refused" /\ d.done = e.done
          /\ d.login = e.login /\ d.told = e.told
      <4>1. d = Closed(e, "refused", <<>>)
        OBVIOUS
      <4> HIDE DEF d
      <4>2. e \in Conn /\ "refused" \in Fate
        BY <3>2, <3>3
      <4> QED
        BY <4>1, <4>2, ClosedInSilence
    <3> HIDE DEF d
    <3>5. d.told = <<0>> /\ d.told # <<0, 0>>
      BY <3>3, <3>4
    <3>6. SessionInv(d)
      BY <3>3, <3>4, <3>5 DEF SessionInv
    <3> QED
      BY <3>1, <3>4, <3>6
  <2> QED
    BY <2>1, <2>2
<1> QED
  BY <1>1, <1>2, SessionStep

\* A session whose request was handled is not read from again.
LEMMA HandledMoves ==
  ASSUME IInv, NEW s \in Admin, Can(s, "R", {"REQ"}),
         NEW ok, NEW done, Handled(s, ok, done)
  PROVE  conn'[s] # conn[s]
<1> DEFINE c == conn[s]
<1>1. conn \in [Admin -> Conn] /\ c \in Conn /\ c.wants = {"R"}
  BY Reading DEF IInv
<1>2. CASE ok
  <2> DEFINE d == [c EXCEPT !.wants = {"W"}, !.type = "none", !.read = 0,
                           !.ended = TRUE, !.done = done]
  <2>1. conn' = [conn EXCEPT ![s] = d]
    BY <1>2 DEF Handled, Become
  <2>2. d.wants = {"W"}
    BY <1>1 DEF Conn
  <2> QED
    BY <1>1, <2>1, <2>2
<1>3. CASE ~ok
  <2> DEFINE d == Closed([c EXCEPT !.done = done], "refused", <<>>)
  <2>1. conn' = [conn EXCEPT ![s] = d]
    BY <1>3 DEF Handled, Become
  <2>2. d.wants = {}
    BY <1>1 DEF Closed, Conn
  <2> QED
    BY <1>1, <2>1, <2>2
<1> QED
  BY <1>2, <1>3


LEMMA SecondByte ==
  ASSUME NEW a \in Seq(0..5), NEW b \in Seq(0..5), Len(a) = 1, Len(b) = 1
  PROVE  a \o b # <<>> /\ (a \o b)[2] = b[1]
BY ConcatProperties

\* A session that leaves MONITOR_REQ with a last byte for its client.
LEMMA LeaveStep ==
  ASSUME IInv, NEW s \in Admin, status = "running", conn[s].state = "REQ",
         NEW f \in Fate, NEW x \in 0..5, Leave(s, f, <<x>>),
         x = 0 => f = "answered" /\ conn[s].done,
         conn[s].done => f \in {"answered", "lost"},
         f \notin {"refused", "open"},
         conn[s].wants = {"R"} => f = "hangup"
  PROVE  /\ conn' \in [Admin -> Conn] /\ \A y \in Admin : SessionInv(conn'[y])
         /\ status' \in {"running", "stopped", "broken"} /\ Broken'
<1> DEFINE c == conn[s]
<1>1. /\ conn \in [Admin -> Conn] /\ \A y \in Admin : SessionInv(conn[y])
      /\ c \in Conn /\ SessionInv(c) /\ Broken
  BY DEF IInv
<1>2. c.told = <<0>> /\ c.login = ADMIN /\ c.fate = "open"
  BY <1>1 DEF SessionInv, Broken
<1>3. CASE Become(s, Closed(c, f, <<x>>)) /\ status' = status
  <2> DEFINE d == Closed(c, f, <<x>>)
  <2>1. conn' = [conn EXCEPT ![s] = d]
    BY <1>3 DEF Become
  <2> HIDE DEF c
  <2>2. /\ d \in Conn /\ d.state = "closed" /\ d.fate = f /\ d.done = c.done
        /\ d.login = c.login /\ d.told = c.told \o <<x>>
    <3> DEFINE b == <<x>>
    <3>1. b \in Seq(0..5)
      OBVIOUS
    <3> HIDE DEF b
    <3>2. d = Closed(c, f, b)
      BY DEF b
    <3> HIDE DEF d
    <3>3. /\ d \in Conn /\ d.state = "closed" /\ d.fate = f /\ d.done = c.done
          /\ d.login = c.login /\ d.told = c.told \o b
      BY <1>1, <3>1, <3>2, ClosedSession
    <3> QED
      BY <3>3 DEF b
  <2> HIDE DEF d
  <2>3. d.told # <<>> /\ d.told[2] = x
    <3>1. <<0>> \in Seq(0..5) /\ Len(<<0>>) = 1
      OBVIOUS
    <3>2. <<x>> \in Seq(0..5) /\ Len(<<x>>) = 1 /\ <<x>>[1] = x
      OBVIOUS
    <3>3. <<0>> \o <<x>> # <<>> /\ (<<0>> \o <<x>>)[2] = x
      BY <3>1, <3>2, SecondByte
    <3> QED
      BY <1>2, <2>2, <3>3, Zenon
  <2>4. d.told = <<0, 0>> => x = 0
    BY <2>3
  <2>5. SessionInv(d)
    BY <1>2, <2>2, <2>4 DEF SessionInv, c
  <2> QED
    BY <1>3, <2>1, <2>2, <2>5, SessionStep
<1>4. CASE /\ ~c.ended /\ status' = "broken"
           /\ Become(s, [c EXCEPT !.fate = f])
  <2> DEFINE d == [c EXCEPT !.fate = f]
  <2>1. conn' = [conn EXCEPT ![s] = d]
    BY <1>4 DEF Become
  <2>2. c.wants = {"R"} /\ c.done = FALSE /\ c.read = 0 /\ c.state = "REQ" /\ f = "hangup"
    BY <1>1, <1>4 DEF SessionInv, Conn
  <2> HIDE DEF c
  <2>3. /\ d \in Conn /\ d.state = "REQ" /\ d.fate = f /\ d.done = FALSE /\ d.read = 0
        /\ d.wants = {"R"} /\ d.told = <<0>> /\ d.login = ADMIN
    BY <1>1, <1>2, <2>2 DEF Conn, Fate
  <2> HIDE DEF d
  <2>4. SessionInv(d)
    BY <2>2, <2>3 DEF SessionInv
  <2>5. conn' \in [Admin -> Conn] /\ \A y \in Admin : SessionInv(conn'[y])
    BY <1>1, <2>1, <2>3, <2>4
  <2>6. Broken'
    BY <1>1, <1>4, <2>1, <2>3 DEF Broken
  <2> QED
    BY <1>4, <2>5, <2>6
<1> QED
  BY <1>3, <1>4 DEF Leave

\* A session that sends its request and is answered.
LEMMA ReqKeeps == ASSUME IInv, NEW s \in Admin, Req(s) PROVE IInv'
<1> DEFINE c == conn[s]
<1>0. table \in Seq(Account) /\ Len(table) <= MaxUsers
  BY DEF IInv
<1>1. CASE ReqType(s)
  <2>1. PICK t \in Request : conn' = [conn EXCEPT ![s] = [c EXCEPT !.type = t]]
    BY <1>1 DEF ReqType, Become
  <2> DEFINE d == [c EXCEPT !.type = t]
  <2>2. Can(s, "R", {"REQ"}) /\ UNCHANGED <<table, methods, agreed, status>>
    BY <1>1 DEF ReqType
  <2>3. d \in Conn /\ SessionInv(d) /\ d.fate = "open" /\ status = "running"
    <3>1. /\ status = "running" /\ c \in Conn /\ c.state = "REQ"
          /\ c.wants = {"R"} /\ c.told = <<0>> /\ c.login = ADMIN
          /\ c.done = FALSE /\ c.fate = "open"
          /\ c.ended = FALSE => c.read = 0
      BY <2>2, Reading
    <3> HIDE DEF c
    <3>2. /\ d \in Conn /\ d.state = "REQ" /\ d.wants = {"R"} /\ d.told = <<0>>
          /\ d.login = ADMIN /\ d.done = FALSE /\ d.fate = "open"
          /\ d.ended = FALSE => d.read = 0
      BY <3>1 DEF Conn
    <3> HIDE DEF d
    <3> QED
      BY <3>1, <3>2 DEF SessionInv
  <2> QED
    BY <2>1, <2>2, <2>3, SessionStep DEF IInv, MethodsAsAnswered
<1>2. CASE ReqArg(s)
  <2> DEFINE d == [c EXCEPT !.read = @ + 1, !.ended = TRUE]
  <2>1. /\ Can(s, "R", {"REQ"}) /\ UNCHANGED <<table, methods, agreed, status>>
        /\ c.type # "none" /\ c.read < MaxArgs[c.type] /\ conn' = [conn EXCEPT ![s] = d]
    BY <1>2 DEF ReqArg, Become
  <2>2. c.read + 1 \in 0..(Cells - 1)
    <3>1. c \in Conn
      BY <2>1, Reading
    <3>2. c.read \in 0..(Cells - 1) /\ c.type \in Request
      BY <2>1, <3>1 DEF Conn
    <3>3. MaxArgs[c.type] \in 0..(Cells - 1)
      BY <3>2, MonitorAssumption
    <3> QED
      BY <2>1, <3>2, <3>3, MonitorAssumption
  <2>3. d \in Conn /\ SessionInv(d) /\ d.fate = "open" /\ status = "running"
    <3>1. /\ status = "running" /\ c \in Conn /\ c.state = "REQ"
          /\ c.wants = {"R"} /\ c.told = <<0>> /\ c.login = ADMIN
          /\ c.done = FALSE /\ c.fate = "open"
          /\ c.ended = FALSE => c.read = 0
      BY <2>1, Reading
    <3> HIDE DEF c
    <3>2. /\ d \in Conn /\ d.state = "REQ" /\ d.wants = {"R"} /\ d.told = <<0>>
          /\ d.login = ADMIN /\ d.done = FALSE /\ d.fate = "open"
          /\ d.ended = FALSE => d.read = 0
      BY <2>2, <3>1 DEF Conn
    <3> HIDE DEF d
    <3> QED
      BY <3>1, <3>2 DEF SessionInv
  <2> QED
    BY <2>1, <2>3, SessionStep DEF IInv, MethodsAsAnswered
<1>3. CASE ReqGone(s)
  <2>1. /\ Can(s, "R", {"REQ"}) /\ Leave(s, "hangup", <<IO_ERROR>>)
        /\ UNCHANGED <<table, methods, agreed>>
    BY <1>3 DEF ReqGone
  <2>2. IO_ERROR \in 0..5 /\ IO_ERROR # 0 /\ "hangup" \in Fate
    BY DEF IO_ERROR, Fate
  <2>3. /\ conn' \in [Admin -> Conn] /\ \A x \in Admin : SessionInv(conn'[x])
        /\ status' \in {"running", "stopped", "broken"} /\ Broken'
    BY <2>1, <2>2, Reading, LeaveStep
  <2> QED
    BY <2>1, <2>3 DEF IInv, MethodsAsAnswered
<1>4. ASSUME Can(s, "R", {"REQ"}), NEW ok, NEW done \in BOOLEAN, ok <=> done,
             Handled(s, ok, done), UNCHANGED <<methods, agreed>>,
             table' \in Seq(Account), Len(table') <= MaxUsers
      PROVE  IInv'
  BY <1>4, HandledStep DEF IInv, MethodsAsAnswered
<1>5. CASE BadRequest(s)
  BY <1>0, <1>4, <1>5 DEF BadRequest, Terminates
<1>6. CASE AddUser(s)
  <2> DEFINE Took == table' # table
  <2>1. PICK n \in Name, p \in Password, l \in Level \cup {2} :
          LET u == [name |-> n, pass |-> p, level |-> l] IN
          /\ table' = Created(table, u)
          /\ Handled(s, Creatable(table, u), Took)
    BY <1>6 DEF AddUser
  <2>2. Can(s, "R", {"REQ"}) /\ UNCHANGED <<methods, agreed>>
    BY <1>6 DEF AddUser, Complete, Terminates
  <2> DEFINE u == [name |-> n, pass |-> p, level |-> l]
  <2>3. /\ Created(table, u) \in Seq(Account) /\ Len(Created(table, u)) <= MaxUsers
        /\ Creatable(table, u) <=> Created(table, u) # table
    BY <1>0, CreatedTable
  <2>4. Took \in BOOLEAN
    OBVIOUS
  <2>5. /\ table' \in Seq(Account) /\ Len(table') <= MaxUsers
        /\ Creatable(table, u) <=> Took
        /\ Handled(s, Creatable(table, u), Took)
    BY <2>1, <2>3
  <2> HIDE DEF u, Took
  <2> QED
    BY <1>4, <2>2, <2>4, <2>5
<1>7. CASE RemoveUser(s)
  <2> DEFINE Took == table' # table
  <2>1. PICK n \in Name : /\ table' = Deleted(table, n)
                          /\ Handled(s, n \in NamesOf(table), Took)
    BY <1>7 DEF RemoveUser
  <2>2. Can(s, "R", {"REQ"}) /\ UNCHANGED <<methods, agreed>>
    BY <1>7 DEF RemoveUser, Complete, Terminates
  <2>3. /\ Deleted(table, n) \in Seq(Account) /\ Len(Deleted(table, n)) <= MaxUsers
        /\ n \in NamesOf(table) <=> Deleted(table, n) # table
    BY <1>0, DeletedTable
  <2>4. Took \in BOOLEAN
    OBVIOUS
  <2>5. /\ table' \in Seq(Account) /\ Len(table') <= MaxUsers
        /\ n \in NamesOf(table) <=> Took
    BY <2>1, <2>3
  <2> HIDE DEF Took
  <2> QED
    BY <1>4, <2>1, <2>2, <2>4, <2>5
<1>8. CASE ChangePassword(s)
  <2> DEFINE Now(n, p) == n \in NamesOf(table') /\ table'[IndexOf(table', n)].pass = p
  <2>1. PICK n \in Name, p \in Password : /\ table' = PasswordChanged(table, n, p)
                                          /\ Handled(s, n \in NamesOf(table), Now(n, p))
    BY <1>8 DEF ChangePassword
  <2>2. Can(s, "R", {"REQ"}) /\ UNCHANGED <<methods, agreed>>
    BY <1>8 DEF ChangePassword, Complete, Terminates
  <2>3. /\ table' \in Seq(Account) /\ Len(table') = Len(table)
        /\ n \in NamesOf(table) <=> Now(n, p)
    BY <1>0, <2>1, ChangedTable
  <2>4. Now(n, p) \in BOOLEAN
    OBVIOUS
  <2> HIDE DEF Now
  <2> QED
    BY <1>0, <1>4, <2>1, <2>2, <2>3, <2>4
<1>9. CASE Statistics(s)
  BY <1>0, <1>4, <1>9 DEF Statistics, Complete, Terminates
<1>10. CASE ChangeMethods(s)
  <2>1. /\ Can(s, "R", {"REQ"}) /\ table' = table
        /\ \E l \in [1..c.read -> Methods] :
             /\ methods' = MethodsChanged(methods, l)
             /\ agreed' = IF Stored(l) = Len(l) THEN <<{l[i] : i \in DOMAIN l}, Len(l)>> ELSE <<>>
             /\ Handled(s, Stored(l) = Len(l), Stored(l) = Len(l))
    BY <1>10 DEF ChangeMethods, Terminates
  <2>2. PICK l \in [1..c.read -> Methods] :
          /\ methods' = MethodsChanged(methods, l)
          /\ agreed' = IF Stored(l) = Len(l) THEN <<{l[i] : i \in DOMAIN l}, Len(l)>> ELSE <<>>
          /\ Handled(s, Stored(l) = Len(l), Stored(l) = Len(l))
    BY <2>1
  <2>3. c.read \in 0..(Cells - 1) /\ methods \in [1..Cells -> {END} \cup Supported]
    BY <2>1, Reading DEF Conn, IInv
  <2>4. (Stored(l) = Len(l)) \in BOOLEAN
    OBVIOUS
  <2>5. /\ conn' \in [Admin -> Conn] /\ \A x \in Admin : SessionInv(conn'[x])
        /\ status' \in {"running", "stopped", "broken"} /\ Broken'
    BY <2>1, <2>2, <2>4, HandledStep
  <2>6. /\ methods' \in [1..Cells -> {END} \cup Supported]
        /\ Stored(l) = Len(l) =>
             /\ Len(l) \in 0..(Cells - 1)
             /\ ScanEnds(methods') <=> Len(l) <= LastIndex
             /\ ScanEnds(methods') => AcceptedMethods(methods') = {l[i] : i \in DOMAIN l}
             /\ {l[i] : i \in DOMAIN l} \in SUBSET Supported
    BY <2>2, <2>3, ListStored
  <2> DEFINE m == {l[i] : i \in DOMAIN l}
             n == Len(l)
  <2> HIDE DEF m
  <2>7. agreed' = (IF Stored(l) = n THEN <<m, n>> ELSE <<>>)
    BY <2>2 DEF m
  <2>8. Stored(l) = n =>
          /\ n \in 0..(Cells - 1) /\ m \in SUBSET Supported
          /\ ScanEnds(methods') <=> n <= LastIndex
          /\ ScanEnds(methods') => AcceptedMethods(methods') = m
    BY <2>6 DEF m
  <2> HIDE DEF n
  <2>9. agreed' \in Answers /\ MethodsAsAnswered'
    <3>1. CASE Stored(l) = n
      <4>1. agreed' = <<m, n>> /\ agreed'[1] = m /\ agreed'[2] = n
        BY <2>7, <3>1
      <4> QED
        BY <2>8, <3>1, <4>1 DEF MethodsAsAnswered, Answers
    <3>2. CASE Stored(l) # n
      BY <2>7, <3>2 DEF MethodsAsAnswered, Answers
    <3> QED
      BY <3>1, <3>2
  <2> QED
    BY <1>0, <2>1, <2>5, <2>6, <2>9 DEF IInv
<1>11. ASSUME NEW f \in Fate, NEW x \in 0..5, Can(s, "W", {"REQ"}), Leave(s, f, <<x>>),
              f \in {"answered", "lost"}, x = 0 => f = "answered",
              UNCHANGED <<table, methods, agreed>>
       PROVE  IInv'
  <2>1. status = "running" /\ "W" \in c.wants /\ c.state = "REQ" /\ SessionInv(c)
    BY <1>11 DEF Can, IInv
  <2>2. c.wants = {"W"} /\ c.done = TRUE
    BY <2>1 DEF SessionInv
  <2>3. /\ conn' \in [Admin -> Conn] /\ \A y \in Admin : SessionInv(conn'[y])
        /\ status' \in {"running", "stopped", "broken"} /\ Broken'
    BY <1>11, <2>1, <2>2, LeaveStep
  <2> QED
    BY <1>11, <2>3 DEF IInv, MethodsAsAnswered
<1>12. CASE ReqWrite(s)
  <2>1. "answered" \in Fate /\ 0 \in 0..5
    BY DEF Fate
  <2> QED
    BY <1>11, <1>12, <2>1 DEF ReqWrite
<1>13. CASE ReqWriteFails(s)
  <2>1. "lost" \in Fate /\ IO_ERROR \in 0..5 /\ IO_ERROR # 0
    BY DEF Fate, IO_ERROR
  <2> QED
    BY <1>11, <1>13, <2>1 DEF ReqWriteFails
<1> QED
  BY <1>1, <1>2, <1>3, <1>5, <1>6, <1>7, <1>8, <1>9, <1>10, <1>12, <1>13 DEF Req
-----------------------------------------------------------------------------
(* The server.                                                             *)

\* A session that is not answered yet ends with the server.
LEMMA StoppedSession ==
  ASSUME NEW c \in Conn, SessionInv(c), c.state \in {"new", "AUTH", "REQ"}
  PROVE  LET d == Closed(c, "stopped", <<>>) IN
         d \in Conn /\ SessionInv(d) /\ d.state = "closed"
<1> DEFINE d == Closed(c, "stopped", <<>>)
<1>1. "stopped" \in Fate /\ <<>> \in Seq(0..5) /\ c.told \in Seq(0..5)
  BY DEF Fate, Conn
<1>2. d \in Conn /\ d.state = "closed" /\ d.fate = "stopped" /\ d.told = c.told
  <2>1. d = Closed(c, "stopped", <<>>)
    OBVIOUS
  <2> HIDE DEF d
  <2> QED
    BY <1>1, <2>1, ClosedInSilence
<1> HIDE DEF d
<1>3. d.told = c.told
  BY <1>2
<1>4. c.told = <<>> \/ c.told = <<0>>
  BY DEF SessionInv
<1>5. SessionInv(d)
  BY <1>2, <1>3, <1>4 DEF SessionInv
<1> QED
  BY <1>2, <1>5 DEF d

LEMMA StoppedLogin ==
  ASSUME NEW c \in Conn, SessionInv(c), c.state = "AUTH"
  PROVE  LET d == Closed(c, "stopped", <<Departure(c)>>) IN
         d \in Conn /\ SessionInv(d) /\ d.state = "closed"
<1> DEFINE b == <<Departure(c)>>
           d == Closed(c, "stopped", b)
<1>1. "stopped" \in Fate /\ b \in Seq(0..5) /\ Len(b) = 1 /\ c.told = <<>>
  BY DEF Fate, SessionInv, Departure
<1> HIDE DEF b
<1>2. d \in Conn /\ d.state = "closed" /\ d.fate = "stopped" /\ d.told = c.told \o b
  <2>1. d = Closed(c, "stopped", b)
    OBVIOUS
  <2> HIDE DEF d
  <2> QED
    BY <1>1, <2>1, ClosedSession
<1> HIDE DEF d
<1>3. d.told = b /\ d.told # <<0, 0>>
  BY <1>1, <1>2
<1>4. SessionInv(d)
  BY <1>2, <1>3 DEF SessionInv
<1> QED
  BY <1>2, <1>4 DEF d, b

LEMMA ExitKeeps == ASSUME IInv, Exit PROVE IInv'
<1>1. conn \in [Admin -> Conn] /\ \A s \in Admin : SessionInv(conn[s])
  BY DEF IInv
<1>2. /\ conn' = [s \in Admin |-> IF conn[s].state = "closed" THEN conn[s]
                                 ELSE Closed(conn[s], "stopped", <<>>)]
      /\ status' = "stopped" /\ UNCHANGED <<table, methods, agreed>>
  BY DEF Exit
<1>3. ASSUME NEW s \in Admin
      PROVE  conn'[s] \in Conn /\ SessionInv(conn'[s]) /\ conn'[s].state = "closed"
  <2>1. CASE conn[s].state = "closed"
    BY <1>1, <1>2, <2>1
  <2>2. CASE conn[s].state # "closed"
    <3>1. /\ conn[s] \in Conn /\ conn[s].state \in {"new", "AUTH", "REQ"} /\ SessionInv(conn[s])
          /\ conn'[s] = Closed(conn[s], "stopped", <<>>)
      BY <1>1, <1>2, <2>2 DEF Conn
    <3> QED
      BY <3>1, StoppedSession
  <2> QED
    BY <2>1, <2>2
<1>4. Broken'
  BY <1>2, <1>3 DEF Broken
<1> QED
  BY <1>2, <1>3, <1>4 DEF IInv, MethodsAsAnswered

LEMMA StopKeeps == ASSUME IInv, Stop PROVE IInv'
<1>1. conn \in [Admin -> Conn] /\ \A s \in Admin : SessionInv(conn[s])
  BY DEF IInv
<1>2. status = "running" /\ UNCHANGED <<table, methods, agreed>>
  BY DEF Stop
<1>3. CASE /\ status' = "stopped"
           /\ conn' = [s \in Admin |->
                CASE conn[s].state = "closed" -> conn[s]
                  [] conn[s].state = "AUTH"   -> Closed(conn[s], "stopped", <<Departure(conn[s])>>)
                  [] OTHER                    -> Closed(conn[s], "stopped", <<>>)]
  <2>1. ASSUME NEW s \in Admin
        PROVE  conn'[s] \in Conn /\ SessionInv(conn'[s]) /\ conn'[s].state = "closed"
    <3>1. CASE conn[s].state = "closed"
      BY <1>1, <1>3, <3>1
    <3>2. CASE conn[s].state = "AUTH"
      BY <1>1, <1>3, <3>2, StoppedLogin
    <3>3. CASE conn[s].state \notin {"closed", "AUTH"}
      <4>1. /\ conn[s] \in Conn /\ conn[s].state \in {"new", "AUTH", "REQ"} /\ SessionInv(conn[s])
            /\ conn'[s] = Closed(conn[s], "stopped", <<>>)
        BY <1>1, <1>3, <3>3 DEF Conn
      <4> QED
        BY <4>1, StoppedSession
    <3> QED
      BY <3>1, <3>2, <3>3
  <2>2. Broken'
    BY <1>3, <2>1 DEF Broken
  <2> QED
    BY <1>2, <1>3, <2>1, <2>2 DEF IInv, MethodsAsAnswered
<1>4. CASE /\ Unended # {} /\ status' = "broken"
           /\ conn' = [s \in Admin |->
                IF s \in Unended THEN [conn[s] EXCEPT !.fate = "stopped"] ELSE conn[s]]
  <2>1. ASSUME NEW s \in Admin, s \in Unended
        PROVE  /\ conn'[s] \in Conn /\ SessionInv(conn'[s])
               /\ conn'[s].state = "REQ" /\ conn'[s].fate # "open"
    <3> DEFINE c == conn[s]
               d == [c EXCEPT !.fate = "stopped"]
    <3>1. c.state = "REQ" /\ c.ended = FALSE /\ c \in Conn /\ SessionInv(c)
      BY <1>1, <2>1 DEF Unended, Conn
    <3>2. conn'[s] = d
      BY <1>4, <2>1
    <3> HIDE DEF c
    <3>3. /\ d \in Conn /\ d.state = "REQ" /\ d.fate = "stopped" /\ d.login = c.login
          /\ d.told = c.told /\ d.wants = c.wants /\ d.done = c.done /\ d.read = c.read
          /\ d.ended = c.ended
      BY <3>1 DEF Conn
    <3> HIDE DEF d
    <3>4. SessionInv(d)
      BY <3>1, <3>3 DEF SessionInv
    <3> QED
      BY <3>2, <3>3, <3>4
  <2>2. \A s \in Admin : conn'[s] \in Conn /\ SessionInv(conn'[s])
    BY <1>1, <1>4, <2>1
  <2>3. Broken'
    BY <1>4, <2>1 DEF Broken, Unended
  <2> QED
    BY <1>2, <1>4, <2>2, <2>3 DEF IInv, MethodsAsAnswered
<1> QED
  BY <1>3, <1>4 DEF Stop

LEMMA InitHolds == Init => IInv
<1> SUFFICES ASSUME Init PROVE IInv
  OBVIOUS
<1> DEFINE c == [Fresh EXCEPT !.state = "closed", !.wants = {}, !.fate = "none"]
<1>1. c \in Conn /\ SessionInv(c) /\ c.state = "closed"
  <2>1. 0 \in 0..(Cells - 1) /\ ADMIN \in Level /\ <<>> \in Seq(0..5)
    BY MonitorAssumption DEF Level
  <2> QED
    BY <2>1 DEF Fresh, Conn, SessionInv, ReplyAccepts
<1>2. conn = [s \in Admin |-> c] /\ status = "running" /\ table = First
  BY DEF Init
<1> HIDE DEF c
<1>3. conn \in [Admin -> Conn] /\ (\A s \in Admin : SessionInv(conn[s])) /\ Broken
  BY <1>1, <1>2 DEF Broken
<1>4. /\ methods \in [1..Cells -> {END} \cup Supported] /\ methods[1] = USER_PASS
      /\ methods[2] = END /\ 1 \in 1..Cells /\ 2 \in 1..Cells /\ agreed = <<{USER_PASS}, 1>>
  BY MonitorAssumption DEF Init, Supported, NO_AUTH, USER_PASS, END
<1>5. MethodsAsAnswered
  <2>0. 1 <= LastIndex /\ Scanned(methods) = 1..(LastIndex + 1) /\ 2 \in 1..(LastIndex + 1)
    BY <1>4, MonitorAssumption DEF Scanned
  <2>1. \A i \in 1..Cells : (\A j \in 1..i : methods[j] # END) <=> i = 1
    BY <1>4 DEF USER_PASS, END
  <2>2. {i \in Scanned(methods) : \A j \in 1..i : methods[j] # END} = {1}
    <3>1. \A i \in Scanned(methods) : i \in 1..Cells
      BY <1>4 DEF Scanned
    <3>2. 1 \in Scanned(methods)
      BY <2>0, MonitorAssumption
    <3> QED
      BY <2>1, <3>1, <3>2
  <2>3. AcceptedMethods(methods) = {USER_PASS}
    BY <1>4, <2>2 DEF AcceptedMethods
  <2> QED
    BY <1>4, <2>0, <2>3 DEF MethodsAsAnswered, ScanEnds
<1>6. agreed \in Answers
  <2>1. {USER_PASS} \in SUBSET Supported /\ 1 \in 0..(Cells - 1)
    BY MonitorAssumption DEF Supported
  <2> QED
    BY <1>4, <2>1 DEF Answers
<1> QED
  BY <1>2, <1>3, <1>4, <1>5, <1>6, MonitorAssumption DEF IInv, Account

\* The monitor's inductive invariant.
THEOREM InductiveInvariant == Spec => []IInv
<1>1. Init => IInv
  BY InitHolds
<1>2. IInv /\ [Next]_vars => IInv'
  <2> SUFFICES ASSUME IInv, [Next]_vars PROVE IInv'
    OBVIOUS
  <2>1. CASE \E s \in Admin : Accept(s) \/ Auth(s) \/ Req(s)
    BY <2>1, AcceptKeeps, AuthKeeps, ReqKeeps
  <2>2. CASE Exit
    BY <2>2, ExitKeeps
  <2>3. CASE Stop
    BY <2>3, StopKeeps
  <2>4. CASE UNCHANGED vars
    BY <2>4 DEF vars, IInv, MethodsAsAnswered, Broken
  <2> QED
    BY <2>1, <2>2, <2>3, <2>4 DEF Next
<1> QED
  BY <1>1, <1>2, PTL DEF Spec

\* Every reachable state has the types of the program.
THEOREM TypeCorrect == Spec => []TypeOK
<1>1. IInv => TypeOK
  BY DEF IInv, TypeOK, Account
<1> QED
  BY <1>1, InductiveInvariant, PTL

\* Whom the first byte tells that he is logged in as an administrator is, or his
\* login was cut short (monitor_auth.c:97-169).
THEOREM FirstByteIsTrue == Spec => []FirstByteTrue
<1>1. IInv => FirstByteTrue
  <2> SUFFICES ASSUME IInv, NEW s \in Admin, ReplyAccepts(conn[s].told)
               PROVE  conn[s].login = ADMIN \/ conn[s].fate \in {"hangup", "stopped"}
    BY DEF FirstByteTrue
  <2>1. SessionInv(conn[s]) /\ conn[s] \in Conn
    BY DEF IInv
  <2>2. conn[s].state \notin {"new", "AUTH"}
    BY <2>1 DEF SessionInv, ReplyAccepts
  <2> QED
    BY <2>1, <2>2 DEF SessionInv, Conn
<1> QED
  BY <1>1, InductiveInvariant, PTL

\* Two zeros are an answer, an answer follows what was done, and what was done is
\* answered unless the connection or the server ended (monitor_req.c:117-190).
THEOREM OutcomeIsKnown == Spec => []OutcomeKnown
<1>1. IInv => OutcomeKnown
  <2> SUFFICES ASSUME IInv, NEW s \in Admin
               PROVE  LET c == conn[s] IN
                      /\ c.told = <<0, 0>> => c.done /\ c.login = ADMIN /\ c.fate = "answered"
                      /\ c.done /\ c.state = "closed" => c.fate \in {"answered", "lost", "stopped"}
                      /\ c.fate = "refused" => ~c.done /\ (c.login = ADMIN => c.told = <<0>>)
    BY DEF OutcomeKnown
  <2> DEFINE c == conn[s]
  <2>1. SessionInv(c) /\ c \in Conn
    BY DEF IInv
  <2>2. CASE c.state \in {"new", "AUTH"}
    <3>1. c.told = <<>> /\ c.done = FALSE /\ c.fate = "open" /\ <<>> # <<0, 0>>
      BY <2>1, <2>2 DEF SessionInv
    <3> QED
      BY <3>1
  <2>3. CASE c.state = "REQ"
    BY <2>1, <2>3 DEF SessionInv
  <2>4. CASE c.state = "closed"
    BY <2>1, <2>4 DEF SessionInv
  <2> QED
    BY <2>1, <2>2, <2>3, <2>4 DEF Conn
<1> QED
  BY <1>1, InductiveInvariant, PTL

\* Until a list is refused, accepted_method accepts the methods of the last list
\* that was answered for and ends within the array, if that list has at most as
\* many entries as the index of the scan can count, and leaves the array if it
\* has more, for any size of the array and of the index (auth_utils.c:18-53).
THEOREM MethodsAreAsAnswered == Spec => []MethodsAsAnswered
<1>1. IInv => MethodsAsAnswered
  BY DEF IInv
<1> QED
  BY <1>1, InductiveInvariant, PTL

\* Only a session that ends between its login and its first argument frees
\* arguments that were never stored (monitor_req.c:105-115).
THEOREM FinalizerIsDefined == Spec => []FinalizerDefined
<1>1. IInv => FinalizerDefined
  BY DEF IInv, SessionInv, Broken, FinalizerDefined
<1> QED
  BY <1>1, InductiveInvariant, PTL

\* Nobody but a session that logged in as an administrator changes accounts or
\* methods (monitor_requests.c:6-54).
THEOREM AdminsChange == Spec => ChangesByAdmins
<1>1. IInv /\ [Next]_vars =>
        [table' # table \/ methods' # methods =>
           \E s \in Admin : /\ conn[s].state = "REQ" /\ conn[s].login = ADMIN
                            /\ conn'[s] # conn[s]]_vars
  <2> SUFFICES ASSUME IInv, Next, table' # table \/ methods' # methods
               PROVE  \E s \in Admin : /\ conn[s].state = "REQ" /\ conn[s].login = ADMIN
                                       /\ conn'[s] # conn[s]
    BY DEF vars
  <2>1. PICK s \in Admin : Accept(s) \/ Auth(s) \/ Req(s)
    BY DEF Next, Exit, Stop
  <2>2. Can(s, "R", {"REQ"}) /\ \E ok, done : Handled(s, ok, done)
    <3>1. ~(Accept(s) \/ Auth(s) \/ ReqType(s) \/ ReqArg(s) \/ ReqGone(s)
            \/ ReqWrite(s) \/ ReqWriteFails(s))
      BY DEF Accept, Auth, AuthMore, AuthGone, LoginFails, Login,
             ReqType, ReqArg, ReqGone, ReqWrite, ReqWriteFails
    <3>2. CASE AddUser(s)
      BY <3>2, Zenon DEF AddUser, Complete, Terminates
    <3>3. CASE RemoveUser(s)
      BY <3>3, Zenon DEF RemoveUser, Complete, Terminates
    <3>4. CASE ChangePassword(s)
      BY <3>4, Zenon DEF ChangePassword, Complete, Terminates
    <3>5. CASE Statistics(s)
      BY <3>5, Zenon DEF Statistics, Complete, Terminates
    <3>6. CASE ChangeMethods(s)
      BY <3>6, Zenon DEF ChangeMethods, Terminates
    <3>7. CASE BadRequest(s)
      BY <3>7, Zenon DEF BadRequest, Terminates
    <3> QED
      BY <2>1, <3>1, <3>2, <3>3, <3>4, <3>5, <3>6, <3>7, Zenon DEF Req
  <2>3. conn[s].state = "REQ" /\ conn[s].login = ADMIN /\ conn'[s] # conn[s]
    BY <2>2, Reading, HandledMoves
  <2> QED
    BY <2>3
<1> QED
  BY <1>1, InductiveInvariant, PTL DEF Spec, ChangesByAdmins
=============================================================================
