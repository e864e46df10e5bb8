--------------------------- MODULE SelectorTable ---------------------------
(***************************************************************************)
(* The table of lib/selector/selector.c: one item for each descriptor, the *)
(* greatest descriptor in use, and the two prototype sets that pselect is  *)
(* given.  The table is a record and each operation of selector.h an       *)
(* operator on it, since one callback may call several of them.            *)
(***************************************************************************)
EXTENDS Integers, FiniteSets

CONSTANTS MaxItems,      \* ITEMS_MAX_SIZE, that is FD_SETSIZE
          Initial        \* the argument of selector_new

Op     == {"R", "W"}
Unused == {"unused"}     \* FD_UNUSED, in place of a set of Op

\* The least power of two above n, for the n a table can have.
PowerAbove(n) == CHOOSE p \in {2^b : b \in 0..MaxItems} :
                   p > n /\ \A q \in {2^b : b \in 0..MaxItems} : q > n => p <= q

\* next_capacity.
NextCapacity(n) == (IF PowerAbove(n) > MaxItems THEN MaxItems ELSE PowerAbove(n)) + 1

\* main asks for 1000 elements of at most 1024: the first table is the last.
ASSUME SelectorAssumption ==
  /\ MaxItems \in Nat \ {0} /\ Initial \in 0..MaxItems
  /\ NextCapacity(Initial) \in Nat
  /\ NextCapacity(Initial) > MaxItems

Fds == 0..(MaxItems - 1)       \* the complement of INVALID_FD

Used(t) == {fd \in DOMAIN t.items : t.items[fd] # Unused}

\* With a fault: only the elements that were asked for.
SelectorNewExact == [items |-> [fd \in 0..(Initial - 1) |-> Unused], size |-> Initial,
                     maxFd |-> 0, r |-> {}, w |-> {}, overrun |-> FALSE]

\* selector_new.  overrun: an item outside the table was touched.
SelectorNew == LET n == NextCapacity(Initial) IN
  [items |-> [fd \in 0..(n - 1) |-> Unused], size |-> n,
   maxFd |-> 0, r |-> {}, w |-> {}, overrun |-> FALSE]

\* ensure_capacity, for a table that exists.  The new items are unused.
Grown(t, n) ==
  IF n < t.size \/ n > MaxItems THEN t
  ELSE LET m == NextCapacity(n) IN
       [t EXCEPT !.size = m,
                 !.items = [fd \in 0..(m - 1) |-> IF fd < t.size THEN t.items[fd] ELSE Unused]]

\* items_update_fdset_for_fd, for an item with interest i.
Asked(t, fd, i) ==
  [t EXCEPT !.items[fd] = i,
            !.r = IF "R" \in i THEN @ \cup {fd} ELSE @ \ {fd},
            !.w = IF "W" \in i THEN @ \cup {fd} ELSE @ \ {fd}]

\* With a fault: INVALID_FD lets ITEMS_MAX_SIZE pass.
RegisteredUnchecked(t, fd, i) ==
  IF fd \notin 0..MaxItems \/ fd >= t.size \/ t.items[fd] # Unused THEN t
  ELSE [Asked(t, fd, i) EXCEPT !.maxFd = IF fd > @ THEN fd ELSE @]

\* selector_register.  For a descriptor that is the size of the table the table
\* does not grow: `>' for `>='.
Registered(t, fd, i) ==
  IF fd \notin Fds THEN t
  ELSE LET g == IF fd > t.size THEN Grown(t, fd) ELSE t IN
       IF fd >= g.size THEN [g EXCEPT !.overrun = TRUE]
       ELSE IF g.items[fd] # Unused THEN g
       ELSE [Asked(g, fd, i) EXCEPT !.maxFd = IF fd > @ THEN fd ELSE @]

\* items_max_fd: 0 if no item is used.
HighestUsed(t) ==
  LET used == {fd \in Used(t) : fd <= t.maxFd} IN
  IF used = {} THEN 0 ELSE CHOOSE m \in used : \A fd \in used : fd <= m

\* With a fault: the prototype sets keep the descriptor.
UnregisteredAsked(t, fd) ==
  IF fd \notin Fds THEN t
  ELSE IF fd >= t.size THEN [t EXCEPT !.overrun = TRUE]
  ELSE IF t.items[fd] = Unused THEN t
  ELSE LET u == [t EXCEPT !.items[fd] = Unused] IN
       [u EXCEPT !.maxFd = HighestUsed(u)]

\* selector_unregister_fd, but for the call of handle_close.
Unregistered(t, fd) ==
  IF fd \notin Fds THEN t
  ELSE IF fd >= t.size THEN [t EXCEPT !.overrun = TRUE]
  ELSE IF t.items[fd] = Unused THEN t
  ELSE LET u == Asked(t, fd, Unused) IN [u EXCEPT !.maxFd = HighestUsed(u)]

\* selector_set_interest.
InterestSet(t, fd, i) ==
  IF fd \notin Fds THEN t
  ELSE IF fd >= t.size THEN [t EXCEPT !.overrun = TRUE]
  ELSE IF t.items[fd] = Unused THEN t
  ELSE Asked(t, fd, i)
-----------------------------------------------------------------------------
VARIABLE sel

TableInit == sel = SelectorNew

TableTypeOK ==
  /\ sel.size \in Nat /\ sel.maxFd \in Nat /\ sel.overrun \in BOOLEAN
  /\ sel.items \in [0..(sel.size - 1) -> {Unused} \cup SUBSET Op]
  /\ sel.r \subseteq Fds /\ sel.w \subseteq Fds

\* pselect is asked for what the items want, all of it and nothing else: the
\* prototype sets agree with the interests whatever was registered, changed and
\* unregistered, and no registered descriptor lies above max_fd.
AskedIsRegistered ==
  /\ sel.r = {fd \in Used(sel) : "R" \in sel.items[fd]}
  /\ sel.w = {fd \in Used(sel) : "W" \in sel.items[fd]}
  /\ \A fd \in Used(sel) : fd <= sel.maxFd

\* No item outside the table is used, although the table would not grow for a
\* descriptor equal to its size (selector.c:333).
NoOverrun == ~sel.overrun
=============================================================================
