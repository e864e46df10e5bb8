------------------------------ MODULE Accounts ------------------------------
(***************************************************************************)
(* The array of accounts of server/users.c and its operations, as values   *)
(* and operators: users[0 .. users_size - 1] is a sequence of records.     *)
(* Users composes them with the file of accounts, Monitor with the         *)
(* sessions of administrators.                                             *)
(***************************************************************************)
EXTENDS Integers, Sequences, SequencesExt

CONSTANT MaxUsers        \* MAX_USERS_REGISTERED, the size of the array

ASSUME AccountsAssumption == MaxUsers \in Nat \ {0}

ADMIN == 0
USER  == 1
Level == {ADMIN, USER}

NamesOf(t) == {t[i].name : i \in DOMAIN t}

\* get_user_index, for a name that is in the table: the scan stops at the first.
IndexOf(t, n) ==
  CHOOSE i \in DOMAIN t : t[i].name = n /\ \A j \in 1..(i - 1) : t[j].name # n

\* With a fault: the size of the table is not looked at.
CreatableUnbounded(t, u) == u.level \in Level /\ u.name \notin NamesOf(t)

\* With a fault: a name may be taken twice.
CreatableTwice(t, u) == u.level \in Level /\ Len(t) < MaxUsers

\* What user_create refuses: a level it does not know, a full table, a name
\* that is taken.
Creatable(t, u) ==
  u.level \in Level /\ Len(t) < MaxUsers /\ u.name \notin NamesOf(t)

\* user_create.
Created(t, u) == IF Creatable(t, u) THEN Append(t, u) ELSE t

\* With a fault: the accounts behind do not move, and the last one is dropped.
DeletedLast(t, n) == IF n \in NamesOf(t) THEN Front(t) ELSE t

\* user_delete: the accounts behind the deleted one move down.
Deleted(t, n) ==
  IF n \in NamesOf(t) THEN RemoveAt(t, IndexOf(t, n)) ELSE t

\* user_change_password.
PasswordChanged(t, n, p) ==
  IF n \in NamesOf(t) THEN [t EXCEPT ![IndexOf(t, n)].pass = p] ELSE t
=============================================================================
