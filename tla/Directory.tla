----------------------------- MODULE Directory -----------------------------
(***************************************************************************)
(* What server/users.c promises whoever asks for an account: one map from  *)
(* names to passwords and levels, changed an account at a time, of which   *)
(* the disk keeps what the last stop in order found.  There are no         *)
(* positions, no scans and no lines of text here.  Users implements it.    *)
(***************************************************************************)
EXTENDS Integers, FiniteSets

CONSTANTS Name, Password, Level,   \* what a request may give
          USER,                    \* the level of an account of the option -u
          MaxUsers,                \* how many accounts there may be
          Plain, PlainPass         \* names and passwords the disk keeps as they are

VARIABLES accounts,   \* the accounts the server knows
          disk,       \* those it would start with, were it to end here
          pending,    \* those it would start with, were it to return from main
          status      \* "down", "starting", "running" or "stopping"

vars == <<accounts, disk, pending, status>>

Nobody == [n \in {} |-> n]

Entry(p, l) == [pass |-> p, level |-> l]

With(d, n, e) == [m \in DOMAIN d \cup {n} |-> IF m = n THEN e ELSE d[m]]
Without(d, n) == [m \in DOMAIN d \ {n} |-> d[m]]

IsDirectory(d) == /\ d = [n \in DOMAIN d |-> d[n]]
                  /\ IsFiniteSet(DOMAIN d) /\ Cardinality(DOMAIN d) <= MaxUsers

Takes(d, n) == n \notin DOMAIN d /\ Cardinality(DOMAIN d) < MaxUsers
IsPlain(d) == \A n \in DOMAIN d : n \in Plain /\ d[n].pass \in PlainPass

\* The entries of d that e does not have.
Strange(d, e) == {n \in DOMAIN d : n \notin DOMAIN e \/ d[n] # e[n]}
-----------------------------------------------------------------------------
Init == /\ accounts = Nobody /\ status = "down"
        /\ IsDirectory(disk) /\ pending = disk

\* A request concerns the account it names and leaves the others alone.
Add(n, p, l) ==
  accounts' = IF Takes(accounts, n) THEN With(accounts, n, Entry(p, l)) ELSE accounts

Remove(n) == accounts' = Without(accounts, n)

Change(n, p) ==
  accounts' = IF n \in DOMAIN accounts THEN With(accounts, n, Entry(p, accounts[n].level))
                                       ELSE accounts

Start ==
  /\ status = "down" /\ status' = "starting" /\ accounts' = disk
  /\ UNCHANGED <<disk, pending>>

\* An account of the option -u.
Option ==
  /\ status = "starting"
  /\ \E n \in Name, p \in Password : Add(n, p, USER)
  /\ UNCHANGED <<disk, pending, status>>

Run == /\ status = "starting" /\ status' = "running"
       /\ UNCHANGED <<accounts, disk, pending>>

Serve ==
  /\ status = "running"
  /\ \/ \E n \in Name, p \in Password, l \in Level : Add(n, p, l)
     \/ \E n \in DOMAIN accounts : Remove(n)
     \/ \E n \in DOMAIN accounts, p \in Password : Change(n, p)
  /\ UNCHANGED <<disk, pending, status>>

\* From here to the return from main the disk has a part of the accounts, the
\* last of them perhaps not whole.
Stop ==
  /\ status = "running" /\ status' = "stopping"
  /\ accounts # Nobody /\ accounts' = Nobody
  /\ IsDirectory(disk') /\ IsDirectory(pending')
  /\ IsPlain(accounts) =>
       /\ pending' = accounts
       /\ \A m, n \in Strange(disk', accounts) : m = n

\* There was no account, or the file could not be opened.
StopUnwritten ==
  /\ status = "running" /\ status' = "stopping" /\ accounts' = Nobody
  /\ UNCHANGED <<disk, pending>>

Exit == /\ status = "stopping" /\ status' = "down" /\ disk' = pending
        /\ UNCHANGED <<accounts, pending>>

\* The changes since the start are lost; after Stop, what the disk has not yet.
Crash == /\ status \in {"starting", "running", "stopping"} /\ status' = "down"
         /\ accounts' = Nobody /\ pending' = disk
         /\ UNCHANGED disk

Next == Start \/ Option \/ Run \/ Serve \/ Stop \/ StopUnwritten \/ Exit \/ Crash

Spec == Init /\ [][Next]_vars
=============================================================================
