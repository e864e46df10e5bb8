------------------------------- MODULE Users -------------------------------
(***************************************************************************)
(* The accounts of server/users.c, over the runs of the server: the table  *)
(* in memory, changed by the monitor's requests (monitor_req_utils.c), and *)
(* the file it is read from when the server starts and written to when the *)
(* server is told to stop (main.c).                                        *)
(*                                                                         *)
(* A text is a sequence of characters, as far as the parser tells them     *)
(* apart: the two marks of a level, the delimiter, the end of a line, the  *)
(* other bytes below 32, those from 128 on, and letters, which stand for   *)
(* the rest.  char is signed, so a byte from 128 on is less than zero, and *)
(* parse_user takes it for the end of the file.  How long a name or a      *)
(* password may be is left out.                                            *)
(***************************************************************************)
EXTENDS Accounts

CONSTANTS Letter,
          Name,        \* the names an administrator gives to accounts
          Password,    \* the passwords an administrator gives to accounts
          Shipped,     \* the file the server finds first
          Flushed      \* how much of a file stdio may have written before its end

Special == {"@", "#", ":", "newline", "control", "negative"}
Char    == Letter \cup Special

ASSUME UsersAssumption ==
  /\ Letter \cap Special = {}
  /\ Name \subseteq Seq(Char) /\ Password \subseteq Seq(Char)
  /\ Shipped \in Seq(Char)
  /\ Flushed \subseteq Nat

Account == [name : Seq(Char), pass : Seq(Char), level : Level]

VARIABLES table,    \* users[0 .. users_size - 1]
          file,     \* the text of users.txt
          written,  \* the text users.txt has once the process has ended
          status,   \* "down", "starting" (main creates the accounts of -u),
                    \* "running" or "stopping" (after users_shutdown)
          kept      \* the table when the server was last stopped in order

vars == <<table, file, written, status, kept>>
-----------------------------------------------------------------------------
(* load_users, a character at a time.  A reader is the place of parse_user *)
(* that takes the next one, what it has of an account, and the table.      *)

Reader == [mode : {"start", "name", "pass", "skip", "over"}, name : Seq(Char), pass : Seq(Char),
           level : Level, table : Seq(Account)]

Fresh == [mode |-> "start", name |-> <<>>, pass |-> <<>>, level |-> USER, table |-> <<>>]

\* user_create is called with what was parsed.
Entered(r) ==
  [r EXCEPT !.mode = "start",
            !.table = Created(@, [name |-> r.name, pass |-> r.pass, level |-> r.level])]

\* skipWhiteSpaces and the level: what is no mark is passed over.
ReadLevel(r, c) ==
  CASE c \in {"@", "#"} -> [r EXCEPT !.mode = "name", !.name = <<>>, !.pass = <<>>,
                                     !.level = IF c = "@" THEN ADMIN ELSE USER]
    [] c = "negative"   -> [r EXCEPT !.mode = "over"]
    [] OTHER            -> r

\* A line that ends within the name is no account.
ReadName(r, c) ==
  CASE c \in {":", "negative"} -> [r EXCEPT !.mode = "pass"]
    [] c = "newline"           -> [r EXCEPT !.mode = "start"]
    [] c = "control"           -> [r EXCEPT !.mode = "skip"]
    [] OTHER                   -> [r EXCEPT !.name = Append(@, c)]

\* After a byte from 128 on the rest of the line is read as a line.
ReadPass(r, c) ==
  CASE c \in {"newline", "negative"} -> Entered(r)
    [] c = "control"                 -> [r EXCEPT !.mode = "skip"]
    [] OTHER                         -> [r EXCEPT !.pass = Append(@, c)]

\* skipLine: a byte from 128 on ends the load.
Skip(r, c) ==
  CASE c = "newline"  -> [r EXCEPT !.mode = "start"]
    [] c = "negative" -> [r EXCEPT !.mode = "over"]
    [] OTHER          -> r

\* What a character makes of a reader.
Read(c) ==
  [r \in Reader |->
     CASE r.mode = "start" -> ReadLevel(r, c)
       [] r.mode = "name"  -> ReadName(r, c)
       [] r.mode = "pass"  -> ReadPass(r, c)
       [] r.mode = "skip"  -> Skip(r, c)
       [] r.mode = "over"  -> r]

\* The reader after each number of characters.
Reading(text) ==
  LET after[k \in 0..Len(text)] == IF k = 0 THEN Fresh ELSE Read(text[k])[after[k - 1]]
  IN  after

\* The end of the file ends a name and a password, too.
Finished(r) == IF r.mode \in {"name", "pass"} THEN Entered(r).table ELSE r.table

Loaded(text) == Finished(Reading(text)[Len(text)])

LineOf(u) ==
  <<IF u.level = ADMIN THEN "@" ELSE "#">> \o u.name \o <<":">> \o u.pass \o <<"newline">>

\* With a fault: the loop ends one account early.
SavedShort(t) == FlattenSeq([i \in 1..(Len(t) - 1) |-> LineOf(t[i])])

\* save_users, for a table that is not empty.
Saved(t) == FlattenSeq([i \in 1..Len(t) |-> LineOf(t[i])])
-----------------------------------------------------------------------------
Init == /\ table = <<>> /\ status = "down"
        /\ file = Shipped /\ written = file
        /\ kept = <<>>

\* users_init.
Start ==
  /\ status = "down" /\ status' = "starting"
  /\ table' = Loaded(file) /\ kept' = <<>>
  /\ UNCHANGED <<file, written>>

\* user_create for an account of the option -u, whose name has no delimiter.  Of
\* such accounts main takes MAX_USERS at most.
AddOption ==
  /\ status = "starting"
  /\ \E n \in Name, p \in Password :
       /\ ":" \notin Range(n)
       /\ table' = Created(table, [name |-> n, pass |-> p, level |-> USER])
  /\ UNCHANGED <<file, written, status, kept>>

\* main goes on to its loop.
Run ==
  /\ status = "starting" /\ status' = "running"
  /\ UNCHANGED <<table, file, written, kept>>

\* ADD_USER.  valid_user refuses every text, and user_create is called for
\* what it refuses.
AddOf(n, p, l) ==
  /\ status = "running"
  /\ table' = Created(table, [name |-> n, pass |-> p, level |-> l])
  /\ UNCHANGED <<file, written, status, kept>>

AddUser == \E n \in Name, p \in Password, l \in Level : AddOf(n, p, l)

\* REMOVE_USER.
RemoveOf(n) ==
  /\ status = "running" /\ table' = Deleted(table, n)
  /\ UNCHANGED <<file, written, status, kept>>

RemoveUser == \E n \in NamesOf(table) : RemoveOf(n)

\* CHANGE_PASSWD.
ChangeOf(n, p) ==
  /\ status = "running" /\ table' = PasswordChanged(table, n, p)
  /\ UNCHANGED <<file, written, status, kept>>

ChangePassword == \E n \in NamesOf(table), p \in Password : ChangeOf(n, p)

\* users_shutdown after SIGINT or SIGTERM.  An empty table is not written.
\* Opening the file empties it, and each block that fills up goes to it; the rest
\* stays in the stream, which nobody closes, until the process ends.
Shutdown ==
  /\ status = "running"
  /\ IF table = <<>>
     THEN UNCHANGED <<file, written>>
     ELSE /\ written' = Saved(table)
          /\ \E n \in Flushed : n <= Len(written') /\ file' = SubSeq(written', 1, n)
  /\ status' = "stopping" /\ table' = <<>> /\ kept' = table

\* users_shutdown when the file cannot be opened.  The table is not freed, but
\* nothing uses it any more.
ShutdownFails ==
  /\ status = "running" /\ table # <<>>
  /\ status' = "stopping" /\ table' = <<>> /\ kept' = <<>>
  /\ UNCHANGED <<file, written>>

\* main returns once the selector is destroyed.
Exit ==
  /\ status = "stopping"
  /\ status' = "down" /\ file' = written
  /\ UNCHANGED <<table, written, kept>>

\* The process ends without returning from main: exit or abort in a handler, a
\* signal; or, once users_shutdown has run, a callback that selector_destroy
\* makes for a record that was freed.  What the stream still has is lost with it.
Crash ==
  /\ status \in {"starting", "running", "stopping"}
  /\ status' = "down" /\ table' = <<>> /\ written' = file
  /\ kept' = <<>>
  /\ UNCHANGED file

Next == \/ Start \/ AddOption \/ Run \/ AddUser \/ RemoveUser \/ ChangePassword
        \/ Shutdown \/ ShutdownFails \/ Exit \/ Crash

Spec == Init /\ [][Next]_vars
-----------------------------------------------------------------------------
TypeOK ==
  /\ table \in Seq(Account) /\ kept \in Seq(Account)
  /\ Len(table) <= MaxUsers          \* the size of the array users_init allocates
  /\ file \in Seq(Char) /\ written \in Seq(Char)
  /\ status \in {"down", "starting", "running", "stopping"}

\* No two accounts have one name, so that user_login, user_delete and
\* user_change_password mean the same one, whatever was created, deleted, saved
\* and read again, names that fall together when they are read included.
NamesUnique ==
  \A i, j \in DOMAIN table : table[i].name = table[j].name => i = j

\* What parse_user reads as it was written.
PlainName == Seq(Char \ {":", "newline", "control", "negative"})
PlainPass == Seq(Char \ {"newline", "control", "negative"})

AllPlain(t) == \A i \in DOMAIN t : t[i].name \in PlainName /\ t[i].pass \in PlainPass

\* The accounts of a server that was stopped in order, passwords and levels
\* included, are those of the next one, if there are any, no name has the
\* delimiter in it, and no name or password a byte below 32 or from 128 on:
\* ADD_USER and CHANGE_PASSWD take all of these, and one of them may cost other
\* accounts as well as its own (users.c:63-98, users.c:285).
AccountsSurvive ==
  status = "down" /\ kept # <<>> /\ AllPlain(kept) => Loaded(file) = kept
-----------------------------------------------------------------------------
\* What the scans for a name make of a table.
AccountsOf(t) ==
  [n \in NamesOf(t) |->
     [pass |-> t[IndexOf(t, n)].pass, level |-> t[IndexOf(t, n)].level]]

D == INSTANCE Directory WITH
       accounts <- AccountsOf(table),
       disk     <- AccountsOf(Loaded(file)),
       pending  <- AccountsOf(Loaded(written)),
       Plain <- PlainName

\* Every request is that request of the directory: the same account is created,
\* deleted or changed, or the request is refused, for no other reason.
RequestsMeanAccounts ==
  /\ \A n \in Name, p \in Password, l \in Level : AddOf(n, p, l) => D!Add(n, p, l)
  /\ \A n \in NamesOf(table) : RemoveOf(n) => D!Remove(n)
  /\ \A n \in NamesOf(table), p \in Password : ChangeOf(n, p) => D!Change(n, p)

\* Whatever the requests, stops and crashes, the array with its scans, its
\* moves and the text it is saved as are one map from names to accounts: a
\* request changes the account it names and no other, and a crash while the
\* server runs costs what changed since the start and nothing else.  If parse_user
\* reads every name and password as it was written, what an orderly stop found is
\* what is read again, and what a crash within a stop leaves are accounts of the
\* table, all but one of them whole (users.c:22-301).
AccountsAreADirectory == D!Spec /\ [][RequestsMeanAccounts]_vars
=============================================================================
