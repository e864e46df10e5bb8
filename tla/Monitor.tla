------------------------------ MODULE Monitor ------------------------------
(***************************************************************************)
(* The sessions of administrators (server/monitor): each logs in, sends    *)
(* one request and gets one answer, while the others do the same to the    *)
(* accounts and to the accepted methods.                                   *)
(*                                                                         *)
(* A callback touches the record and the descriptor of its own session     *)
(* only, so it is one step and the order within an iteration of the        *)
(* selector is any.  monitor_*_read take one byte per callback; a step     *)
(* here takes what the parser makes an event of: the login, the type, an   *)
(* argument, the terminator.  What the arguments say is chosen at the      *)
(* terminator, the only moment the server looks at them.                   *)
(***************************************************************************)
EXTENDS Accounts, FiniteSets

CONSTANTS Admin,      \* sessions of the monitor
          Name,       \* names in logins and requests
          Password,   \* passwords in logins and requests
          First,      \* the accounts when the server starts to serve
          Methods,    \* bytes that requests give as methods
          Cells,      \* the size of accepted_methods
          LastIndex,  \* INT8_MAX, the greatest value of the index of its scan
          MaxArgs     \* bound: the arguments of a request of each type

\* monitor_request_t, and any other byte.
Request == {"ADD_USER", "REMOVE_USER", "CHANGE_PASSWD", "STATISTICS",
            "CHANGE_AUTH_METHODS", "unknown"}

ASSUME MonitorAssumption ==
  /\ Cells \in Nat /\ Cells >= 2
  /\ LastIndex \in 1..(Cells - 1)
  /\ MaxArgs \in [Request -> 0..(Cells - 1)]
  /\ Methods \subseteq Nat
  /\ First \in Seq([name : Name, pass : Password, level : Level]) /\ Len(First) <= MaxUsers

\* max_arguments, for the requests whose arguments are counted.
Arity == [ADD_USER |-> 3, REMOVE_USER |-> 1, CHANGE_PASSWD |-> 2, STATISTICS |-> 0]

\* monitor_error_t.
USER_NOT_FOUND  == 1
WRONG_PASSWORD  == 3
LACKS_PRIVILEGE == 4
IO_ERROR        == 5
NO_ERROR        == 0

NO_AUTH   == 0
USER_PASS == 2
END       == -1       \* what ends the list in accepted_methods

NOBODY == 2           \* the level of a session that did not log in

VARIABLES conn,      \* monitor_t, and what became of each session
          table,     \* the accounts
          methods,   \* accepted_methods
          agreed,    \* <<methods, length>> of the last list that was stored
                     \* whole, or <<>> once a list was refused
          status     \* of the server: "running", "stopped" or "broken"

vars == <<conn, table, methods, agreed, status>>
-----------------------------------------------------------------------------
(* The list of accepted methods (auth_utils.c).                            *)

Supported == {NO_AUTH, USER_PASS}

\* With a fault: every method is stored.
StoredUnchecked(l) == Len(l)

\* How many methods are stored before the first one that is not supported.
Stored(l) == Cardinality({i \in DOMAIN l : \A j \in 1..i : l[j] \in Supported})

Overwritten(m, l, k) == [i \in DOMAIN m |-> IF i <= k THEN l[i] ELSE m[i]]

\* With a fault: the list is not ended.
MethodsUnended(m, l) == Overwritten(m, l, Stored(l))

\* change_auth_methods: entry by entry over the old list, and the end last.
MethodsChanged(m, l) ==
  LET k == Stored(l)  new == Overwritten(m, l, k) IN
  IF k = Len(l) THEN [new EXCEPT ![k + 1] = END] ELSE new

\* The entries the scan of accepted_method can look at: its index is an int8_t,
\* which goes from INT8_MAX to a negative number, outside the array.
Scanned(m) == {i \in DOMAIN m : i <= LastIndex + 1}

\* The scan meets the end of the list before its index wraps.
ScanEnds(m) == \E i \in Scanned(m) : m[i] = END

\* accepted_method: what the scan meets before the end of the list.
AcceptedMethods(m) == {m[i] : i \in {i \in Scanned(m) : \A j \in 1..i : m[j] # END}}
-----------------------------------------------------------------------------
(* Sessions.                                                               *)

\* told: the bytes sent to the client.  login: the level of the account the
\* session logged in to, or NOBODY.  done: whether its request took effect.
\* fate: how it ended.
Fresh == [state |-> "new", wants |-> {"R"}, level |-> ADMIN, type |-> "none",
          read |-> 0, ended |-> FALSE, told |-> <<>>, login |-> NOBODY,
          done |-> FALSE, fate |-> "open"]

Init ==
  /\ conn = [s \in Admin |-> [Fresh EXCEPT !.state = "closed", !.wants = {}, !.fate = "none"]]
  /\ table = First
  /\ methods = [i \in 1..Cells |-> CASE i = 1 -> USER_PASS [] i = 2 -> END [] OTHER -> 0]
  /\ agreed = <<{USER_PASS}, 1>>
  /\ status = "running"

\* monitor_auth_finalize.
Departure(c) == IF c.level = ADMIN THEN 0 ELSE 1

\* monitor_done_arrival or monitor_error_arrival: unregistered, closed, freed.
Closed(c, fate, bytes) ==
  [c EXCEPT !.state = "closed", !.wants = {}, !.type = "none", !.read = 0,
            !.ended = FALSE, !.level = ADMIN, !.fate = fate, !.told = @ \o bytes]

Can(s, op, states) ==
  status = "running" /\ op \in conn[s].wants /\ conn[s].state \in states

Become(s, c) == conn' = [conn EXCEPT ![s] = c]

\* monitor_req_finalize frees arguments up to the terminator of the array.
\* Before the first length byte there is none: the array is as malloc left it,
\* and what follows is undefined.
Leave(s, fate, bytes) ==
  \/ Become(s, Closed(conn[s], fate, bytes)) /\ status' = status
  \/ /\ ~conn[s].ended
     /\ status' = "broken" /\ Become(s, [conn[s] EXCEPT !.fate = fate])

\* handle_read_passive_monitor: the record comes from calloc.
Accept(s) ==
  /\ status = "running" /\ conn[s].state = "closed"
  /\ Become(s, Fresh)
  /\ UNCHANGED <<table, methods, agreed, status>>

\* A byte that does not complete the login.
AuthMore(s) ==
  /\ Can(s, "R", {"new", "AUTH"})
  /\ Become(s, [conn[s] EXCEPT !.state = "AUTH"])
  /\ UNCHANGED <<table, methods, agreed, status>>

\* recv fails in monitor_auth_read, or returns 0.  An errno that an earlier call
\* left at EAGAIN makes it AuthMore.
AuthGone(s) ==
  /\ Can(s, "R", {"new", "AUTH"})
  /\ Become(s, Closed(conn[s], "hangup", <<Departure(conn[s]), IO_ERROR>>))
  /\ UNCHANGED <<table, methods, agreed, status>>

Matches(n, p) ==
  n \in NamesOf(table) /\ table[IndexOf(table, n)].pass = p

\* user_login, and what monitor_auth_read makes of it.
LoginError(n, p) ==
  IF n \notin NamesOf(table) THEN USER_NOT_FOUND
  ELSE IF ~Matches(n, p) THEN WRONG_PASSWORD
  ELSE IF table[IndexOf(table, n)].level # ADMIN THEN LACKS_PRIVILEGE
  ELSE NO_ERROR

\* user_login stores the level only if the password is right.
LoggedIn(c, n, p) ==
  IF Matches(n, p)
  THEN LET l == table[IndexOf(table, n)].level IN [c EXCEPT !.level = l, !.login = l]
  ELSE c

\* With a fault: only the departure handler answers.
LoginRefusalByDeparture(c, e) == <<Departure(c), e>>

\* The failure, the departure from MONITOR_AUTH, the arrival in MONITOR_ERROR.
LoginRefusal(c, e) == <<1, Departure(c), e>>

LoginFails(s) ==
  /\ Can(s, "R", {"new", "AUTH"})
  /\ \E n \in Name, p \in Password :
       LET c == LoggedIn(conn[s], n, p)  e == LoginError(n, p) IN
       e # NO_ERROR /\ Become(s, Closed(c, "refused", LoginRefusal(c, e)))
  /\ UNCHANGED <<table, methods, agreed, status>>

\* With a fault: whoever has a password is let in.
LoginUnranked(s) ==
  /\ Can(s, "R", {"new", "AUTH"})
  /\ \E n \in Name, p \in Password :
       LET c == LoggedIn(conn[s], n, p) IN
       /\ LoginError(n, p) \in {NO_ERROR, LACKS_PRIVILEGE}
       /\ Become(s, [c EXCEPT !.state = "REQ", !.told = <<0>>])
  /\ UNCHANGED <<table, methods, agreed, status>>

\* The departure handler is what tells the client that it is logged in.
Login(s) ==
  /\ Can(s, "R", {"new", "AUTH"})
  /\ \E n \in Name, p \in Password :
       LET c == LoggedIn(conn[s], n, p) IN
       /\ LoginError(n, p) = NO_ERROR
       /\ Become(s, [c EXCEPT !.state = "REQ", !.told = <<Departure(c)>>])
  /\ UNCHANGED <<table, methods, agreed, status>>

ReqType(s) ==
  /\ Can(s, "R", {"REQ"}) /\ conn[s].type = "none"
  /\ \E t \in Request : Become(s, [conn[s] EXCEPT !.type = t])
  /\ UNCHANGED <<table, methods, agreed, status>>

\* With a fault: the array is not ended behind the argument.
ReqArgUnended(s) ==
  /\ Can(s, "R", {"REQ"}) /\ conn[s].type # "none"
  /\ conn[s].read < MaxArgs[conn[s].type]
  /\ Become(s, [conn[s] EXCEPT !.read = @ + 1])
  /\ UNCHANGED <<table, methods, agreed, status>>

\* An argument, or its length: the array is ended behind it either way.
ReqArg(s) ==
  /\ Can(s, "R", {"REQ"}) /\ conn[s].type # "none"
  /\ conn[s].read < MaxArgs[conn[s].type]
  /\ Become(s, [conn[s] EXCEPT !.read = @ + 1, !.ended = TRUE])
  /\ UNCHANGED <<table, methods, agreed, status>>

\* recv fails in monitor_req_read, or returns 0.
ReqGone(s) ==
  /\ Can(s, "R", {"REQ"})
  /\ Leave(s, "hangup", <<IO_ERROR>>)
  /\ UNCHANGED <<table, methods, agreed>>

\* The terminator of a request of type t.
Terminates(s, t) == Can(s, "R", {"REQ"}) /\ conn[s].type = t

Complete(s, t) == Terminates(s, t) /\ conn[s].read = Arity[t]

\* What the session becomes when handle_request returns: it waits to be
\* answered (only the length of the answer depends on the request, which is
\* forgotten here), or it ends, with no byte for the client.
Handled(s, ok, done) ==
  /\ Become(s, IF ok THEN [conn[s] EXCEPT !.wants = {"W"}, !.type = "none", !.read = 0,
                                         !.ended = TRUE, !.done = done]
                     ELSE Closed([conn[s] EXCEPT !.done = done], "refused", <<>>))
  /\ status' = status

\* With a fault: valid_user accepts the text, so user_create is not called.
AddUserValidated(s) ==
  /\ Complete(s, "ADD_USER")
  /\ Handled(s, TRUE, FALSE)
  /\ UNCHANGED <<table, methods, agreed>>

\* valid_user refuses every text, and user_create is called for what it refuses.
\* The level is the first byte of the third argument.
AddUser(s) ==
  /\ Complete(s, "ADD_USER")
  /\ \E n \in Name, p \in Password, l \in Level \cup {2} :
       LET u == [name |-> n, pass |-> p, level |-> l] IN
       /\ table' = Created(table, u)
       /\ Handled(s, Creatable(table, u), table' # table)
  /\ UNCHANGED <<methods, agreed>>

RemoveUser(s) ==
  /\ Complete(s, "REMOVE_USER")
  /\ \E n \in Name : /\ table' = Deleted(table, n)
                     /\ Handled(s, n \in NamesOf(table), table' # table)
  /\ UNCHANGED <<methods, agreed>>

ChangePassword(s) ==
  /\ Complete(s, "CHANGE_PASSWD")
  /\ \E n \in Name, p \in Password :
       /\ table' = PasswordChanged(table, n, p)
       /\ LET now == n \in NamesOf(table') /\ table'[IndexOf(table', n)].pass = p IN
          Handled(s, n \in NamesOf(table), now)
  /\ UNCHANGED <<methods, agreed>>

\* The counters are copied now and sent when the client can be written to.
Statistics(s) ==
  /\ Complete(s, "STATISTICS")
  /\ Handled(s, TRUE, TRUE)
  /\ UNCHANGED <<table, methods, agreed>>

\* A refused list leaves its first entries over the old list.
ChangeMethods(s) ==
  /\ Terminates(s, "CHANGE_AUTH_METHODS")
  /\ \E l \in [1..conn[s].read -> Methods] :
       LET all == Stored(l) = Len(l) IN
       /\ methods' = MethodsChanged(methods, l)
       /\ agreed' = IF all THEN <<{l[i] : i \in DOMAIN l}, Len(l)>> ELSE <<>>
       /\ Handled(s, all, all)
  /\ UNCHANGED table

\* A number of arguments that is not the type's, or a type there is not.  For the
\* latter max_arguments is read past its end; whatever is found there, the
\* request is refused, here or by handle_request.
BadRequest(s) ==
  /\ \/ Terminates(s, "unknown")
     \/ \E t \in DOMAIN Arity : Terminates(s, t) /\ conn[s].read # Arity[t]
  /\ Handled(s, FALSE, FALSE)
  /\ UNCHANGED <<table, methods, agreed>>

\* send_response: the status, 0, and the counters after it if they were asked for.
ReqWrite(s) ==
  /\ Can(s, "W", {"REQ"})
  /\ Leave(s, "answered", <<0>>)
  /\ UNCHANGED <<table, methods, agreed>>

\* The connection failed: the answer is lost, what the request did is not.
ReqWriteFails(s) ==
  /\ Can(s, "W", {"REQ"})
  /\ Leave(s, "lost", <<IO_ERROR>>)
  /\ UNCHANGED <<table, methods, agreed>>

Unended == {s \in Admin : conn[s].state = "REQ" /\ ~conn[s].ended}

\* No descriptor is left for accept, and handle_read_passive_monitor exits; or
\* the process ends in another handler.
Exit ==
  /\ status = "running" /\ status' = "stopped"
  /\ conn' = [s \in Admin |-> IF conn[s].state = "closed" THEN conn[s]
                             ELSE Closed(conn[s], "stopped", <<>>)]
  /\ UNCHANGED <<table, methods, agreed>>

\* SIGINT or SIGTERM: selector_destroy unregisters what is left, and each session
\* departs from the state it is in.
Stop ==
  /\ status = "running"
  /\ \/ /\ status' = "stopped"
        /\ conn' = [s \in Admin |->
             CASE conn[s].state = "closed" -> conn[s]
               [] conn[s].state = "AUTH"   -> Closed(conn[s], "stopped", <<Departure(conn[s])>>)
               [] OTHER                    -> Closed(conn[s], "stopped", <<>>)]
     \/ /\ Unended # {} /\ status' = "broken"
        /\ conn' = [s \in Admin |->
             IF s \in Unended THEN [conn[s] EXCEPT !.fate = "stopped"] ELSE conn[s]]
  /\ UNCHANGED <<table, methods, agreed>>

Auth(s) == AuthMore(s) \/ AuthGone(s) \/ LoginFails(s) \/ Login(s)

Req(s) == \/ ReqType(s) \/ ReqArg(s) \/ ReqGone(s) \/ BadRequest(s)
          \/ AddUser(s) \/ RemoveUser(s) \/ ChangePassword(s)
          \/ Statistics(s) \/ ChangeMethods(s)
          \/ ReqWrite(s) \/ ReqWriteFails(s)

Next == (\E s \in Admin : Accept(s) \/ Auth(s) \/ Req(s)) \/ Exit \/ Stop

Spec == Init /\ [][Next]_vars
-----------------------------------------------------------------------------
\* monitor_t, and the ghosts of a session.
Conn ==
  [state : {"closed", "new", "AUTH", "REQ"}, wants : SUBSET {"R", "W"},
   level : Level, type : Request \cup {"none"}, read : 0..(Cells - 1),
   ended : BOOLEAN, told : Seq(0..5), login : Level \cup {NOBODY},
   done : BOOLEAN,
   fate : {"none", "open", "answered", "refused", "lost", "hangup", "stopped"}]

Answers == {<<>>} \cup {<<m, n>> : m \in SUBSET Supported, n \in 0..(Cells - 1)}

TypeOK ==
  /\ conn \in [Admin -> Conn]
  /\ table \in Seq([name : Name, pass : Password, level : Level])
  /\ Len(table) <= MaxUsers
  /\ methods \in [1..Cells -> {END} \cup Supported]
  /\ agreed \in Answers
  /\ status \in {"running", "stopped", "broken"}

\* read_monitor_auth_reply, the client's: the first byte decides, and the
\* client leaves if it is not 0.
ReplyAccepts(bytes) == bytes # <<>> /\ Head(bytes) = 0

\* The client takes itself for logged in as an administrator only if it is,
\* or if its session was cut short during the login.  After a refused login the
\* departure handler sends 0 as well, for a level nobody stored: the refusal
\* must be on its way before (monitor_auth.c:97-169).
FirstByteTrue ==
  \A s \in Admin :
    ReplyAccepts(conn[s].told) =>
      conn[s].login = ADMIN \/ conn[s].fate \in {"hangup", "stopped"}

\* Accounts and methods change only by the request of a session that logged in
\* as an administrator, whatever happened to the account since (the level is
\* read once, user_login).
ChangesByAdmins ==
  [][table' # table \/ methods' # methods =>
       \E s \in Admin : /\ conn[s].state = "REQ" /\ conn[s].login = ADMIN
                        /\ conn'[s] # conn[s]]_vars

\* A client that was told 0 twice had its request carried out, once; one whose
\* request was carried out is told so unless the connection or the server
\* ended; one whose request was refused is told nothing after the login
\* (monitor_req_read, send_response).
OutcomeKnown ==
  \A s \in Admin : LET c == conn[s] IN
    /\ c.told = <<0, 0>> => c.done /\ c.login = ADMIN /\ c.fate = "answered"
    /\ c.done /\ c.state = "closed" => c.fate \in {"answered", "lost", "stopped"}
    /\ c.fate = "refused" => ~c.done /\ (c.login = ADMIN => c.told = <<0>>)

\* Until a list is refused, accepted_method ends within the array and accepts
\* exactly the methods of the last list an administrator was answered for, if
\* that list has at most INT8_MAX entries, whatever the lists before it left in
\* the array; for a longer list, which is stored and answered for as well, its
\* scan does not meet the end and leaves the array (auth_utils.c:18-53).
MethodsAsAnswered ==
  agreed # <<>> =>
    /\ ScanEnds(methods) <=> agreed[2] <= LastIndex
    /\ ScanEnds(methods) => AcceptedMethods(methods) = agreed[1]

\* The arguments are freed up to a terminator that is there, except in a
\* session that ends between its login and its first argument
\* (monitor_req.c:105-115).
FinalizerDefined ==
  /\ \A s \in Admin : conn[s].state = "REQ" /\ conn[s].fate # "open" => conn[s].read = 0
  /\ status = "broken" => \E s \in Admin : conn[s].state = "REQ" /\ conn[s].fate # "open"
=============================================================================
