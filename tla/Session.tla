------------------------------ MODULE Session ------------------------------
(***************************************************************************)
(* The life of the proxied sessions that share one server: accepting a     *)
(* client (master_utils.c), the SOCKS5 greeting, authentication and        *)
(* request (hello.c, auth.c, request.c), the name lookup, the connection   *)
(* to the destination, and the end of the session (closing.c), driven by   *)
(* the callbacks of the selector (selector.c, client_utils.c, stm.c).      *)
(*                                                                         *)
(* The module keeps what the sessions share: the descriptor numbers, the   *)
(* selector's table of items, the callbacks left of the current            *)
(* iteration, and the statistics.  What a session does while it forwards   *)
(* is the subject of Forwarding.tla; here it may change the interests of   *)
(* its two descriptors, fail, or finish.                                   *)
(***************************************************************************)
EXTENDS Integers, Sequences, FiniteSets

CONSTANTS Session,    \* the client_t records the server may allocate
          Nobody,     \* no record
          MaxFd,      \* the descriptor numbers sockets may get are 1..MaxFd
          MaxAddrs,   \* addresses a name resolves to at most
          MethodSets  \* the sets of methods an administrator may choose

ASSUME SessionAssumption ==
  /\ Nobody \notin Session
  /\ MaxFd \in Nat \ {0}
  /\ MaxAddrs \in Nat \ {0}
  /\ MethodSets \subseteq SUBSET {0, 2}

Fd   == 1..MaxFd
NoFd == -1                       \* destination_fd before try_connect
Op   == {"R", "W"}               \* OP_READ, OP_WRITE

\* Authentication methods: those the server implements, one it does not, and
\* the answer that none of the offered ones is acceptable.
Supported == {0, 2}              \* HELLO_AUTH_NO_AUTH, HELLO_AUTH_USER_PASS
Method    == Supported \cup {1}
NoMethod  == 255

\* SOCKS_REPLY_: success, general failure, network unreachable, host
\* unreachable, command not supported.
Reply == {0, 1, 3, 4, 7}

\* client_state_t, by the handler each state defines.
Readers == {"HELLO_READ", "AUTH_READ", "REQUEST_READ", "FORWARDING"}
Writers == {"HELLO_WRITE", "AUTH_WRITE", "DNS_LOOKUP", "DEST_CONNECT",
            "REQUEST_WRITE", "FORWARDING"}
State   == Readers \cup Writers \cup {"DONE", "ERROR"}

VARIABLES
  ses,       \* ses[s]: the client_t record, what its client was told, and whether it exists
  sock,      \* sock[f]: the socket behind descriptor f, as the kernel has it
  item,      \* item[f]: the selector's item for descriptor f
  todo,      \* <<f, op>> reported by pselect and not yet scanned
  accepted,  \* auth_utils.c, accepted_methods
  current,   \* stats.c, current_connections
  historic,  \* stats.c, historic_connections
  status     \* "running", or how the process ended

vars == <<ses, sock, item, todo, accepted, current, historic, status>>

\* phase: not allocated yet, in use, freed.  method, login, reply and err are
\* what the parsers and handlers leave in the record; dns is the lookup handed
\* to getaddrinfo_a; addrs counts the addresses from dest_addr on; told is
\* every message the client was sent before forwarding started.
Unborn == [phase |-> "unborn", state |-> "HELLO_READ", cfd |-> NoFd, dfd |-> NoFd,
           method |-> NoMethod, login |-> FALSE, dns |-> "none", addrs |-> 0,
           reply |-> 0, err |-> 0, told |-> <<>>]

Unused == [data |-> Nobody, interest |-> {}]

\* main.c: change_auth_methods(NULL) leaves user and password.
Init == /\ ses = [s \in Session |-> Unborn]
        /\ sock = [f \in Fd |-> "free"]
        /\ item = [f \in Fd |-> Unused]
        /\ todo = {} /\ accepted = {2}
        /\ current = 0 /\ historic = 0 /\ status = "running"
-----------------------------------------------------------------------------
(* The selector.                                                           *)

\* The kernel hands out the lowest free number.
FreeFds(k)    == {f \in Fd : k[f] = "free"}
LowestFree(k) == CHOOSE f \in FreeFds(k) : \A g \in FreeFds(k) : f <= g

Live(s) == ses[s].phase = "live"

\* pselect answers EBADF, and handle_iteration does not run, while a closed
\* descriptor is in the sets it is given.
Serving == \A f \in Fd : item[f].interest # {} => sock[f] # "free"

BetweenIterations == status = "running" /\ todo = {} /\ Serving

\* selector_set_interest: refused for a descriptor that is not registered.
SetInterest(it, f, i) ==
  IF f \in Fd /\ it[f] # Unused THEN [it EXCEPT ![f].interest = i] ELSE it

Select ==
  /\ BetweenIterations
  /\ todo' \in SUBSET {cb \in Fd \X Op : cb[2] \in item[cb[1]].interest
                                         /\ sock[cb[1]] # "connecting"}
  /\ todo' # {}
  /\ UNCHANGED <<ses, sock, item, accepted, current, historic, status>>

\* handle_iteration scans the descriptors upwards, reading before writing.
IsNext(f, op) ==
  /\ <<f, op>> \in todo
  /\ \A cb \in todo : f < cb[1] \/ (f = cb[1] /\ (op = "R" \/ cb[2] = "W"))

NotCalled ==
  /\ status = "running"
  /\ \E f \in Fd, op \in Op : /\ IsNext(f, op) /\ op \notin item[f].interest
                              /\ todo' = todo \ {<<f, op>>}
  /\ UNCHANGED <<ses, sock, item, accepted, current, historic, status>>

\* The callback of descriptor f runs with record s: key.data is the item's.
Called(s, f, op) == /\ status = "running" /\ IsNext(f, op)
                    /\ op \in item[f].interest /\ item[f].data = s

\* The record was freed while its descriptor stayed registered.  What the
\* callback then reads is undefined; the process does not survive it.
CallDangling ==
  /\ \E s \in Session, f \in Fd, op \in Op : Called(s, f, op) /\ ~Live(s)
  /\ status' = "dangling"
  /\ UNCHANGED <<ses, sock, item, todo, accepted, current, historic>>

\* stm.c: the state defines no handler for the event.
CallUnhandled ==
  /\ \E s \in Session, f \in Fd, op \in Op :
        /\ Called(s, f, op) /\ Live(s)
        /\ ses[s].state \notin IF op = "R" THEN Readers ELSE Writers
  /\ status' = "aborted"
  /\ UNCHANGED <<ses, sock, item, todo, accepted, current, historic>>

\* Handler `state' of session s runs for event op on descriptor f.
Runs(s, f, op, state) == Called(s, f, op) /\ Live(s) /\ ses[s].state = state
-----------------------------------------------------------------------------
(* What a handler leaves behind.                                           *)

Close(k, f)       == IF f = NoFd THEN k ELSE [k EXCEPT ![f] = "free"]
Unregister(it, f) == IF f = NoFd THEN it ELSE [it EXCEPT ![f] = Unused]

\* The callback on f returns with the record r, the sockets k and the items it.
Return(s, f, op, r, k, it) ==
  /\ ses' = [ses EXCEPT ![s] = r]
  /\ sock' = k /\ item' = it
  /\ todo' = todo \ {<<f, op>>}
  /\ UNCHANGED <<accepted, status>>

Continue(s, f, op, r, it) ==
  /\ Return(s, f, op, r, sock, it)
  /\ UNCHANGED <<current, historic>>

\* With a fault: client_fd is cleared before the descriptor is unregistered.
DestroyUncounted(s, f, op, r, k, it) ==
  /\ Return(s, f, op, [r EXCEPT !.phase = "freed", !.cfd = NoFd, !.dfd = NoFd],
            Close(Close(k, r.cfd), r.dfd), Unregister(Unregister(it, r.cfd), r.dfd))
  /\ UNCHANGED <<current, historic>>

\* With a fault: either descriptor counts the session out.
DestroyCountsTwice(s, f, op, r, k, it) ==
  /\ Return(s, f, op, [r EXCEPT !.phase = "freed", !.cfd = NoFd, !.dfd = NoFd],
            Close(Close(k, r.cfd), r.dfd), Unregister(Unregister(it, r.cfd), r.dfd))
  /\ current' = IF r.dfd = NoFd THEN current - 1 ELSE current - 2
  /\ UNCHANGED historic

\* With a fault: the client's descriptor is closed and stays registered.
DestroyRegistered(s, f, op, r, k, it) ==
  /\ Return(s, f, op, [r EXCEPT !.phase = "freed", !.cfd = NoFd, !.dfd = NoFd],
            Close(Close(k, r.cfd), r.dfd), Unregister(it, r.dfd))
  /\ current' = current - 1
  /\ UNCHANGED historic

\* end_connection: close and unregister both descriptors, free the addresses
\* and the record.  A lookup that still runs is not cancelled by freeing it.
\* handle_close_client counts the client's descriptor out.
Destroy(s, f, op, r, k, it) ==
  /\ Return(s, f, op,
            [r EXCEPT !.phase = "freed", !.cfd = NoFd, !.dfd = NoFd, !.addrs = 0,
                      !.dns = IF @ = "pending" THEN @ ELSE "none"],
            Close(Close(k, r.cfd), r.dfd), Unregister(Unregister(it, r.cfd), r.dfd))
  /\ current' = IF it[r.cfd] # Unused THEN current - 1 ELSE current
  /\ UNCHANGED historic

\* The handler returned ERROR.  error_handler is given the state ERROR itself,
\* so it never sends the reply it prepares.
Fail(s, f, op, r, k, it) == Destroy(s, f, op, [r EXCEPT !.state = "ERROR"], k, it)

Tell(r, what, value) == [r EXCEPT !.told = Append(@, <<what, value>>)]
-----------------------------------------------------------------------------
(* handle_read_master.                                                     *)

Accept(s) ==
  /\ BetweenIterations /\ ses[s].phase = "unborn" /\ FreeFds(sock) # {}
  /\ LET f == LowestFree(sock)
     IN  /\ item[f] = Unused     \* else FDINUSE: the socket is closed at once
         /\ ses' = [ses EXCEPT ![s] = [Unborn EXCEPT !.phase = "live", !.cfd = f]]
         /\ sock' = [sock EXCEPT ![f] = "up"]
         /\ item' = [item EXCEPT ![f] = [data |-> s, interest |-> {"R"}]]
  /\ current' = current + 1 /\ historic' = historic + 1
  /\ UNCHANGED <<todo, accepted, status>>

\* A client arrives and accept fails for lack of descriptors:
\* exit(EXIT_FAILURE).
AcceptFails ==
  /\ BetweenIterations /\ FreeFds(sock) = {}
  /\ status' = "exited"
  /\ UNCHANGED <<ses, sock, item, todo, accepted, current, historic>>

\* An administrator changes the methods (monitor_req_utils.c).
ChangeAuthMethods ==
  /\ BetweenIterations
  /\ accepted' \in MethodSets
  /\ UNCHANGED <<ses, sock, item, todo, current, historic, status>>
-----------------------------------------------------------------------------
(* The greeting.                                                           *)

\* The message is not complete, or recv answered EAGAIN.
ReadMore(s, f) ==
  /\ \E st \in {"HELLO_READ", "AUTH_READ", "REQUEST_READ"} : Runs(s, f, "R", st)
  /\ Continue(s, f, "R", ses[s], item)

\* The client closed, recv failed, or the message is malformed.
HelloFails(s, f) ==
  /\ Runs(s, f, "R", "HELLO_READ")
  /\ Fail(s, f, "R", ses[s], sock, item)

\* The accepted method with the largest number is selected.
Chosen(offered) ==
  LET both == offered \cap accepted
  IN  IF both = {} THEN NoMethod ELSE CHOOSE m \in both : \A n \in both : n <= m

HelloDone(s, f) ==
  /\ Runs(s, f, "R", "HELLO_READ")
  /\ \E offered \in SUBSET Method \ {{}} :
       Continue(s, f, "R", [ses[s] EXCEPT !.state = "HELLO_WRITE", !.method = Chosen(offered)],
                SetInterest(item, f, {"W"}))

\* With a fault: only user and password needs another step.
HelloWriteTrusting(s, f) ==
  /\ Runs(s, f, "W", "HELLO_WRITE")
  /\ LET next == IF ses[s].method = 2 THEN "AUTH_READ" ELSE "REQUEST_READ"
     IN  Continue(s, f, "W", Tell([ses[s] EXCEPT !.state = next], "method", ses[s].method),
                  SetInterest(item, f, {"R"}))

HelloWrite(s, f) ==
  /\ Runs(s, f, "W", "HELLO_WRITE")
  /\ \/ LET next == IF ses[s].method = 0 THEN "REQUEST_READ" ELSE "AUTH_READ"
        IN  Continue(s, f, "W", Tell([ses[s] EXCEPT !.state = next], "method", ses[s].method),
                     SetInterest(item, f, {"R"}))
     \/ Fail(s, f, "W", ses[s], sock, item)     \* send failed
-----------------------------------------------------------------------------
(* Authentication.                                                         *)

AuthFails(s, f) ==
  /\ Runs(s, f, "R", "AUTH_READ")
  /\ Fail(s, f, "R", ses[s], sock, item)

\* user_login accepts or rejects the credentials.
AuthDone(s, f) ==
  /\ Runs(s, f, "R", "AUTH_READ")
  /\ \E ok \in BOOLEAN :
       Continue(s, f, "R", [ses[s] EXCEPT !.state = "AUTH_WRITE", !.login = ok],
                SetInterest(item, f, {"W"}))

AuthWrite(s, f) ==
  /\ Runs(s, f, "W", "AUTH_WRITE")
  /\ LET told == Tell(ses[s], "auth", IF ses[s].login THEN 0 ELSE 1)
     IN  IF ses[s].login
         THEN Continue(s, f, "W", [told EXCEPT !.state = "REQUEST_READ"],
                       SetInterest(item, f, {"R"}))
         ELSE Fail(s, f, "W", told, sock, item)

AuthWriteFails(s, f) ==
  /\ Runs(s, f, "W", "AUTH_WRITE")
  /\ Fail(s, f, "W", ses[s], sock, item)
-----------------------------------------------------------------------------
(* The request.                                                            *)

RequestFails(s, f) ==
  /\ Runs(s, f, "R", "REQUEST_READ")
  /\ Fail(s, f, "R", [ses[s] EXCEPT !.err = 1], sock, item)

\* The session goes on to st, waiting for f to be writable.
AwaitWrite(s, f, op, st, r) ==
  Continue(s, f, op, [r EXCEPT !.state = st], SetInterest(item, f, {"W"}))

\* The version is not 5, the command is not CONNECT, or the lookup of a name
\* could not be started.
RequestRefused(s, f) ==
  /\ Runs(s, f, "R", "REQUEST_READ")
  /\ \E code \in {1, 4, 7} : AwaitWrite(s, f, "R", "REQUEST_WRITE", [ses[s] EXCEPT !.reply = code])

\* handle_request_fin with an address.
RequestAddress(s, f) ==
  /\ Runs(s, f, "R", "REQUEST_READ")
  /\ AwaitWrite(s, f, "R", "DEST_CONNECT", [ses[s] EXCEPT !.addrs = 1])

\* With a fault: the descriptor goes on waiting for data.
RequestNameReading(s, f) ==
  /\ Runs(s, f, "R", "REQUEST_READ")
  /\ Continue(s, f, "R", [ses[s] EXCEPT !.state = "DNS_LOOKUP", !.dns = "pending"], item)

\* handle_request_fin with a name: setup_lookup starts a lookup.
RequestName(s, f) ==
  /\ Runs(s, f, "R", "REQUEST_READ")
  /\ AwaitWrite(s, f, "R", "DNS_LOOKUP", [ses[s] EXCEPT !.dns = "pending"])

\* The resolver's thread finishes.
Resolve(s) ==
  /\ status = "running" /\ ses[s].dns = "pending"
  /\ \E answer \in {"ready", "failed"} : ses' = [ses EXCEPT ![s].dns = answer]
  /\ UNCHANGED <<sock, item, todo, accepted, current, historic, status>>

\* With a fault: a lookup in progress counts as failed.
DnsLookupImpatient(s, f) ==
  /\ Runs(s, f, "W", "DNS_LOOKUP")
  /\ Fail(s, f, "W", [ses[s] EXCEPT !.err = 4], sock, item)

\* With a fault: the descriptor waits for nothing while the lookup runs.
DnsLookupSleeps(s, f) ==
  /\ Runs(s, f, "W", "DNS_LOOKUP")
  /\ IF ses[s].dns = "pending"
     THEN Continue(s, f, "W", ses[s], SetInterest(item, f, {}))
     ELSE Fail(s, f, "W", [ses[s] EXCEPT !.dns = "none", !.err = 4], sock, item)

DnsLookup(s, f) ==
  /\ Runs(s, f, "W", "DNS_LOOKUP")
  /\ \/ /\ ses[s].dns = "pending"
        /\ AwaitWrite(s, f, "W", "DNS_LOOKUP", ses[s])
     \/ /\ ses[s].dns = "ready"
        /\ \E n \in 1..MaxAddrs :
             AwaitWrite(s, f, "W", "DEST_CONNECT", [ses[s] EXCEPT !.dns = "none", !.addrs = n])
     \/ /\ ses[s].dns = "failed"
        /\ Fail(s, f, "W", [ses[s] EXCEPT !.dns = "none", !.err = 4], sock, item)
-----------------------------------------------------------------------------
(* The connection to the destination: try_connect, which runs for the      *)
(* client's descriptor as well as for the destination's.                   *)

\* The kernel: an attempt in progress ends.
ConnectEnds(f) ==
  /\ status = "running" /\ sock[f] = "connecting"
  /\ \E answer \in {"up", "refused"} : sock' = [sock EXCEPT ![f] = answer]
  /\ UNCHANGED <<ses, item, todo, accepted, current, historic, status>>

Connecting(s, f) == Runs(s, f, "W", "DEST_CONNECT")

\* The attempt the session has made, if any.
Attempt(s) == IF ses[s].dfd = NoFd THEN "none" ELSE sock[ses[s].dfd]

\* With a fault: forwarding starts without a reply.
ConnectUnannounced(s, f) ==
  /\ Connecting(s, f)
  /\ Attempt(s) \in {"connecting", "up"}
  /\ Continue(s, f, "W", [ses[s] EXCEPT !.state = "FORWARDING"],
              SetInterest(item, ses[s].cfd, {"R"}))

\* An attempt was made before and SO_ERROR is 0, as it is too while the
\* attempt is in progress.
ConnectReported(s, f) ==
  /\ Connecting(s, f)
  /\ Attempt(s) \in {"connecting", "up"}
  /\ Continue(s, f, "W", [ses[s] EXCEPT !.state = "REQUEST_WRITE", !.reply = 0],
              SetInterest(item, ses[s].cfd, {"W"}))

\* What a new attempt starts from: no socket, or one whose attempt failed,
\* which is closed (and stays registered).
Retrying(s, f) == Connecting(s, f) /\ Attempt(s) \in {"none", "refused"}
LeftSocketsOpen(s) == sock     \* with a fault: the socket is not closed
LeftSockets(s) == Close(sock, ses[s].dfd)
LeftAddrs(s)   == IF ses[s].dfd = NoFd THEN ses[s].addrs ELSE ses[s].addrs - 1

\* connect succeeded or is in progress for an address of the list, after the
\* ones before it failed; n addresses are left, that one included.
ConnectStarts(s, f) ==
  /\ Retrying(s, f) /\ FreeFds(LeftSockets(s)) # {}
  /\ LET k == LeftSockets(s)
         d == LowestFree(k)
     IN  /\ item[d] = Unused     \* else FDINUSE: closed, and on to the next address
         /\ \E n \in 1..LeftAddrs(s), up \in BOOLEAN :
              LET r  == [ses[s] EXCEPT !.dfd = d, !.addrs = n]
                  it == [item EXCEPT ![d] = [data |-> s, interest |-> {"W"}]]
              IN  Return(s, f, "W",
                         IF up THEN [r EXCEPT !.state = "REQUEST_WRITE", !.reply = 0] ELSE r,
                         [k EXCEPT ![d] = IF up THEN "up" ELSE "connecting"],
                         IF up THEN SetInterest(it, r.cfd, {"W"}) ELSE it)
  /\ UNCHANGED <<current, historic>>

\* No address is left.
ConnectFails(s, f) ==
  /\ Retrying(s, f)
  /\ Fail(s, f, "W", [ses[s] EXCEPT !.dfd = NoFd, !.err = 3],
          LeftSockets(s), SetInterest(item, f, {"W"}))

\* The reply is sent to the client whichever descriptor is writable.
RequestWrite(s, f) ==
  /\ Runs(s, f, "W", "REQUEST_WRITE")
  /\ LET r == Tell(ses[s], "reply", ses[s].reply)
     IN  IF r.reply # 0 \/ r.dfd = NoFd
         THEN Destroy(s, f, "W", [r EXCEPT !.state = "DONE"], sock, item)
         ELSE Continue(s, f, "W", [r EXCEPT !.state = "FORWARDING"],
                       SetInterest(SetInterest(item, r.cfd, {"R"}), r.dfd, {"R"}))

RequestWriteFails(s, f) ==
  /\ Runs(s, f, "W", "REQUEST_WRITE")
  /\ Fail(s, f, "W", [ses[s] EXCEPT !.err = 1], sock, item)
-----------------------------------------------------------------------------
(* Forwarding, as far as the rest of the server can tell.                  *)

Forwarding(s, f, op) == Runs(s, f, op, "FORWARDING")

\* The handler returns FORWARDING, or DONE while bytes are pending: the
\* session goes on, or stays behind undestroyed.  Whatever interests the
\* handler leaves, they are among these, and pselect need not report them.
ForwardOn(s, f, op) ==
  /\ Forwarding(s, f, op)
  /\ \E st \in {"FORWARDING", "DONE"} :
       Continue(s, f, op, [ses[s] EXCEPT !.state = st],
                SetInterest(SetInterest(item, ses[s].cfd, Op), ses[s].dfd, Op))

ForwardEnds(s, f, op) ==
  /\ Forwarding(s, f, op)
  /\ \/ Destroy(s, f, op, [ses[s] EXCEPT !.state = "DONE"], sock, item)
     \/ Fail(s, f, op, ses[s], sock, item)
-----------------------------------------------------------------------------
Reads(s, f)  == \/ ReadMore(s, f) \/ HelloFails(s, f) \/ HelloDone(s, f)
                \/ AuthFails(s, f) \/ AuthDone(s, f)
                \/ RequestFails(s, f) \/ RequestRefused(s, f)
                \/ RequestAddress(s, f) \/ RequestName(s, f)

Writes(s, f) == \/ HelloWrite(s, f) \/ AuthWrite(s, f) \/ AuthWriteFails(s, f)
                \/ DnsLookup(s, f)
                \/ ConnectReported(s, f) \/ ConnectStarts(s, f) \/ ConnectFails(s, f)
                \/ RequestWrite(s, f) \/ RequestWriteFails(s, f)

Forwards(s, f) == \E op \in Op : ForwardOn(s, f, op) \/ ForwardEnds(s, f, op)

Handlers == \E s \in Session, f \in Fd : Reads(s, f) \/ Writes(s, f) \/ Forwards(s, f)

Loop == \/ Select \/ NotCalled \/ CallDangling \/ CallUnhandled
        \/ Handlers

World == \/ AcceptFails \/ ChangeAuthMethods
         \/ \E s \in Session : Accept(s) \/ Resolve(s)
         \/ \E f \in Fd : ConnectEnds(f)

Next == Loop \/ World

Spec == Init /\ [][Next]_vars
-----------------------------------------------------------------------------
(* Safety.                                                                 *)

TypeOK ==
  /\ ses \in [Session ->
       [phase : {"unborn", "live", "freed"}, state : State,
        cfd : Fd \cup {NoFd}, dfd : Fd \cup {NoFd},
        method : Supported \cup {NoMethod}, login : BOOLEAN,
        dns : {"none", "pending", "ready", "failed"}, addrs : 0..MaxAddrs,
        reply : Reply, err : {0, 1, 3, 4},
        told : Seq({"method", "auth", "reply"} \X (Reply \cup Method \cup {NoMethod}))]]
  /\ sock \in [Fd -> {"free", "up", "connecting", "refused"}]
  /\ item \in [Fd -> [data : Session \cup {Nobody}, interest : SUBSET Op]]
  /\ todo \in SUBSET (Fd \X Op)
  /\ accepted \in SUBSET Supported
  /\ current \in Nat /\ historic \in Nat
  /\ status \in {"running", "dangling", "aborted", "exited"}

\* The statistics count the sessions that exist and those that ever did: every
\* way a session ends, from any state and either descriptor, counts it out
\* exactly once (handle_read_master, handle_close_client, end_connection).
StatsMatch ==
  /\ current = Cardinality({s \in Session : Live(s)})
  /\ historic = Cardinality({s \in Session : ses[s].phase # "unborn"})

Owns(s, f) == Live(s) /\ f \in {ses[s].cfd, ses[s].dfd}

\* An open descriptor belongs to exactly one live session, and its callbacks
\* run with the record of that session, although the numbers are reused while
\* items for closed descriptors remain (try_connect, end_connection).
DescriptorsOwned ==
  /\ \A s \in Session : Live(s) => ses[s].cfd \in Fd /\ ses[s].cfd # ses[s].dfd
  /\ \A f \in Fd : sock[f] # "free" =>
        /\ Owns(item[f].data, f)
        /\ \A s \in Session : Owns(s, f) => s = item[f].data
  /\ \A s \in Session, f \in Fd : Owns(s, f) => sock[f] # "free"

\* What a client was told: the method, then the outcome of the authentication
\* unless the method is 0, then the reply to its request.
Authenticated(s) ==
  LET t == ses[s].told
  IN  \/ Len(t) > 0 /\ t[1] = <<"method", 0>>
      \/ Len(t) > 1 /\ t[2] = <<"auth", 0>> /\ ses[s].login

Answered(s) ==
  LET t == ses[s].told
      last == IF t # <<>> /\ t[1] = <<"method", 0>> THEN 2 ELSE 3
  IN  Len(t) = last /\ t[last][1] = "reply"

\* No lookup, connection or forwarding happens for a client that has neither
\* negotiated "no authentication" nor logged in, whatever the administrator
\* changes meanwhile; the answer "no acceptable method" is no way around it.
AuthGate ==
  \A s \in Session :
    \/ ses[s].state \in {"REQUEST_READ", "DNS_LOOKUP", "DEST_CONNECT", "REQUEST_WRITE", "FORWARDING"}
    \/ ses[s].dfd # NoFd \/ ses[s].dns # "none"
    => Authenticated(s)

\* The client gets each message of the handshake once and in order, whichever
\* of the two descriptors the handlers run for; forwarding starts only after
\* the reply that announces it, and a refused client gets no more than that.
RepliesInOrder ==
  \A s \in Session :
    LET t == ses[s].told
    IN  /\ Len(t) > 0 => t[1][1] = "method"
        /\ Len(t) > 1 => t[2][1] = IF t[1][2] = 0 THEN "reply" ELSE "auth"
        /\ Len(t) > 2 => t[1][2] # 0 /\ t[2][2] = 0 /\ t[3][1] = "reply"
        /\ Len(t) <= 3
        /\ Live(s) /\ ses[s].state \in {"FORWARDING", "DONE"} =>
             Answered(s) /\ t[Len(t)][2] = 0

\* A lookup in flight belongs to a live session that waits for it: nothing
\* ends a session and frees the lookup under the resolver's thread.
LookupOwned ==
  \A s \in Session : ses[s].dns # "none" => Live(s) /\ ses[s].state = "DNS_LOOKUP"

\* The interests never call a handler the state does not define, except for a
\* session that DONE left behind undestroyed (stm_handler_read aborts).
AbortsOnlyAfterForwarding ==
  status = "aborted" => \E s \in Session : Live(s) /\ ses[s].state = "DONE"

Stale(f) == item[f] # Unused /\ ~Owns(item[f].data, f)

\* An item that outlives its descriptor, and with it the end of the service,
\* belongs to a client that passed the authentication it was given and waits for
\* the end of an attempt to connect (try_connect, request.c:520): no greeting, no
\* request and no end of a session leaves one, whatever numbers are used again.
OnlyRetriesLeaveItems ==
  /\ ~Serving \/ status = "dangling" => \E f \in Fd : Stale(f)
  /\ \A f \in Fd : Stale(f) => Authenticated(item[f].data) /\ item[f].interest = {"W"}
-----------------------------------------------------------------------------
(* What the documentation says of the program and the code does not do.    *)

\* The report, DEST_CONNECT: a connection is announced once the socket is
\* writable.
SuccessMeansConnected ==
  \A s \in Session : Live(s) /\ ses[s].state = "REQUEST_WRITE" /\ ses[s].reply = 0
                     => sock[ses[s].dfd] = "up"

\* The report, REQUEST_WRITE: the client is told the kind of error.
ErrorsAreReported ==
  \A s \in Session : ses[s].err \in {3, 4} => Answered(s)

\* The report, DONE and ERROR: the end of a session closes its descriptors and
\* destroys it in order; nothing of it stays in the selector.
OrderlyEnd ==
  \A s \in Session : ses[s].phase = "freed" => \A f \in Fd : item[f].data # s
-----------------------------------------------------------------------------
(* Liveness.  The loop never stops by itself, a descriptor that stays      *)
(* ready is reported in the end, the resolver answers, and an attempt to   *)
(* connect ends.                                                           *)

Fairness == /\ WF_vars(Loop)
            /\ \A f \in Fd, op \in Op : SF_vars(Select /\ <<f, op>> \in todo')
            /\ \A s \in Session : WF_vars(Resolve(s))
            /\ \A f \in Fd : WF_vars(ConnectEnds(f))

FairSpec == Spec /\ Fairness

Requesting(s) == Live(s) /\ ses[s].state \in {"DNS_LOOKUP", "DEST_CONNECT", "REQUEST_WRITE"}

\* A request that was read is settled, by a reply or by the end of the
\* session, as long as the server serves at all: no session waits for ever for
\* the resolver, for the destination, or for a descriptor nobody watches.
RequestSettles ==
  \A s \in Session : Requesting(s) ~> (~Requesting(s) \/ ~Serving \/ status # "running")
=============================================================================
