----------------------------- MODULE Forwarding -----------------------------
(***************************************************************************)
(* One proxied session from its arrival in FORWARDING to its destruction:  *)
(* the handlers of server/forwarding.c, the terminal states of             *)
(* server/closing.c, the dispatch of lib/stm/stm.c, and the part of        *)
(* lib/selector/selector.c that decides which handler runs and in which    *)
(* order.  The two sockets, their kernel queues and the peers behind them  *)
(* are modelled from the system calls the handlers make.                   *)
(*                                                                         *)
(* The n-th byte a peer sends is the number n, so that loss, repetition    *)
(* and reordering are visible in what the other peer receives.             *)
(***************************************************************************)
EXTENDS Integers, Sequences

CONSTANTS MaxBytes,   \* how many bytes each peer sends at most
          BufferSize, \* MAX_BUFFER
          Window,     \* bytes the kernel holds for a peer that is not reading
          Unreliable  \* the peers whose connection may fail

ASSUME ForwardingAssumption ==
  /\ MaxBytes \in Nat
  /\ BufferSize \in Nat \ {0}
  /\ Window \in Nat \ {0}

Side == {"client", "dest"}
Other(s) == IF s = "client" THEN "dest" ELSE "client"

Byte == 0..MaxBytes
Stream(m, n) == [i \in 1..(n - m) |-> m + i]   \* bytes m+1 .. n of a peer

B == INSTANCE Buffer WITH Limit <- BufferSize

Op == {"R", "W"}                  \* OP_READ, OP_WRITE
Callback == Side \X Op

VARIABLES
  \* the peers and the kernel
  sent,     \* sent[s]: bytes peer s has sent so far
  fin,      \* fin[s]: peer s has finished sending
  reset,    \* reset[s]: the connection with peer s has failed
  unread,   \* unread[s]: bytes the kernel holds for s, not yet read by it
  out,      \* out[s]: everything the proxy has sent towards s
  shut,     \* shut[s]: shutdown(fd of s, SHUT_WR) was called
  \* struct client
  buf,      \* buf[s]: the buffer that holds what was received from s
  taken,    \* taken[s]: bytes received from s (the argument of write_adv, summed)
  closed,   \* client_closed and dest_closed
  state,    \* stm.current
  \* the selector
  interest, \* interest[s]: item->interest of the descriptor of s
  todo,     \* the callbacks that remain of this handle_iteration
  first,    \* the side with the smaller descriptor, scanned first
  \* the process
  status    \* "open", "freed" (end_connection ran) or "aborted" (abort())

peers   == <<sent, fin, reset, unread>>
record  == <<buf, taken, closed, state>>
vars    == <<sent, fin, reset, unread, out, shut, buf, taken, closed, state,
             interest, todo, first, status>>
-----------------------------------------------------------------------------
\* server/include/client_utils.h: client_buffer is filled by the client,
\* destiny_buffer by the destination.
Pending(s) == B!CanRead(buf[Other(s)])       \* bytes waiting to be sent to s

\* With a fault: what is pending is not looked at.
FinishedByFlags(c, b) == \A s \in Side : c[s]

\* forwarding.c, connection_finished: both ends closed and nothing pending.
Finished(c, b) == \A s \in Side : c[s] /\ ~B!CanRead(b[s])

NoInterest == [s \in Side |-> {}]
AllClosed  == [s \in Side |-> TRUE]

\* forward_setup: both descriptors wait for data, both buffers are empty.
Init ==
  /\ sent = [s \in Side |-> 0] /\ unread = [s \in Side |-> 0]
  /\ fin = [s \in Side |-> FALSE] /\ reset = [s \in Side |-> FALSE]
  /\ out = [s \in Side |-> <<>>] /\ shut = [s \in Side |-> FALSE]
  /\ buf = [s \in Side |-> B!BufferInit([i \in 1..BufferSize |-> 0])]
  /\ taken = [s \in Side |-> 0] /\ closed = [s \in Side |-> FALSE]
  /\ state = "FORWARDING" /\ status = "open"
  /\ interest = [s \in Side |-> {"R"}]
  /\ todo = <<>> /\ first \in Side
-----------------------------------------------------------------------------
(* The peers.                                                              *)

PeerSend(s) ==
  /\ status = "open" /\ sent[s] < MaxBytes /\ ~fin[s] /\ ~reset[s]
  /\ sent' = [sent EXCEPT ![s] = @ + 1]
  /\ UNCHANGED <<fin, reset, unread, out, shut, record, interest, todo, first, status>>

PeerFinish(s) ==
  /\ status = "open" /\ ~fin[s] /\ ~reset[s]
  /\ fin' = [fin EXCEPT ![s] = TRUE]
  /\ UNCHANGED <<sent, reset, unread, out, shut, record, interest, todo, first, status>>

PeerReset(s) ==
  /\ status = "open" /\ s \in Unreliable /\ ~reset[s]
  /\ reset' = [reset EXCEPT ![s] = TRUE]
  /\ UNCHANGED <<sent, fin, unread, out, shut, record, interest, todo, first, status>>

PeerRead(s) ==
  /\ status = "open" /\ unread[s] > 0
  /\ unread' = [unread EXCEPT ![s] = @ - 1]
  /\ UNCHANGED <<sent, fin, reset, out, shut, record, interest, todo, first, status>>
-----------------------------------------------------------------------------
(* The selector.                                                           *)

Arrived(s)  == sent[s] - taken[s]            \* bytes recv could return
CanRecv(s)  == Arrived(s) > 0 \/ fin[s] \/ reset[s]
CanSend(s)  == unread[s] < Window \/ reset[s] \/ shut[s]

Ready(s, op) == /\ op \in interest[s]
                /\ IF op = "R" THEN CanRecv(s) ELSE CanSend(s)

Fire(s, op) == IF Ready(s, op) THEN << <<s, op>> >> ELSE <<>>

\* selector_select: pselect reports the ready descriptors and handle_iteration
\* scans them in ascending order, reading before writing each.
Select ==
  /\ status = "open" /\ todo = <<>>
  /\ \E s \in Side, op \in Op : Ready(s, op)
  /\ todo' = Fire(first, "R") \o Fire(first, "W") \o
             Fire(Other(first), "R") \o Fire(Other(first), "W")
  /\ UNCHANGED <<peers, out, shut, record, interest, first, status>>

\* handle_iteration looks at the item's interest again before each callback:
\* an earlier callback of the same iteration may have changed it.
Called(s, op) == /\ status = "open" /\ todo # <<>>
                 /\ Head(todo) = <<s, op>> /\ op \in interest[s]

NotCalled ==
  /\ status = "open" /\ todo # <<>>
  /\ LET cb == Head(todo) IN cb[2] \notin interest[cb[1]]
  /\ todo' = Tail(todo)
  /\ UNCHANGED <<peers, out, shut, record, interest, first, status>>

\* stm_handler_read and stm_handler_write: DONE and ERROR define no handler.
Abort ==
  /\ \E s \in Side, op \in Op : Called(s, op)
  /\ state # "FORWARDING"
  /\ status' = "aborted"
  /\ UNCHANGED <<peers, out, shut, record, interest, todo, first>>
-----------------------------------------------------------------------------
(* Leaving a handler.  Each of these sets buf, closed, state, interest,    *)
(* todo and status.                                                        *)

\* The handler returned FORWARDING: no jump.
Stay(i, b, c) ==
  /\ interest' = i /\ buf' = b /\ closed' = c
  /\ todo' = Tail(todo)
  /\ UNCHANGED <<state, status>>

\* closing.c, end_connection, with the values the handler left behind: close
\* and unregister both descriptors and free the record, or do nothing.
EndConnection(i, b, c) ==
  IF Finished(c, b)
  THEN status' = "freed" /\ interest' = NoInterest /\ todo' = <<>>
  ELSE UNCHANGED status /\ interest' = i /\ todo' = Tail(todo)

\* jump to DONE, whose arrival handler is end_connection.
JumpDone(i, b, c) ==
  /\ state' = "DONE" /\ buf' = b /\ closed' = c
  /\ EndConnection(i, b, c)

\* jump to ERROR, whose arrival handler is error_handler: drop what is pending
\* and end the connection.
JumpError(s) ==
  LET b == [t \in Side |-> B!Discard(buf[t])]
  IN  /\ state' = "ERROR" /\ buf' = b /\ closed' = AllClosed
      /\ EndConnection([interest EXCEPT ![s] = {}], b, AllClosed)
-----------------------------------------------------------------------------
(* forward_read.                                                           *)

Reading(s) == Called(s, "R") /\ state = "FORWARDING"

\* With a fault: the handler waits for nothing while the buffer is full.
ReadFullSleeps(s) ==
  /\ Reading(s) /\ ~B!CanWrite(buf[s])
  /\ Stay([interest EXCEPT ![s] = {}], buf, closed)
  /\ UNCHANGED <<peers, out, shut, taken, first>>

\* The buffer has no room: wait until the descriptor is writable too.
ReadFull(s) ==
  /\ Reading(s) /\ ~B!CanWrite(buf[s])
  /\ Stay([interest EXCEPT ![s] = {"R", "W"}], buf, closed)
  /\ UNCHANGED <<peers, out, shut, taken, first>>

Receiving(s) == Reading(s) /\ B!CanWrite(buf[s])

\* With a fault: recv is not limited by the room that is left.
RecvDataUnbounded(s) ==
  /\ Receiving(s)
  /\ \E n \in 1..Arrived(s) :
       /\ taken' = [taken EXCEPT ![s] = @ + n]
       /\ Stay([interest EXCEPT ![Other(s)] = {"R", "W"}],
               [buf EXCEPT ![s] = B!Fill(@, Stream(taken[s], taken[s] + n))],
               closed)
  /\ UNCHANGED <<peers, out, shut, first>>

\* With a fault: the other descriptor is not asked to write.
RecvDataSilent(s) ==
  /\ Receiving(s)
  /\ \E n \in 1..Arrived(s) :
       /\ n <= B!WriteRoom(buf[s])
       /\ taken' = [taken EXCEPT ![s] = @ + n]
       /\ Stay(interest, [buf EXCEPT ![s] = B!Fill(@, Stream(taken[s], taken[s] + n))], closed)
  /\ UNCHANGED <<peers, out, shut, first>>

\* recv returned n bytes: the other descriptor wants to write.
RecvData(s) ==
  /\ Receiving(s)
  /\ \E n \in 1..Arrived(s) :
       /\ n <= B!WriteRoom(buf[s])
       /\ taken' = [taken EXCEPT ![s] = @ + n]
       /\ Stay([interest EXCEPT ![Other(s)] = {"R", "W"}],
               [buf EXCEPT ![s] = B!Fill(@, Stream(taken[s], taken[s] + n))],
               closed)
  /\ UNCHANGED <<peers, out, shut, first>>

\* With a fault: the handler returns DONE before it sets the flag.
RecvEofUnmarked(s) ==
  /\ Receiving(s)
  /\ (Arrived(s) = 0 /\ fin[s]) \/ B!WriteRoom(buf[s]) = 0
  /\ IF closed[Other(s)]
     THEN JumpDone(interest, buf, closed)
     ELSE Stay([interest EXCEPT ![Other(s)] = {"W"}, ![s] = {}], buf,
               [closed EXCEPT ![s] = TRUE])
  /\ UNCHANGED <<peers, out, shut, taken, first>>

\* With a fault: the other descriptor is not asked to write.
RecvEofSilent(s) ==
  /\ Receiving(s)
  /\ (Arrived(s) = 0 /\ fin[s]) \/ B!WriteRoom(buf[s]) = 0
  /\ LET c == [closed EXCEPT ![s] = TRUE]
     IN  IF closed[Other(s)]
         THEN JumpDone(interest, buf, c)
         ELSE Stay([interest EXCEPT ![s] = {}], buf, c)
  /\ UNCHANGED <<peers, out, shut, taken, first>>

\* With a fault: the descriptor whose end was read goes on waiting to write.
RecvEofWrites(s) ==
  /\ Receiving(s)
  /\ (Arrived(s) = 0 /\ fin[s]) \/ B!WriteRoom(buf[s]) = 0
  /\ LET c == [closed EXCEPT ![s] = TRUE]
     IN  IF closed[Other(s)]
         THEN JumpDone(interest, buf, c)
         ELSE Stay([interest EXCEPT ![Other(s)] = {"W"}, ![s] = {"W"}], buf, c)
  /\ UNCHANGED <<peers, out, shut, taken, first>>

\* recv returned 0, which the handler takes for the end of the stream: every
\* byte was received and the peer finished, or recv was given no room.
RecvEof(s) ==
  /\ Receiving(s)
  /\ (Arrived(s) = 0 /\ fin[s]) \/ B!WriteRoom(buf[s]) = 0
  /\ LET c == [closed EXCEPT ![s] = TRUE]
     IN  IF closed[Other(s)]
         THEN JumpDone(interest, buf, c)
         ELSE Stay([interest EXCEPT ![Other(s)] = {"W"}, ![s] = {}], buf, c)
  /\ UNCHANGED <<peers, out, shut, taken, first>>

\* recv failed with EAGAIN, which it does not once it has returned the end of
\* the stream.
RecvAgain(s) ==
  /\ Receiving(s) /\ ~closed[s]
  /\ Stay(interest, buf, closed)
  /\ UNCHANGED <<peers, out, shut, taken, first>>

\* recv failed otherwise.
RecvError(s) ==
  /\ Receiving(s) /\ reset[s]
  /\ JumpError(s)
  /\ UNCHANGED <<peers, out, shut, taken, first>>
-----------------------------------------------------------------------------
(* forward_write.                                                          *)

Writing(s) == Called(s, "W") /\ state = "FORWARDING"

\* Nothing is pending for s.  If its source has closed, tell it so.
WriteNothing(s) ==
  /\ Writing(s) /\ ~Pending(s)
  /\ IF Finished(closed, buf)
     THEN JumpDone(interest, buf, closed) /\ UNCHANGED shut
     ELSE /\ shut' = [shut EXCEPT ![s] = @ \/ closed[Other(s)]]
          /\ Stay([interest EXCEPT ![s] = {"R"}], buf, closed)
  /\ UNCHANGED <<peers, out, taken, first>>

Sending(s) == Writing(s) /\ Pending(s)

\* With a fault: the buffer is emptied although send took n bytes of it.
SendDataAll(s) ==
  /\ Sending(s) /\ ~reset[s] /\ ~shut[s]
  /\ \E n \in 1..(Window - unread[s]) :
       /\ n <= B!Readable(buf[Other(s)])
       /\ out' = [out EXCEPT ![s] = @ \o B!Front(buf[Other(s)], n)]
       /\ unread' = [unread EXCEPT ![s] = @ + n]
       /\ Stay([interest EXCEPT ![s] = {"R"}], [buf EXCEPT ![Other(s)] = B!Reset(@)], closed)
  /\ UNCHANGED <<sent, fin, reset, shut, taken, first>>

\* With a fault: the end is announced while bytes are pending.
SendDataShuts(s) ==
  /\ Sending(s) /\ ~reset[s] /\ ~shut[s]
  /\ \E n \in 1..(Window - unread[s]) :
       /\ n <= B!Readable(buf[Other(s)])
       /\ out' = [out EXCEPT ![s] = @ \o B!Front(buf[Other(s)], n)]
       /\ unread' = [unread EXCEPT ![s] = @ + n]
       /\ shut' = [shut EXCEPT ![s] = @ \/ closed[Other(s)]]
       /\ Stay([interest EXCEPT ![s] = {"R", "W"}],
               [buf EXCEPT ![Other(s)] = B!ReadAdv(@, n)], closed)
  /\ UNCHANGED <<sent, fin, reset, taken, first>>

\* send accepted n bytes.  The last pending byte of a closed source is
\* followed by the shutdown.
SendData(s) ==
  /\ Sending(s) /\ ~reset[s] /\ ~shut[s]
  /\ \E n \in 1..(Window - unread[s]) :
       /\ n <= B!Readable(buf[Other(s)])
       /\ LET b == [buf EXCEPT ![Other(s)] = B!ReadAdv(@, n)]
              more == B!CanRead(b[Other(s)])
              i == [interest EXCEPT ![s] = IF more THEN {"R", "W"} ELSE {"R"}]
          IN  /\ out' = [out EXCEPT ![s] = @ \o B!Front(buf[Other(s)], n)]
              /\ unread' = [unread EXCEPT ![s] = @ + n]
              /\ shut' = [shut EXCEPT ![s] = @ \/ (~more /\ closed[Other(s)])]
              /\ IF Finished(closed, b) THEN JumpDone(i, b, closed) ELSE Stay(i, b, closed)
  /\ UNCHANGED <<sent, fin, reset, taken, first>>

\* send failed with EAGAIN.
SendAgain(s) ==
  /\ Sending(s)
  /\ Stay(interest, buf, closed)
  /\ UNCHANGED <<peers, out, shut, taken, first>>

\* send failed otherwise: the peer reset the connection, or this side of it
\* was shut down before.
SendError(s) ==
  /\ Sending(s) /\ (reset[s] \/ shut[s])
  /\ JumpError(s)
  /\ UNCHANGED <<peers, out, shut, taken, first>>
-----------------------------------------------------------------------------
Peer(s) == PeerSend(s) \/ PeerFinish(s) \/ PeerReset(s) \/ PeerRead(s)

Handler(s) == \/ ReadFull(s) \/ RecvData(s) \/ RecvEof(s) \/ RecvAgain(s) \/ RecvError(s)
              \/ WriteNothing(s) \/ SendData(s) \/ SendAgain(s) \/ SendError(s)

\* The only thread of the server.
Loop == Select \/ NotCalled \/ Abort \/ \E s \in Side : Handler(s)

Next == Loop \/ \E s \in Side : Peer(s)

Spec == Init /\ [][Next]_vars
-----------------------------------------------------------------------------
(* Safety.                                                                 *)

TypeOK ==
  /\ sent \in [Side -> 0..MaxBytes] /\ taken \in [Side -> 0..MaxBytes]
  /\ unread \in [Side -> 0..Window]
  /\ fin \in [Side -> BOOLEAN] /\ reset \in [Side -> BOOLEAN]
  /\ shut \in [Side -> BOOLEAN] /\ closed \in [Side -> BOOLEAN]
  /\ out \in [Side -> Seq(Byte)]
  /\ buf \in [Side -> B!Buffers]
  /\ interest \in [Side -> SUBSET Op]
  /\ todo \in Seq(Callback)
  /\ first \in Side
  /\ state \in {"FORWARDING", "DONE", "ERROR"}
  /\ status \in {"open", "freed", "aborted"}

\* What was received from a side is exactly what was sent on followed by what
\* is pending, byte for byte, until an error discards the pending part: no
\* interleaving of partial reads, partial sends and compactions of the two
\* buffers loses, repeats or reorders a byte (forward_read, forward_write).
NoLossNoReorder ==
  \A s \in Side :
    /\ state # "ERROR" => out[Other(s)] \o B!Content(buf[s]) = Stream(0, taken[s])
    /\ out[Other(s)] = Stream(0, Len(out[Other(s)]))
    /\ taken[s] <= sent[s]

\* The proxy tells a side that no more data follows only after the source has
\* finished and the side has been sent everything the source ever sent.
ShutdownAfterDrain ==
  \A s \in Side : shut[s] => fin[Other(s)] /\ out[s] = Stream(0, sent[Other(s)])

\* A session that ends through DONE has delivered both streams completely
\* (end_connection closes only when both ends closed and nothing is pending).
CleanEndIsComplete ==
  status = "freed" /\ state = "DONE" =>
    \A s \in Side : fin[s] /\ out[Other(s)] = Stream(0, sent[s])

\* Only a connection that failed makes the session fail: the proxy never
\* writes to a side it has shut down, which would end in EPIPE.
ErrorOnlyAfterReset == state = "ERROR" => \E s \in Side : reset[s]

\* While a session forwards, a side whose end has not been read (forward_read
\* has not marked it closed) is not forgotten by the selector: it waits for
\* WRITE when something is pending for it, and for READ, unless it waits for the
\* WRITE that puts READ back (both sides share one interest word, set by both
\* handlers).  A side whose end was read is forgotten: see FinishedGetNothing.
NoLostWakeup ==
  status = "open" /\ state = "FORWARDING" =>
    \A s \in Side : ~closed[s] =>
      /\ Pending(s) => "W" \in interest[s]
      /\ "R" \in interest[s] \/ (closed[Other(s)] /\ "W" \in interest[s])

\* The one way in which a session reaches DONE without being destroyed: both
\* sides finished while bytes were pending for one of them (forward_read returns
\* DONE without asking connection_finished).
UndestroyedOnlyWhenPending ==
  state = "DONE" /\ status # "freed" =>
    /\ \A s \in Side : closed[s] /\ fin[s]
    /\ \E s \in Side : Pending(s)

\* Nothing is sent to a side once its end was read, neither bytes nor the end of
\* the other stream, although the side may still receive and bytes are pending
\* for it.  Its interest is taken away with its end (forwarding.c:95); the other
\* side's data gives it READ and WRITE (forwarding.c:113), but at the end of its
\* stream it is always readable, READ is served first, and the same end is read
\* again and takes both away before WRITE is looked at.
FinishedGetNothing ==
  [][\A s \in Side : closed[s] => out'[s] = out[s] /\ shut'[s] = shut[s]]_vars

\* What makes it so.  The selector serves READ of a side immediately before WRITE
\* of that side.
ReadBeforeWrite ==
  \A s \in Side : \A i, j \in DOMAIN todo :
    todo[i] = <<s, "W">> /\ todo[j] = <<s, "R">> => i = j + 1

\* A side whose end was read waits for nothing or for both, and has room for what
\* will not come, so that serving READ reads the end again.
FinishedWaits ==
  state = "FORWARDING" =>
    \A s \in Side : closed[s] => /\ interest[s] \in {{}, {"R", "W"}}
                                /\ B!CanWrite(buf[s])

\* Before WRITE of such a side there is its READ, unless it waits for nothing.
FinishedAreReadFirst ==
  state = "FORWARDING" =>
    \A s \in Side : closed[s] =>
      \A i \in DOMAIN todo : todo[i] = <<s, "W">> =>
        IF i = 1 THEN interest[s] = {} ELSE todo[i - 1] = <<s, "R">>

FinishedInv == ReadBeforeWrite /\ FinishedWaits /\ FinishedAreReadFirst

\* What the invariants above need to be inductive: an end is marked closed only
\* at its end of stream; a shutdown follows only a close; and the state of the
\* machine, the flags and the existence of the record agree.
EofSeen == \A s \in Side : closed[s] /\ state # "ERROR" => fin[s] /\ taken[s] = sent[s]

ShutOnlyAfterClose == \A s \in Side : shut[s] /\ state # "ERROR" => closed[Other(s)]

StateAgrees ==
  /\ state = "FORWARDING" => status = "open" /\ \E s \in Side : ~closed[s]
  /\ state = "DONE" => /\ \A s \in Side : closed[s]
                       /\ status = "freed" <=> Finished(closed, buf)
  /\ state = "ERROR" => status = "freed"

IInv == /\ TypeOK /\ NoLossNoReorder /\ EofSeen /\ ShutOnlyAfterClose /\ StateAgrees
        /\ ShutdownAfterDrain /\ ErrorOnlyAfterReset /\ NoLostWakeup

\* The session as its two peers see it.
Over == IF status # "freed" THEN "open" ELSE IF state = "DONE" THEN "clean" ELSE "broken"

P == INSTANCE Pipe WITH eof <- shut, over <- Over

\* The buffers, the interests and the order of the callbacks cannot be told
\* from a pair of streams delivered in order and ended in order.
ImplementsPipe == P!PipeSpec
-----------------------------------------------------------------------------
(* Liveness.  The server's loop never stops by itself; a peer that is      *)
(* connected reads what the kernel holds for it; and a descriptor that is  *)
(* reported ready again and again does not answer EAGAIN for ever.         *)

Fairness ==
  /\ WF_vars(Loop)
  /\ \A s \in Side : /\ WF_vars(PeerRead(s))
                     /\ SF_vars(RecvData(s))
                     /\ SF_vars(RecvEof(s))
                     /\ SF_vars(SendData(s))

FairSpec == Spec /\ Fairness

SomeReset == \E s \in Side : reset[s]

\* As long as the receiver has not finished its own sending, each byte sent to
\* it through the proxy arrives (after that nothing does: FinishedGetNothing).
Delivery ==
  \A s \in Side, k \in 1..MaxBytes :
    (sent[Other(s)] >= k) ~> (Len(out[s]) >= k \/ fin[s] \/ SomeReset)

\* When one side finishes first, the other is told.
EofPropagates ==
  \A s \in Side : fin[s] ~> (shut[Other(s)] \/ fin[Other(s)] \/ SomeReset)

\* The report's promise for the end of a connection: what is pending is drained
\* and sent on, "un cierre ordenado sin perdida de informacion".
DrainOnClose ==
  \A s \in Side, k \in 1..MaxBytes :
    (sent[Other(s)] >= k) ~> (Len(out[s]) >= k \/ SomeReset)
=============================================================================
