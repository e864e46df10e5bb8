-------------------------------- MODULE Pipe --------------------------------
(***************************************************************************)
(* What a forwarding session promises to the two peers it joins: a byte    *)
(* stream in each direction, each delivered in order; an end of stream     *)
(* that arrives after the data; and an end of the session that is either   *)
(* complete or the consequence of a connection that failed.                *)
(* It knows nothing of buffers, of descriptors or of the selector.         *)
(***************************************************************************)
EXTENDS Integers, Sequences

VARIABLES sent,   \* sent[s]: how much s has sent; its n-th element is the number n
          fin,    \* fin[s]: s has finished sending
          reset,  \* reset[s]: the connection with s has failed
          out,    \* out[s]: what s has been sent by the pipe
          eof,    \* eof[s]: s has been told that nothing more follows
          over    \* "open", "clean" (ended complete) or "broken"

pipeVars == <<sent, fin, reset, out, eof, over>>

End == {"client", "dest"}
Peer(s) == IF s = "client" THEN "dest" ELSE "client"

All(n) == [i \in 1..n |-> i]

\* q is everything that was ever sent towards s.
IsWhole(s, q) == fin[Peer(s)] /\ q = All(sent[Peer(s)])
Complete(s) == IsWhole(s, out[s])

PipeInit ==
  /\ sent = [s \in End |-> 0] /\ fin = [s \in End |-> FALSE]
  /\ reset = [s \in End |-> FALSE] /\ out = [s \in End |-> <<>>]
  /\ eof = [s \in End |-> FALSE] /\ over = "open"

Produce(s) == /\ over = "open" /\ ~fin[s] /\ ~reset[s]
              /\ sent' = [sent EXCEPT ![s] = @ + 1]
              /\ UNCHANGED <<fin, reset, out, eof, over>>

Finish(s) == /\ over = "open" /\ ~fin[s] /\ ~reset[s]
             /\ fin' = [fin EXCEPT ![s] = TRUE]
             /\ UNCHANGED <<sent, reset, out, eof, over>>

Fail(s) == /\ over = "open" /\ ~reset[s]
           /\ reset' = [reset EXCEPT ![s] = TRUE]
           /\ UNCHANGED <<sent, fin, out, eof, over>>

\* The stream towards s advances, never past what was sent and never after
\* the end of stream.  Its last element may carry the end of stream.
Deliver(s) ==
  /\ over = "open" /\ ~eof[s] /\ ~reset[s]
  /\ \E n \in Len(out[s])..sent[Peer(s)], last \in BOOLEAN :
       /\ out' = [out EXCEPT ![s] = All(n)]
       /\ last => IsWhole(s, All(n))
       /\ eof' = [eof EXCEPT ![s] = last]
  /\ UNCHANGED <<sent, fin, reset, over>>

\* s is told that nothing more follows.
Shutdown(s) == /\ over = "open" /\ Complete(s)
               /\ eof' = [eof EXCEPT ![s] = TRUE]
               /\ UNCHANGED <<sent, fin, reset, out, over>>

EndClean == /\ over = "open" /\ \A s \in End : Complete(s)
            /\ over' = "clean"
            /\ UNCHANGED <<sent, fin, reset, out, eof>>

EndBroken == /\ over = "open" /\ \E s \in End : reset[s]
             /\ over' = "broken"
             /\ UNCHANGED <<sent, fin, reset, out, eof>>

PipeNext == \/ \E s \in End : Produce(s) \/ Finish(s) \/ Fail(s) \/ Deliver(s) \/ Shutdown(s)
            \/ EndClean \/ EndBroken

PipeSpec == PipeInit /\ [][PipeNext]_pipeVars
=============================================================================
