-------------------------------- MODULE Fifo --------------------------------
(***************************************************************************)
(* What a byte buffer promises: bytes come out in the order they went in,  *)
(* none lost, none invented, none repeated.                                *)
(***************************************************************************)
EXTENDS Integers, Sequences

CONSTANT Elem

VARIABLES queue,  \* the bytes accepted and not yet handed out
          got     \* the bytes handed out by the last Get

fifoVars == <<queue, got>>

FifoInit == queue = <<>> /\ got = <<>>

\* The queue grows at its end, by any number of elements.
Put == /\ queue' \in Seq(Elem)
       /\ Len(queue) <= Len(queue')
       /\ SubSeq(queue', 1, Len(queue)) = queue
       /\ got' = <<>>

Get(n) == /\ got' = SubSeq(queue, 1, n)
          /\ queue' = SubSeq(queue, n + 1, Len(queue))

Clear == queue' = <<>> /\ got' = <<>>

FifoNext == \/ Put
            \/ \E n \in 0..Len(queue) : Get(n)
            \/ Clear

FifoSpec == FifoInit /\ [][FifoNext]_fifoVars
=============================================================================
