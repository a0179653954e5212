-------------------------------- MODULE Fifo --------------------------------
(***************************************************************************)
(* What a pipe (kernel/pipe.c) promises: a bounded first-in first-out      *)
(* queue of bytes.                                                         *)
(***************************************************************************)
EXTENDS Naturals, Sequences

CONSTANTS Byte, Capacity

VARIABLE queue

Put(ch) == Len(queue) < Capacity /\ queue' = Append(queue, ch)

Get == queue # <<>> /\ queue' = Tail(queue)

FifoNext == Get \/ \E ch \in Byte : Put(ch)

FifoSpec == queue = <<>> /\ [][FifoNext]_queue
=============================================================================
