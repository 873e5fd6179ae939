------------------------------ MODULE Channel ------------------------------
(***************************************************************************)
(* What a pipe promises: a bounded FIFO of bytes with two ends that can be *)
(* closed.  Module Pipe is shown to implement it.                          *)
(***************************************************************************)
EXTENDS Integers, Sequences

CONSTANTS Capacity, Bytes

VARIABLES queue, readopen, writeopen

vars == <<queue, readopen, writeopen>>

Init == queue = <<>> /\ readopen = 1 /\ writeopen = 1

Put(ch) ==
  /\ writeopen = 1
  /\ readopen = 1
  /\ Len(queue) < Capacity
  /\ queue' = Append(queue, ch)
  /\ UNCHANGED <<readopen, writeopen>>

Get ==
  /\ readopen = 1
  /\ queue # <<>>
  /\ queue' = Tail(queue)
  /\ UNCHANGED <<readopen, writeopen>>

CloseRead ==
  /\ readopen = 1
  /\ readopen' = 0
  /\ UNCHANGED <<queue, writeopen>>

CloseWrite ==
  /\ writeopen = 1
  /\ writeopen' = 0
  /\ UNCHANGED <<queue, readopen>>

Next == (\E ch \in Bytes : Put(ch)) \/ Get \/ CloseRead \/ CloseWrite

Spec == Init /\ [][Next]_vars

=============================================================================
