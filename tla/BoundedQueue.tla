---------------------------- MODULE BoundedQueue ----------------------------
(***************************************************************************)
(* A first-in first-out queue of bounded length: what the buffer of        *)
(* lab4-src/part1.c stands for.                                            *)
(***************************************************************************)
EXTENDS Integers, Sequences

CONSTANTS
  Capacity,
  Values

VARIABLE queue

Init == queue = <<>>

Put(value) ==
  /\ Len(queue) < Capacity
  /\ queue' = Append(queue, value)

Get ==
  /\ queue # <<>>
  /\ queue' = Tail(queue)

Next == Get \/ \E value \in Values : Put(value)

Spec == Init /\ [][Next]_queue

=============================================================================
