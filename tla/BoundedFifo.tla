---------------------------- MODULE BoundedFifo -----------------------------
(***************************************************************************)
(* What one queue between two threads promises: items come out once, in    *)
(* the order they went in, and never more than Capacity - 1 are inside.    *)
(* A push or pop that fails changes nothing.                               *)
(***************************************************************************)
EXTENDS Integers, Sequences

CONSTANTS Values, Capacity, Nothing

VARIABLES fifo,     \* the items inside, oldest first
          popped    \* the item the last successful pop returned

vars == <<fifo, popped>>

Put(v) ==
    /\ Len(fifo) < Capacity - 1
    /\ fifo' = Append(fifo, v)
    /\ UNCHANGED popped

Get ==
    /\ fifo # <<>>
    /\ popped' = Head(fifo)
    /\ fifo' = Tail(fifo)

Init == fifo = <<>> /\ popped = Nothing

Next == Get \/ \E v \in Values : Put(v)

Spec == Init /\ [][Next]_vars
=============================================================================
