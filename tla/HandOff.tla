------------------------------ MODULE HandOff -------------------------------
(***************************************************************************)
(* What one stage of the pipeline really gets from the stage before it:    *)
(* the items in the order they were sent, each at most once, and all of    *)
(* them but possibly one, which can only go missing after the sender has   *)
(* closed.  The receiver finishes when nothing is left to receive.         *)
(***************************************************************************)
EXTENDS Integers, Sequences

CONSTANT Items

VARIABLES sent, received,   \* the items so far, in order
          lost,             \* the item thrown away: a sequence of at most one
          closed,           \* the sender has declared that it is done
          finished          \* the receiver has stopped

vars == <<sent, received, lost, closed, finished>>

\* How many of the sent items the receiver has taken
Taken == Len(received) + Len(lost)

Send(item) ==
    /\ ~closed
    /\ sent' = Append(sent, item)
    /\ UNCHANGED <<received, lost, closed, finished>>

Close ==
    /\ ~closed
    /\ closed' = TRUE
    /\ UNCHANGED <<sent, received, lost, finished>>

Receive ==
    /\ ~finished
    /\ Taken < Len(sent)
    /\ received' = Append(received, sent[Taken + 1])
    /\ UNCHANGED <<sent, lost, closed, finished>>

Lose ==
    /\ ~finished /\ closed
    /\ lost = <<>>
    /\ Taken < Len(sent)
    /\ lost' = <<sent[Taken + 1]>>
    /\ UNCHANGED <<sent, received, closed, finished>>

Finish ==
    /\ ~finished /\ closed
    /\ Taken = Len(sent)
    /\ finished' = TRUE
    /\ UNCHANGED <<sent, received, lost, closed>>

Init ==
    /\ sent = <<>> /\ received = <<>> /\ lost = <<>>
    /\ closed = FALSE /\ finished = FALSE

Next == (\E item \in Items : Send(item)) \/ Close \/ Receive \/ Lose \/ Finish

Spec == Init /\ [][Next]_vars
=============================================================================
