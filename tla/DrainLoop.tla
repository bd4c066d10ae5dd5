----------------------------- MODULE DrainLoop ------------------------------
(***************************************************************************)
(* The consuming loop of the strategy thread and of the risk thread        *)
(* (src/apps/live_sim_mt.cpp): pop; when that fails, load the producer's   *)
(* done flag and, if it is set, pop a second time to decide to stop.  An   *)
(* item that the second pop returns is not handled: the loop starts over.  *)
(*                                                                         *)
(* The queue is the FIFO that SPSCQueue implements.  A pop that fails on   *)
(* a stale index is the same as one that failed earlier, since a failed    *)
(* pop changes nothing; a pop after the flag was seen set is never stale.  *)
(***************************************************************************)
EXTENDS Sequences

VARIABLES queue,    \* the queue to the consumer
          done,     \* the producer's atomic done flag
          at,       \* where the loop is
          held,     \* the local variable pop writes to
          lost      \* history: the items nobody handles

PopGot ==
    /\ at = "pop" /\ queue # <<>>
    /\ held' = Head(queue)
    /\ queue' = Tail(queue)
    /\ at' = "handle"
    /\ UNCHANGED lost

PopMissed ==
    /\ at = "pop" /\ queue = <<>>
    /\ at' = "check"
    /\ UNCHANGED <<queue, held, lost>>

NotDone ==
    /\ at = "check" /\ ~done
    /\ at' = "pop"
    /\ UNCHANGED <<queue, held, lost>>

SeenDone ==
    /\ at = "check" /\ done
    /\ at' = "again"
    /\ UNCHANGED <<queue, held, lost>>

\* !pop(upd) is false: the loop yields and starts over, and upd is dropped.
SecondPopGot ==
    /\ at = "again" /\ queue # <<>>
    /\ held' = Head(queue)
    /\ queue' = Tail(queue)
    /\ lost' = Append(lost, Head(queue))
    /\ at' = "pop"

SecondPopMissed ==
    /\ at = "again" /\ queue = <<>>
    /\ at' = "exit"
    /\ UNCHANGED <<queue, held, lost>>

\* The flag alone decides: what is still queued is abandoned.
StopWhenDone ==
    \/ PopGot \/ PopMissed \/ NotDone
    \/ /\ at = "check" /\ done
       /\ at' = "exit"
       /\ UNCHANGED <<queue, held, lost>>

\* The loop never stops at the flag.
NeverStop ==
    PopGot \/ PopMissed \/ NotDone \/ SeenDone \/ SecondPopGot

Drain ==
    \/ PopGot \/ PopMissed \/ NotDone
    \/ SeenDone \/ SecondPopGot \/ SecondPopMissed
=============================================================================
