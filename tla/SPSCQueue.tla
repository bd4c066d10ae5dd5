----------------------------- MODULE SPSCQueue ------------------------------
(***************************************************************************)
(* The lock-free ring buffer of include/map/core/SPSCQueue.hpp, one        *)
(* producer and one consumer, at the grain of its atomic accesses.         *)
(*                                                                         *)
(* An acquire load of the other side's index may return any value that     *)
(* side has stored since the one seen last, so each side keeps what it saw *)
(* (tailSeen, headSeen) apart from the index itself.  The copy into or out *)
(* of a slot takes time: a slot holds Torn while it is written.            *)
(***************************************************************************)
EXTENDS Integers, Sequences

CONSTANTS
    Capacity,   \* the template parameter
    Values,     \* what is sent
    Torn,       \* a slot that is being written
    Nothing     \* what a slot holds before its first write

ASSUME CapacityAssumption == Capacity \in Nat /\ Capacity > 1

ASSUME ValuesAssumption == Torn \notin Values /\ Nothing \notin Values /\ Torn # Nothing

VARIABLES
    head, tail,     \* head_ and tail_
    slots,          \* buffer_
    tailSeen,       \* the last tail_ the producer loaded
    headSeen,       \* the last head_ the consumer loaded
    pushing,        \* where push is: "idle", "copying" or "copied"
    item,           \* push's argument
    popping,        \* where pop is: "idle", "copying" or "copied"
    out,            \* pop's output parameter
    popped          \* what the last successful pop returned

producer == <<head, tailSeen, pushing, item>>
consumer == <<tail, headSeen, popping, out, popped>>
vars == <<slots, producer, consumer>>

Index == 0..(Capacity - 1)

\* One index for Capacity items: the ring is full when it looks empty.
IncrementWide(idx) == (idx + 1) % (Capacity + 1)

Increment(idx) == (idx + 1) % Capacity

\* How many increments lead from i to j
Dist(i, j) == IF i <= j THEN j - i ELSE j - i + Capacity

\* The values a load of an index may return: none older than the last one.
Loads(seen, actual) == {i \in Index : Dist(seen, i) <= Dist(seen, actual)}

-----------------------------------------------------------------------------
(* push, by the producer thread                                            *)

PushFull ==
    /\ pushing = "idle"
    /\ tailSeen' \in Loads(tailSeen, tail)
    /\ Increment(head) = tailSeen'
    /\ UNCHANGED <<head, pushing, item, slots, consumer>>

\* The fullness test left out
PushUnchecked(v) ==
    /\ pushing = "idle"
    /\ tailSeen' \in Loads(tailSeen, tail)
    /\ pushing' = "copying"
    /\ item' = v
    /\ slots' = [slots EXCEPT ![head] = Torn]
    /\ UNCHANGED <<head, consumer>>

PushBegin(v) ==
    /\ pushing = "idle"
    /\ tailSeen' \in Loads(tailSeen, tail)
    /\ Increment(head) # tailSeen'
    /\ pushing' = "copying"
    /\ item' = v
    /\ slots' = [slots EXCEPT ![head] = Torn]
    /\ UNCHANGED <<head, consumer>>

PushCopy ==
    /\ pushing = "copying"
    /\ pushing' = "copied"
    /\ slots' = [slots EXCEPT ![head] = item]
    /\ UNCHANGED <<head, tailSeen, item, consumer>>

PushPublish ==
    /\ pushing = "copied"
    /\ pushing' = "idle"
    /\ head' = Increment(head)
    /\ UNCHANGED <<tailSeen, item, slots, consumer>>

-----------------------------------------------------------------------------
(* pop, by the consumer thread                                             *)

PopEmpty ==
    /\ popping = "idle"
    /\ headSeen' \in Loads(headSeen, head)
    /\ tail = headSeen'
    /\ UNCHANGED <<tail, popping, out, popped, slots, producer>>

PopBegin ==
    /\ popping = "idle"
    /\ headSeen' \in Loads(headSeen, head)
    /\ tail # headSeen'
    /\ popping' = "copying"
    /\ UNCHANGED <<tail, out, popped, slots, producer>>

PopCopy ==
    /\ popping = "copying"
    /\ popping' = "copied"
    /\ out' = slots[tail]
    /\ UNCHANGED <<tail, headSeen, popped, slots, producer>>

\* tail_ is never stored: the consumer returns the same item again.
ForgetToFree ==
    /\ popping = "copied"
    /\ popping' = "idle"
    /\ popped' = out
    /\ UNCHANGED <<tail, headSeen, out, slots, producer>>

PopFree ==
    /\ popping = "copied"
    /\ popping' = "idle"
    /\ tail' = Increment(tail)
    /\ popped' = out
    /\ UNCHANGED <<headSeen, out, slots, producer>>

-----------------------------------------------------------------------------

Init ==
    /\ head = 0 /\ tail = 0
    /\ tailSeen = 0 /\ headSeen = 0
    /\ slots = [i \in Index |-> Nothing]
    /\ pushing = "idle" /\ popping = "idle"
    /\ item = Nothing /\ out = Nothing /\ popped = Nothing

Next ==
    \/ PushFull
    \/ \E v \in Values : PushBegin(v)
    \/ PushCopy
    \/ PushPublish
    \/ PopEmpty
    \/ PopBegin
    \/ PopCopy
    \/ PopFree

(***************************************************************************)
(* A started call returns, the consumer polls for ever, and a store is     *)
(* eventually visible to a polling thread ([atomics.order] asks for it).   *)
(* Nothing obliges the producer to push.                                   *)
(***************************************************************************)
Fairness ==
    /\ WF_vars(PushCopy) /\ WF_vars(PushPublish)
    /\ WF_vars(PopBegin) /\ WF_vars(PopCopy) /\ WF_vars(PopFree)

Spec == Init /\ [][Next]_vars /\ Fairness
-----------------------------------------------------------------------------
(* What the queue promises                                                 *)

TypeOK ==
    /\ head \in Index /\ tail \in Index
    /\ tailSeen \in Index /\ headSeen \in Index
    /\ slots \in [Index -> Values \cup {Torn, Nothing}]
    /\ pushing \in {"idle", "copying", "copied"}
    /\ popping \in {"idle", "copying", "copied"}
    /\ item \in Values \cup {Nothing}
    /\ out \in Values \cup {Torn, Nothing}
    /\ popped \in Values \cup {Torn, Nothing}

(***************************************************************************)
(* No data race: the two threads are never at the same slot, so buffer_    *)
(* needs no synchronisation beyond head_ and tail_.                        *)
(***************************************************************************)
NoRace == ~(pushing # "idle" /\ popping # "idle" /\ head = tail)

(***************************************************************************)
(* Stale views only ever err on the safe side: the producer never believes *)
(* more room, nor the consumer more items, than there are, even though     *)
(* each may be arbitrarily far behind the other's stores.                  *)
(***************************************************************************)
ViewsAreSafe ==
    /\ Dist(tail, head) <= Dist(tailSeen, head)
    /\ Dist(tail, headSeen) <= Dist(tail, head)

-----------------------------------------------------------------------------
(* The inductive invariant of the proofs                                   *)

\* tailSeen, tail, headSeen and head follow each other around the ring.
ViewsInOrder ==
    /\ Dist(tailSeen, tail) <= Dist(tailSeen, head)
    /\ Dist(tail, headSeen) <= Dist(tail, head)

\* What the tests at the top of push and pop have found stays true.
TestsHold ==
    /\ pushing # "idle" => Increment(head) # tailSeen
    /\ popping # "idle" => tail # headSeen

\* The slots between tail_ and head_ hold what was pushed.
SlotsFilled ==
    /\ \A i \in Index : Dist(tail, i) < Dist(tail, head) => slots[i] \in Values
    /\ pushing # "idle" => item \in Values
    /\ pushing = "copied" => slots[head] = item
    /\ popping = "copied" => out = slots[tail]

IInv == TypeOK /\ ViewsInOrder /\ TestsHold /\ SlotsFilled
-----------------------------------------------------------------------------

\* The items between tail_ and head_, oldest first
Inside == [k \in 1..Dist(tail, head) |-> slots[(tail + k - 1) % Capacity]]

Fifo == INSTANCE BoundedFifo WITH fifo <- Inside

(***************************************************************************)
(* The ring buffer is a bounded FIFO: a push takes effect at its store of  *)
(* head_, a pop at its store of tail_, and what pop returns is what push   *)
(* was given.                                                              *)
(***************************************************************************)
ImplementsFifo == Fifo!Spec

(***************************************************************************)
(* An item that was pushed is popped while the consumer keeps polling.     *)
(***************************************************************************)
FrontIsPopped == \A i \in Index : (tail = i /\ head # i) ~> (tail # i)
=============================================================================
