--------------------------- MODULE SPSCQueueProofs --------------------------
(***************************************************************************)
(* For every capacity: the ring buffer's indices stay in the buffer, the   *)
(* two threads are never at one slot, stale views are safe, and the ring   *)
(* implements the bounded FIFO.                                            *)
(***************************************************************************)
EXTENDS SPSCQueue, SequenceTheorems, TLAPS

-----------------------------------------------------------------------------
(* Arithmetic of the ring                                                  *)

(* One step around the ring, without a remainder. *)
LEMMA IncrementStep ==
    ASSUME NEW i \in Index
    PROVE  /\ Increment(i) = IF i + 1 = Capacity THEN 0 ELSE i + 1
           /\ Increment(i) \in Index
  BY CapacityAssumption, SMTT(30) DEF Index, Increment

(* A distance is a number of steps short of a full round. *)
LEMMA DistBound ==
    ASSUME NEW i \in Index, NEW j \in Index
    PROVE  /\ Dist(i, j) \in 0..(Capacity - 1)
           /\ Dist(i, j) = 0 <=> i = j
  BY CapacityAssumption DEF Index, Dist

(* A step at the far end adds one to a distance, short of a full round. *)
LEMMA FarStep ==
    ASSUME NEW i \in Index, NEW j \in Index, Increment(j) # i
    PROVE  Dist(i, Increment(j)) = Dist(i, j) + 1
  BY CapacityAssumption, IncrementStep DEF Index, Dist

(* A step at the near end takes one off a distance that is not zero. *)
LEMMA NearStep ==
    ASSUME NEW i \in Index, NEW j \in Index, i # j
    PROVE  Dist(Increment(i), j) = Dist(i, j) - 1
  BY CapacityAssumption, IncrementStep DEF Index, Dist

(* i, j, k follow each other around the ring: distances add up. *)
LEMMA DistSplit ==
    ASSUME NEW i \in Index, NEW j \in Index, NEW k \in Index,
           Dist(i, j) <= Dist(i, k)
    PROVE  /\ Dist(i, k) = Dist(i, j) + Dist(j, k)
           /\ Dist(j, k) <= Dist(i, k)
  BY CapacityAssumption DEF Index, Dist

(* A position is determined by its distance. *)
LEMMA DistInjective ==
    ASSUME NEW i \in Index, NEW j \in Index, NEW k \in Index,
           Dist(i, j) = Dist(i, k)
    PROVE  j = k
  BY CapacityAssumption DEF Index, Dist

(* A later load by the producer still returns an index behind tail. *)
LEMMA ProducerLoads ==
    ASSUME NEW seen \in Index, NEW i \in Index, NEW j \in Index, NEW new \in Index,
           Dist(seen, i) <= Dist(seen, j), Dist(seen, new) <= Dist(seen, i)
    PROVE  Dist(new, i) <= Dist(new, j)
  BY CapacityAssumption DEF Index, Dist

(* A later load by the consumer still returns an index before head. *)
LEMMA ConsumerLoads ==
    ASSUME NEW i \in Index, NEW seen \in Index, NEW j \in Index, NEW new \in Index,
           Dist(i, seen) <= Dist(i, j), Dist(seen, new) <= Dist(seen, j)
    PROVE  Dist(i, new) <= Dist(i, j)
  BY CapacityAssumption DEF Index, Dist

-----------------------------------------------------------------------------
(* The invariant                                                           *)

(* Where the consumer is in a slot, there is an item in it. *)
LEMMA ReadingMeansFilled ==
    ASSUME IInv, popping # "idle"
    PROVE  tail # head /\ Dist(tail, head) > 0
<1>1. /\ head \in Index /\ tail \in Index /\ headSeen \in Index
      /\ Dist(tail, headSeen) <= Dist(tail, head)
      /\ tail # headSeen
  BY DEF IInv, TypeOK, ViewsInOrder, TestsHold
<1> QED
  BY <1>1, CapacityAssumption DEF Index, Dist

(* Where the producer is in a slot, there is room for one more item. *)
LEMMA WritingMeansRoom ==
    ASSUME IInv, pushing # "idle"
    PROVE  Increment(head) # tail /\ Dist(tail, head) < Capacity - 1
<1>1. /\ head \in Index /\ tail \in Index /\ tailSeen \in Index
      /\ Dist(tailSeen, tail) <= Dist(tailSeen, head)
      /\ Increment(head) # tailSeen
  BY DEF IInv, TypeOK, ViewsInOrder, TestsHold
<1>2. /\ Increment(head) = IF head + 1 = Capacity THEN 0 ELSE head + 1
      /\ Increment(head) \in Index
  BY <1>1, IncrementStep
<1>3. Dist(tailSeen, head) < Capacity - 1
  BY <1>1, <1>2, CapacityAssumption DEF Index, Dist
<1>4. Dist(tail, head) <= Dist(tailSeen, head)
  BY <1>1, DistSplit
<1>5. Dist(tail, head) < Capacity - 1
  BY <1>1, <1>3, <1>4, CapacityAssumption DEF Index, Dist
<1>6. Increment(head) # tail
  BY <1>1, <1>2, <1>5, CapacityAssumption DEF Index, Dist
<1> QED
  BY <1>5, <1>6

LEMMA InitInvariant ==
    ASSUME Init
    PROVE  IInv
  BY CapacityAssumption DEF Init, IInv, TypeOK, ViewsInOrder, TestsHold,
     SlotsFilled, Index, Dist

(* A push that finds the ring full only renews the producer's view. *)
LEMMA PushFullInvariant ==
    ASSUME IInv, PushFull
    PROVE  IInv'
<1>1. /\ tailSeen' \in Index
      /\ Dist(tailSeen', tail) <= Dist(tailSeen', head)
  BY ProducerLoads DEF PushFull, Loads, IInv, TypeOK, ViewsInOrder
<1>2. TypeOK'
  BY <1>1 DEF IInv, PushFull, consumer, TypeOK
<1>3. ViewsInOrder'
  BY <1>1 DEF IInv, PushFull, consumer, ViewsInOrder
<1>4. TestsHold'
  BY DEF IInv, PushFull, consumer, TestsHold
<1>5. SlotsFilled'
  BY DEF IInv, PushFull, consumer, SlotsFilled
<1> QED
  BY <1>2, <1>3, <1>4, <1>5 DEF IInv

(* Writing starts in a slot that holds no item. *)
LEMMA PushBeginInvariant ==
    ASSUME IInv, NEW v \in Values, PushBegin(v)
    PROVE  IInv'
<1>1. /\ tailSeen' \in Index
      /\ Dist(tailSeen', tail) <= Dist(tailSeen', head)
  BY ProducerLoads DEF PushBegin, Loads, IInv, TypeOK, ViewsInOrder
<1>2. TypeOK'
  BY <1>1 DEF IInv, PushBegin, consumer, TypeOK
<1>3. ViewsInOrder'
  BY <1>1 DEF IInv, PushBegin, consumer, ViewsInOrder
<1>4. TestsHold'
  BY DEF IInv, PushBegin, consumer, TestsHold
<1>5. SlotsFilled'
  <2>1. \A i \in Index : i # head => slots'[i] = slots[i]
    BY DEF PushBegin, IInv, TypeOK
  <2>2. \A i \in Index : Dist(tail, i) < Dist(tail, head) => i # head
    BY DistBound DEF IInv, TypeOK, Index
  <2>3. popping = "copied" => tail # head
    BY ReadingMeansFilled
  <2>4. tail \in Index
    BY DEF IInv, TypeOK
  <2> QED
    BY <2>1, <2>2, <2>3, <2>4 DEF IInv, PushBegin, consumer, SlotsFilled
<1> QED
  BY <1>2, <1>3, <1>4, <1>5 DEF IInv

(* The copy fills the slot at head, which is not yet inside. *)
LEMMA PushCopyInvariant ==
    ASSUME IInv, PushCopy
    PROVE  IInv'
<1>1. /\ \A i \in Index : i # head => slots'[i] = slots[i]
      /\ slots'[head] = item
  BY DEF PushCopy, IInv, TypeOK
<1>2. TypeOK'
  BY DEF IInv, PushCopy, consumer, TypeOK
<1>3. ViewsInOrder' /\ TestsHold'
  BY DEF IInv, PushCopy, consumer, ViewsInOrder, TestsHold
<1>4. SlotsFilled'
  <2>1. \A i \in Index : Dist(tail, i) < Dist(tail, head) => i # head
    BY DistBound DEF IInv, TypeOK, Index
  <2>2. popping = "copied" => tail # head
    BY ReadingMeansFilled
  <2>3. tail \in Index
    BY DEF IInv, TypeOK
  <2> QED
    BY <1>1, <2>1, <2>2, <2>3 DEF IInv, PushCopy, consumer, SlotsFilled
<1> QED
  BY <1>2, <1>3, <1>4 DEF IInv

(* Storing head takes one more slot, the one just filled, inside. *)
LEMMA PushPublishInvariant ==
    ASSUME IInv, PushPublish
    PROVE  IInv'
<1>1. /\ head \in Index /\ tail \in Index /\ tailSeen \in Index /\ headSeen \in Index
      /\ Increment(head) # tailSeen
      /\ head' = Increment(head) /\ head' \in Index
      /\ UNCHANGED <<slots, tail, tailSeen, headSeen, item, popping, out, popped>>
      /\ pushing' = "idle"
  BY IncrementStep DEF PushPublish, consumer, IInv, TypeOK, TestsHold
<1>2. Increment(head) # tail
  BY WritingMeansRoom DEF PushPublish
<1>3. /\ Dist(tailSeen, head') = Dist(tailSeen, head) + 1
      /\ Dist(tail, head') = Dist(tail, head) + 1
  BY <1>1, <1>2, FarStep
<1>4. TypeOK'
  BY <1>1 DEF IInv, TypeOK
<1>5. ViewsInOrder'
  <2>1. /\ Dist(tailSeen, tail) \in Int /\ Dist(tailSeen, head) \in Int
        /\ Dist(tail, headSeen) \in Int /\ Dist(tail, head) \in Int
    BY <1>1, CapacityAssumption DEF Index, Dist
  <2> QED
    BY <1>1, <1>3, <2>1 DEF IInv, ViewsInOrder
<1>6. TestsHold'
  BY <1>1 DEF IInv, TestsHold
<1>7. SlotsFilled'
  <2>1. slots[head] \in Values
    BY DEF IInv, PushPublish, SlotsFilled
  <2>2. ASSUME NEW i \in Index, Dist(tail, i) < Dist(tail, head) + 1
        PROVE  slots[i] \in Values
    <3>1. Dist(tail, i) \in Int /\ Dist(tail, head) \in Int
      BY <1>1, CapacityAssumption DEF Index, Dist
    <3>2. Dist(tail, i) < Dist(tail, head) \/ i = head
      BY <1>1, <2>2, <3>1, DistInjective
    <3> QED
      BY <2>1, <3>2 DEF IInv, SlotsFilled
  <2> QED
    BY <1>1, <1>3, <2>2 DEF IInv, SlotsFilled
<1> QED
  BY <1>4, <1>5, <1>6, <1>7 DEF IInv

(* A pop that finds the ring empty only renews the consumer's view. *)
LEMMA PopEmptyInvariant ==
    ASSUME IInv, PopEmpty
    PROVE  IInv'
<1>1. headSeen' \in Index /\ Dist(tail, headSeen') <= Dist(tail, head)
  BY ConsumerLoads DEF PopEmpty, Loads, IInv, TypeOK, ViewsInOrder
<1>2. TypeOK'
  BY <1>1 DEF IInv, PopEmpty, producer, TypeOK
<1>3. ViewsInOrder'
  BY <1>1 DEF IInv, PopEmpty, producer, ViewsInOrder
<1>4. TestsHold'
  BY DEF IInv, PopEmpty, producer, TestsHold
<1>5. SlotsFilled'
  BY DEF IInv, PopEmpty, producer, SlotsFilled
<1> QED
  BY <1>2, <1>3, <1>4, <1>5 DEF IInv

LEMMA PopBeginInvariant ==
    ASSUME IInv, PopBegin
    PROVE  IInv'
<1>1. headSeen' \in Index /\ Dist(tail, headSeen') <= Dist(tail, head)
  BY ConsumerLoads DEF PopBegin, Loads, IInv, TypeOK, ViewsInOrder
<1>2. TypeOK'
  BY <1>1 DEF IInv, PopBegin, producer, TypeOK
<1>3. ViewsInOrder'
  BY <1>1 DEF IInv, PopBegin, producer, ViewsInOrder
<1>4. TestsHold'
  BY DEF IInv, PopBegin, producer, TestsHold
<1>5. SlotsFilled'
  BY DEF IInv, PopBegin, producer, SlotsFilled
<1> QED
  BY <1>2, <1>3, <1>4, <1>5 DEF IInv

LEMMA PopCopyInvariant ==
    ASSUME IInv, PopCopy
    PROVE  IInv'
<1>1. TypeOK'
  BY DEF IInv, PopCopy, producer, TypeOK
<1>2. ViewsInOrder' /\ TestsHold' /\ SlotsFilled'
  BY DEF IInv, PopCopy, producer, ViewsInOrder, TestsHold, SlotsFilled
<1> QED
  BY <1>1, <1>2 DEF IInv

(* Storing tail gives the slot at the near end back to the producer. *)
LEMMA PopFreeInvariant ==
    ASSUME IInv, PopFree
    PROVE  IInv'
<1>1. /\ head \in Index /\ tail \in Index /\ tailSeen \in Index /\ headSeen \in Index
      /\ tail # headSeen
      /\ tail' = Increment(tail) /\ tail' \in Index
      /\ UNCHANGED <<slots, head, tailSeen, headSeen, pushing, item, out>>
      /\ popping' = "idle"
  BY IncrementStep DEF PopFree, producer, IInv, TypeOK, TestsHold
<1>2. tail # head /\ Dist(tail, head) > 0
  BY ReadingMeansFilled DEF PopFree
<1>3. /\ Dist(tail', head) = Dist(tail, head) - 1
      /\ Dist(tail', headSeen) = Dist(tail, headSeen) - 1
  BY <1>1, <1>2, NearStep
<1>4. /\ Dist(tailSeen, tail) \in Int /\ Dist(tailSeen, head) \in Int
      /\ Dist(tail, headSeen) \in Int /\ Dist(tail, head) \in Int
      /\ Dist(tailSeen, head) < Capacity
  BY <1>1, CapacityAssumption DEF Index, Dist
<1>5. TypeOK'
  BY <1>1 DEF IInv, TypeOK, PopFree
<1>6. ViewsInOrder'
  <2>1. Dist(tailSeen, tail) + 1 <= Dist(tailSeen, head)
    <3>1. Dist(tailSeen, head) = Dist(tailSeen, tail) + Dist(tail, head)
      BY <1>1, DistSplit DEF IInv, ViewsInOrder
    <3> QED
      BY <1>2, <1>4, <3>1
  <2>2. Increment(tail) = IF tail + 1 = Capacity THEN 0 ELSE tail + 1
    BY <1>1, IncrementStep
  <2>3. Increment(tail) # tailSeen
    BY <1>1, <1>4, <2>1, <2>2, CapacityAssumption DEF Index, Dist
  <2>4. Dist(tailSeen, tail') = Dist(tailSeen, tail) + 1
    BY <1>1, <2>3, FarStep
  <2> QED
    BY <1>1, <1>3, <1>4, <2>1, <2>4 DEF IInv, ViewsInOrder
<1>7. TestsHold'
  BY <1>1 DEF IInv, TestsHold
<1>8. SlotsFilled'
  <2>1. ASSUME NEW i \in Index, Dist(tail', i) < Dist(tail', head)
        PROVE  slots[i] \in Values
    <3>1. i # tail
      <4>1. Dist(tail', tail) = Capacity - 1
        BY <1>1, IncrementStep, CapacityAssumption DEF Index, Dist
      <4>2. Dist(tail', head) \in 0..(Capacity - 1)
        BY <1>1, DistBound
      <4> QED
        BY <2>1, <4>1, <4>2, CapacityAssumption
    <3>2. Dist(tail', i) = Dist(tail, i) - 1
      BY <1>1, <3>1, NearStep
    <3>3. Dist(tail, i) \in Int
      BY <1>1, CapacityAssumption DEF Index, Dist
    <3> QED
      BY <1>3, <1>4, <2>1, <3>2, <3>3 DEF IInv, SlotsFilled
  <2> QED
    BY <1>1, <2>1 DEF IInv, SlotsFilled
<1> QED
  BY <1>5, <1>6, <1>7, <1>8 DEF IInv

(* Every step keeps the invariant. *)
LEMMA NextInvariant ==
    ASSUME IInv, [Next]_vars
    PROVE  IInv'
<1>1. CASE PushFull
  BY <1>1, PushFullInvariant
<1>2. ASSUME NEW v \in Values, PushBegin(v)
      PROVE  IInv'
  BY <1>2, PushBeginInvariant
<1>3. CASE PushCopy
  BY <1>3, PushCopyInvariant
<1>4. CASE PushPublish
  BY <1>4, PushPublishInvariant
<1>5. CASE PopEmpty
  BY <1>5, PopEmptyInvariant
<1>6. CASE PopBegin
  BY <1>6, PopBeginInvariant
<1>7. CASE PopCopy
  BY <1>7, PopCopyInvariant
<1>8. CASE PopFree
  BY <1>8, PopFreeInvariant
<1>9. CASE UNCHANGED vars
  BY <1>9 DEF vars, producer, consumer, IInv, TypeOK, ViewsInOrder, TestsHold, SlotsFilled
<1> QED
  BY <1>1, <1>2, <1>3, <1>4, <1>5, <1>6, <1>7, <1>8, <1>9 DEF Next

(***************************************************************************)
(* The ring's invariant: the views, tail_ and head_ follow each other      *)
(* around the ring, a passed test stays true, and the slots between tail_  *)
(* and head_ hold what was pushed (SPSCQueue.hpp, push and pop).           *)
(***************************************************************************)
THEOREM Invariance == Spec => []IInv
<1>1. Init => IInv
  BY InitInvariant
<1>2. IInv /\ [Next]_vars => IInv'
  BY NextInvariant
<1> QED
  BY <1>1, <1>2, PTL DEF Spec

(***************************************************************************)
(* The indices never leave the buffer and the slots hold nothing foreign.  *)
(***************************************************************************)
THEOREM TypeCorrect == Spec => []TypeOK
<1>1. IInv => TypeOK
  BY DEF IInv
<1> QED
  BY <1>1, Invariance, PTL

(***************************************************************************)
(* For every capacity, and however stale the loads of the other side's     *)
(* index are, producer and consumer are never at the same slot.            *)
(***************************************************************************)
THEOREM RaceFree == Spec => []NoRace
<1>1. IInv => NoRace
  BY ReadingMeansFilled DEF NoRace
<1> QED
  BY <1>1, Invariance, PTL

(***************************************************************************)
(* The producer never sees too much room nor the consumer too many items.  *)
(***************************************************************************)
THEOREM StaleViewsAreSafe == Spec => []ViewsAreSafe
<1>1. IInv => ViewsAreSafe
  BY DistSplit DEF IInv, TypeOK, ViewsInOrder, ViewsAreSafe
<1> QED
  BY <1>1, Invariance, PTL

-----------------------------------------------------------------------------
(* The ring implements the bounded FIFO                                    *)

(* The slot k places from i. *)
LEMMA PlaceOf ==
    ASSUME NEW i \in Index, NEW k \in 1..(Capacity - 1)
    PROVE  /\ (i + k - 1) % Capacity = IF i + k - 1 < Capacity THEN i + k - 1
                                       ELSE i + k - 1 - Capacity
           /\ (i + k - 1) % Capacity \in Index
           /\ Dist(i, (i + k - 1) % Capacity) = k - 1
<1>1. (i + k - 1) % Capacity = IF i + k - 1 < Capacity THEN i + k - 1
                               ELSE i + k - 1 - Capacity
  BY CapacityAssumption, SMTT(30) DEF Index
<1> QED
  BY <1>1, CapacityAssumption DEF Index, Dist

(* What is inside is a sequence of values, one for each place. *)
LEMMA InsideIsSeq ==
    ASSUME IInv
    PROVE  /\ Inside \in Seq(Values)
           /\ Len(Inside) = Dist(tail, head)
           /\ \A k \in 1..Dist(tail, head) :
                 Inside[k] = slots[(tail + k - 1) % Capacity]
<1>1. head \in Index /\ tail \in Index
  BY DEF IInv, TypeOK
<1>2. Dist(tail, head) \in 0..(Capacity - 1)
  BY <1>1, DistBound
<1>3. ASSUME NEW k \in 1..Dist(tail, head)
      PROVE  slots[(tail + k - 1) % Capacity] \in Values
  <2>1. k \in 1..(Capacity - 1)
    BY <1>2, CapacityAssumption
  <2>2. /\ (tail + k - 1) % Capacity \in Index
        /\ Dist(tail, (tail + k - 1) % Capacity) = k - 1
    BY <1>1, <2>1, PlaceOf
  <2>3. Dist(tail, (tail + k - 1) % Capacity) < Dist(tail, head)
    BY <1>2, <2>2, CapacityAssumption
  <2> QED
    BY <2>2, <2>3 DEF IInv, SlotsFilled
<1>4. Dist(tail, head) \in Nat
  BY <1>2, CapacityAssumption
<1> QED
  BY <1>3, <1>4 DEF Inside

(* A step that leaves the two indices and the slots between them alone is  *)
(* a step at which nothing happens to the FIFO.                            *)
LEMMA InsideSame ==
    ASSUME IInv, UNCHANGED <<head, tail, popped>>,
           \A i \in Index : Dist(tail, i) < Dist(tail, head) => slots'[i] = slots[i]
    PROVE  UNCHANGED Fifo!vars
<1>1. head \in Index /\ tail \in Index
  BY DEF IInv, TypeOK
<1>2. Dist(tail, head) \in 0..(Capacity - 1)
  BY <1>1, DistBound
<1>3. Dist(tail, head)' = Dist(tail, head)
  BY DEF Dist
<1>4. ASSUME NEW k \in 1..Dist(tail, head)
      PROVE  slots'[(tail + k - 1) % Capacity] = slots[(tail + k - 1) % Capacity]
  <2>1. k \in 1..(Capacity - 1)
    BY <1>2, CapacityAssumption
  <2>2. /\ (tail + k - 1) % Capacity \in Index
        /\ Dist(tail, (tail + k - 1) % Capacity) = k - 1
    BY <1>1, <2>1, PlaceOf
  <2>3. Dist(tail, (tail + k - 1) % Capacity) < Dist(tail, head)
    BY <1>2, <2>2, CapacityAssumption
  <2> QED
    BY <2>2, <2>3
<1>5. Inside' = Inside
  BY <1>3, <1>4 DEF Inside
<1> QED
  BY <1>5 DEF Fifo!vars

LEMMA AppendAsFunction ==
    ASSUME NEW S, NEW s \in Seq(S), NEW x \in S
    PROVE  Append(s, x) = [k \in 1..(Len(s) + 1) |-> IF k = Len(s) + 1 THEN x ELSE s[k]]
<1> DEFINE f == [k \in 1..(Len(s) + 1) |-> IF k = Len(s) + 1 THEN x ELSE s[k]]
<1>1. /\ Append(s, x) \in Seq(S)
      /\ Len(Append(s, x)) = Len(s) + 1
      /\ \A k \in 1..Len(s) : Append(s, x)[k] = s[k]
      /\ Append(s, x)[Len(s) + 1] = x
  BY AppendProperties
<1>2. Len(s) \in Nat /\ s \in [1..Len(s) -> S]
  BY LenProperties
<1>3. \A k \in 1..(Len(s) + 1) : f[k] \in S
  BY <1>2
<1>4. f \in Seq(S) /\ Len(f) = Len(s) + 1
  BY <1>2, <1>3
<1>5. \A k \in 1..(Len(s) + 1) : f[k] = Append(s, x)[k]
  BY <1>1, <1>2
<1> HIDE DEF f
<1>6. Append(s, x) = f
  BY <1>1, <1>4, <1>5, SeqEqual
<1> QED
  BY <1>6 DEF f

LEMMA TailAsFunction ==
    ASSUME NEW S, NEW s \in Seq(S), s # <<>>
    PROVE  Tail(s) = [k \in 1..(Len(s) - 1) |-> s[k + 1]]
<1> DEFINE f == [k \in 1..(Len(s) - 1) |-> s[k + 1]]
<1>1. /\ Tail(s) \in Seq(S)
      /\ Len(Tail(s)) = Len(s) - 1
      /\ \A k \in 1..(Len(s) - 1) : Tail(s)[k] = s[k + 1]
  BY HeadTailProperties
<1>2. /\ Len(s) \in Nat /\ s \in [1..Len(s) -> S]
      /\ Len(s) - 1 \in Nat
  BY <1>1, LenProperties
<1>3. \A k \in 1..(Len(s) - 1) : f[k] \in S
  BY <1>2
<1>4. f \in Seq(S) /\ Len(f) = Len(s) - 1
  BY <1>2, <1>3
<1>5. \A k \in 1..(Len(s) - 1) : f[k] = Tail(s)[k]
  BY <1>1
<1> HIDE DEF f
<1>6. Tail(s) = f
  BY <1>1, <1>4, <1>5, SeqEqual
<1> QED
  BY <1>6 DEF f

(* The store of head_ is the put: the item goes to the far end. *)
LEMMA PublishPuts ==
    ASSUME IInv, PushPublish
    PROVE  item \in Values /\ Fifo!Put(item)
<1> DEFINE n == Dist(tail, head)
<1>1. /\ head \in Index /\ tail \in Index
      /\ head' = Increment(head)
      /\ UNCHANGED <<slots, tail, popped>>
  BY DEF PushPublish, consumer, IInv, TypeOK
<1>2. item \in Values /\ slots[head] = item
  BY DEF PushPublish, IInv, SlotsFilled
<1>3. Increment(head) # tail /\ n < Capacity - 1
  BY WritingMeansRoom DEF PushPublish
<1>4. n \in 0..(Capacity - 1)
  BY <1>1, DistBound
<1>5. Dist(tail, head)' = n + 1
  BY <1>1, <1>3, FarStep DEF Dist
<1>6. (tail + (n + 1) - 1) % Capacity = head
  <2>1. n + 1 \in 1..(Capacity - 1)
    BY <1>3, <1>4, CapacityAssumption
  <2>2. /\ (tail + (n + 1) - 1) % Capacity \in Index
        /\ Dist(tail, (tail + (n + 1) - 1) % Capacity) = (n + 1) - 1
    BY <1>1, <2>1, PlaceOf
  <2> QED
    BY <1>1, <1>4, <2>2, DistInjective
<1>7. Inside \in Seq(Values) /\ Len(Inside) = n
  BY InsideIsSeq
<1>8. Inside' = Append(Inside, item)
  <2>1. Inside' = [k \in 1..(n + 1) |-> slots[(tail + k - 1) % Capacity]]
    BY <1>1, <1>5 DEF Inside
  <2>2. Append(Inside, item) = [k \in 1..(n + 1) |-> IF k = n + 1 THEN item ELSE Inside[k]]
    BY <1>2, <1>7, AppendAsFunction
  <2>3. ASSUME NEW k \in 1..(n + 1)
        PROVE  slots[(tail + k - 1) % Capacity] = IF k = n + 1 THEN item ELSE Inside[k]
    <3>1. CASE k = n + 1
      BY <1>2, <1>6, <3>1
    <3>2. CASE k # n + 1
      <4>1. k \in 1..n
        BY <1>4, <3>2, CapacityAssumption
      <4> QED
        BY <3>2, <4>1, InsideIsSeq
    <3> QED
      BY <3>1, <3>2
  <2> HIDE DEF n
  <2> QED
    BY <2>1, <2>2, <2>3
<1> QED
  BY <1>1, <1>2, <1>3, <1>7, <1>8 DEF Fifo!Put

(* The store of tail_ is the get: the item at the near end is returned. *)
LEMMA FreeGets ==
    ASSUME IInv, PopFree
    PROVE  Fifo!Get
<1> DEFINE n == Dist(tail, head)
<1>1. /\ head \in Index /\ tail \in Index
      /\ tail' = Increment(tail)
      /\ UNCHANGED <<slots, head>>
      /\ popped' = slots[tail]
  BY DEF PopFree, producer, IInv, TypeOK, SlotsFilled
<1>2. tail # head /\ n > 0
  BY ReadingMeansFilled DEF PopFree
<1>3. n \in 0..(Capacity - 1)
  BY <1>1, DistBound
<1>4. Dist(tail, head)' = n - 1
  BY <1>1, <1>2, NearStep DEF Dist
<1>5. Inside \in Seq(Values) /\ Len(Inside) = n
  BY InsideIsSeq
<1>6. Inside # <<>>
  BY <1>2, <1>5
<1>7. Head(Inside) = slots[tail]
  <2>1. (tail + 1 - 1) % Capacity = tail
    BY <1>1, CapacityAssumption, PlaceOf DEF Index
  <2>2. 1 \in 1..n
    BY <1>2, <1>3
  <2>3. Inside[1] = slots[(tail + 1 - 1) % Capacity]
    BY <2>2, InsideIsSeq
  <2> QED
    BY <1>5, <1>6, <2>1, <2>3
<1>8. Inside' = Tail(Inside)
  <2>1. Inside' = [k \in 1..(n - 1) |-> slots[(Increment(tail) + k - 1) % Capacity]]
    BY <1>1, <1>4 DEF Inside
  <2>2. Tail(Inside) = [k \in 1..(n - 1) |-> Inside[k + 1]]
    BY <1>5, <1>6, TailAsFunction
  <2>3. ASSUME NEW k \in 1..(n - 1)
        PROVE  slots[(Increment(tail) + k - 1) % Capacity] = Inside[k + 1]
    <3>1. k \in 1..(Capacity - 1) /\ k + 1 \in 1..(Capacity - 1) /\ k + 1 \in 1..n
      BY <1>3, CapacityAssumption
    <3>2. Inside[k + 1] = slots[(tail + (k + 1) - 1) % Capacity]
      BY <3>1, InsideIsSeq
    <3>3. /\ Increment(tail) = IF tail + 1 = Capacity THEN 0 ELSE tail + 1
          /\ Increment(tail) \in Index
      BY <1>1, IncrementStep
    <3>4. (Increment(tail) + k - 1) % Capacity
            = IF Increment(tail) + k - 1 < Capacity THEN Increment(tail) + k - 1
              ELSE Increment(tail) + k - 1 - Capacity
      BY <3>1, <3>3, PlaceOf
    <3>5. (tail + (k + 1) - 1) % Capacity
            = IF tail + (k + 1) - 1 < Capacity THEN tail + (k + 1) - 1
              ELSE tail + (k + 1) - 1 - Capacity
      BY <1>1, <3>1, PlaceOf
    <3>6. (Increment(tail) + k - 1) % Capacity = (tail + (k + 1) - 1) % Capacity
      BY <1>1, <3>1, <3>3, <3>4, <3>5, CapacityAssumption DEF Index
    <3> QED
      BY <3>2, <3>6
  <2> HIDE DEF n
  <2> QED
    BY <2>1, <2>2, <2>3
<1> QED
  BY <1>1, <1>6, <1>7, <1>8 DEF Fifo!Get

LEMMA InitRefines ==
    ASSUME Init
    PROVE  Fifo!Init
<1>1. Dist(tail, head) = 0
  BY DEF Init, Dist
<1>2. Inside = <<>>
  BY <1>1 DEF Inside
<1> QED
  BY <1>2 DEF Init, Fifo!Init

(* Every step of the ring is a put, a get or nothing to the FIFO. *)
LEMMA NextRefines ==
    ASSUME IInv, [Next]_vars
    PROVE  [Fifo!Next]_(Fifo!vars)
<1>1. \A i \in Index : Dist(tail, i) < Dist(tail, head) => i # head
  BY DistBound DEF IInv, TypeOK, Index
<1>2. slots \in [Index -> Values \cup {Torn, Nothing}] /\ head \in Index
  BY DEF IInv, TypeOK
<1>3. CASE PushFull \/ PopEmpty \/ PopBegin \/ PopCopy \/ UNCHANGED vars
  <2>1. UNCHANGED <<head, tail, slots, popped>>
    BY <1>3 DEF PushFull, PopEmpty, PopBegin, PopCopy, vars, producer, consumer
  <2> QED
    BY <2>1, InsideSame
<1>4. ASSUME NEW v \in Values, PushBegin(v)
      PROVE  UNCHANGED Fifo!vars
  <2>1. UNCHANGED <<head, tail, popped>> /\ \A i \in Index : i # head => slots'[i] = slots[i]
    BY <1>2, <1>4 DEF PushBegin, consumer
  <2> QED
    BY <1>1, <2>1, InsideSame
<1>5. CASE PushCopy
  <2>1. UNCHANGED <<head, tail, popped>> /\ \A i \in Index : i # head => slots'[i] = slots[i]
    BY <1>2, <1>5 DEF PushCopy, consumer
  <2> QED
    BY <1>1, <2>1, InsideSame
<1>6. CASE PushPublish
  BY <1>6, PublishPuts DEF Fifo!Next
<1>7. CASE PopFree
  BY <1>7, FreeGets DEF Fifo!Next
<1> QED
  BY <1>3, <1>4, <1>5, <1>6, <1>7 DEF Next

(***************************************************************************)
(* For every capacity the ring buffer implements the bounded FIFO: a push  *)
(* takes effect at its store of head_, a pop at its store of tail_, and    *)
(* what pop returns is what push was given.                                *)
(***************************************************************************)
THEOREM RingIsFifo == Spec => ImplementsFifo
<1>1. Init => Fifo!Init
  BY InitRefines
<1>2. IInv /\ [Next]_vars => [Fifo!Next]_(Fifo!vars)
  BY NextRefines
<1> QED
  BY <1>1, <1>2, Invariance, PTL DEF Spec, ImplementsFifo, Fifo!Spec
=============================================================================
