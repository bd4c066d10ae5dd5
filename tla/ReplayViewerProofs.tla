------------------------- MODULE ReplayViewerProofs -------------------------
(***************************************************************************)
(* Theorems about the viewer's window, for any logs, any function that     *)
(* says what a book quotes, and any number of clicks.                      *)
(***************************************************************************)
EXTENDS ReplayViewer, FiniteSetTheorems, SequenceTheorems, TLAPS

-----------------------------------------------------------------------------
(* What is counted of the events on the screen                             *)

LEMMA DomainOfAppend ==
    ASSUME NEW p \in Seq(Nat), NEW n \in Nat
    PROVE  /\ Len(p) \in Nat /\ DOMAIN p = 1..Len(p)
           /\ DOMAIN Append(p, n) = DOMAIN p \cup {Len(p) + 1}
           /\ Len(p) + 1 \notin DOMAIN p
           /\ \A i \in DOMAIN p : Append(p, n)[i] = p[i]
           /\ Append(p, n)[Len(p) + 1] = n
           /\ Len(Append(p, n)) = Len(p) + 1 /\ Append(p, n) \in Seq(Nat)
<1>1. Len(p) \in Nat /\ DOMAIN p = 1..Len(p)
  BY LenProperties
<1>2. /\ Append(p, n) \in Seq(Nat) /\ Len(Append(p, n)) = Len(p) + 1
      /\ \A i \in 1..Len(p) : Append(p, n)[i] = p[i]
      /\ Append(p, n)[Len(p) + 1] = n
  BY AppendProperties
<1>3. DOMAIN Append(p, n) = 1..(Len(p) + 1)
  BY <1>2, LenProperties
<1>4. 1..(Len(p) + 1) = 1..Len(p) \cup {Len(p) + 1} /\ Len(p) + 1 \notin 1..Len(p)
  BY <1>1
<1> QED BY <1>1, <1>2, <1>3, <1>4

LEMMA PositionsFinite ==
    ASSUME NEW p \in Seq(Nat), NEW T, T \subseteq DOMAIN p
    PROVE  IsFiniteSet(T) /\ Cardinality(T) \in Nat
<1>1. Len(p) \in Nat /\ DOMAIN p = 1..Len(p)
  BY LenProperties
<1>2. IsFiniteSet(1..Len(p))
  BY <1>1, FS_Interval
<1>3. IsFiniteSet(T)
  BY <1>1, <1>2, FS_Subset
<1> QED BY <1>3, FS_CardinalityType

(***************************************************************************)
(* One event more on the screen: recordEventForDebug counts it.            *)
(***************************************************************************)
LEMMA OrdersAppend ==
    ASSUME NEW p \in Seq(Nat), NEW n \in Nat
    PROVE  /\ Orders(Append(p, n)) = IF log[n].kind = "New" THEN Orders(p) \cup {Len(p) + 1}
                                     ELSE Orders(p)
           /\ Orders(p) \subseteq DOMAIN p
           /\ Cardinality(Orders(p)) \in Nat
           /\ Cardinality(Orders(Append(p, n))) =
                 Cardinality(Orders(p)) + IF log[n].kind = "New" THEN 1 ELSE 0
<1>1. Orders(p) \subseteq DOMAIN p
  BY DEF Orders
<1>2. Orders(Append(p, n)) = IF log[n].kind = "New" THEN Orders(p) \cup {Len(p) + 1}
                             ELSE Orders(p)
  BY DomainOfAppend DEF Orders
<1>3. IsFiniteSet(Orders(p)) /\ Cardinality(Orders(p)) \in Nat
  BY <1>1, PositionsFinite
<1>4. Len(p) + 1 \notin Orders(p)
  BY <1>1, DomainOfAppend
<1>5. Cardinality(Orders(p) \cup {Len(p) + 1}) = Cardinality(Orders(p)) + 1
  BY <1>3, <1>4, FS_AddElement
<1> QED BY <1>1, <1>2, <1>3, <1>5

LEMMA HistogramAppend ==
    ASSUME NEW p \in Seq(Nat), NEW n \in Nat
    PROVE  /\ Histogram(p) \in [Buckets -> Nat]
           /\ Histogram(Append(p, n)) = Recorded(Histogram(p), log[n])
<1> DEFINE In(q, b) == {i \in Orders(q) : bucketIndex(log[q[i]].qty) = b}
           t == Append(p, n)
<1>1. \A b \in Buckets : Cardinality(In(p, b)) \in Nat /\ IsFiniteSet(In(p, b))
  <2> TAKE b \in Buckets
  <2>1. In(p, b) \subseteq DOMAIN p
    BY DEF Orders
  <2> HIDE DEF In
  <2> QED BY <2>1, PositionsFinite
<1>2. Histogram(p) = [b \in Buckets |-> Cardinality(In(p, b))]
  BY DEF Histogram
<1>3. Histogram(t) = [b \in Buckets |-> Cardinality(In(t, b))]
  BY DEF Histogram
<1>4. Histogram(p) \in [Buckets -> Nat]
  <2> HIDE DEF In
  <2> QED BY <1>1, <1>2
<1>5. /\ \A i \in Orders(p) : t[i] = p[i]
      /\ t[Len(p) + 1] = n /\ Len(p) + 1 \notin Orders(p)
      /\ Orders(t) = IF log[n].kind = "New" THEN Orders(p) \cup {Len(p) + 1} ELSE Orders(p)
  BY DomainOfAppend, OrdersAppend
<1> HIDE DEF t
<1>6. CASE log[n].kind # "New"
  <2>1. \A b \in Buckets : In(t, b) = In(p, b)
    BY <1>5, <1>6
  <2> HIDE DEF In
  <2> QED BY <1>2, <1>3, <1>4, <1>6, <2>1 DEF Recorded, t
<1>7. CASE log[n].kind = "New"
  <2> DEFINE c == bucketIndex(log[n].qty)
  <2>1. c \in Buckets
    BY DEF bucketIndex, Buckets
  <2> HIDE DEF c
  <2>2. \A b \in Buckets : In(t, b) = IF b = c THEN In(p, b) \cup {Len(p) + 1} ELSE In(p, b)
    BY <1>5, <1>7 DEF c
  <2>3. \A b \in Buckets : Len(p) + 1 \notin In(p, b)
    BY <1>5
  <2> HIDE DEF In
  <2>4. \A b \in Buckets :
          Cardinality(In(t, b)) = IF b = c THEN Cardinality(In(p, b)) + 1 ELSE Cardinality(In(p, b))
    <3> TAKE b \in Buckets
    <3>1. Cardinality(In(p, b) \cup {Len(p) + 1}) = Cardinality(In(p, b)) + 1
      BY <1>1, <2>3, FS_AddElement
    <3> QED BY <2>2, <3>1
  <2>5. Recorded(Histogram(p), log[n]) = [Histogram(p) EXCEPT ![c] = Histogram(p)[c] + 1]
    BY <1>7 DEF Recorded, c
  <2>6. Histogram(t) = [Histogram(p) EXCEPT ![c] = Histogram(p)[c] + 1]
    <3> DEFINE h == Histogram(p)
    <3>1. h \in [Buckets -> Nat] /\ \A b \in Buckets : h[b] = Cardinality(In(p, b))
      BY <1>2, <1>4
    <3>2. \A b \in Buckets : Cardinality(In(t, b)) = [h EXCEPT ![c] = h[c] + 1][b]
      <4> HIDE DEF h
      <4> QED BY <2>1, <2>4, <3>1
    <3>3. [h EXCEPT ![c] = h[c] + 1] = [b \in Buckets |-> [h EXCEPT ![c] = h[c] + 1][b]]
      <4> HIDE DEF h
      <4> QED BY <3>1
    <3> HIDE DEF h
    <3> QED BY <1>3, <3>2, <3>3 DEF h
  <2> QED BY <1>4, <2>5, <2>6 DEF t
<1> QED BY <1>6, <1>7

LEMMA NothingCounted ==
    Orders(<<>>) = {} /\ Cardinality(Orders(<<>>)) = 0 /\ Histogram(<<>>) = [b \in Buckets |-> 0]
<1>1. Orders(<<>>) = {}
  BY DEF Orders
<1>2. Cardinality({}) = 0
  BY FS_EmptySet
<1>3. \A b \in Buckets : {i \in Orders(<<>>) : bucketIndex(log[<<>>[i]].qty) = b} = {}
  BY <1>1
<1>4. \A b \in Buckets : Cardinality({i \in Orders(<<>>) : bucketIndex(log[<<>>[i]].qty) = b}) = 0
  BY <1>2, <1>3
<1> QED BY <1>1, <1>2, <1>4 DEF Histogram

LEMMA FirstPositions ==
    ASSUME NEW n \in Nat, NEW m \in 0..n
    PROVE  /\ SubSeq(Upto(n), 1, m) = Upto(m) /\ Upto(m) \in Seq(1..n) /\ Len(Upto(m)) = m
           /\ DOMAIN Upto(m) = 1..m /\ \A i \in 1..m : Upto(m)[i] = i
<1>1. m \in Nat
  OBVIOUS
<1>2. Upto(m) \in [1..m -> 1..n] /\ Upto(n) \in [1..n -> Nat]
  BY DEF Upto
<1>3. /\ Upto(m) \in Seq(1..n) /\ Upto(n) \in Seq(Nat)
      /\ DOMAIN Upto(m) = 1..m /\ DOMAIN Upto(n) = 1..n
  <2>1. Upto(m) \in UNION {[1..k -> 1..n] : k \in Nat}
    BY <1>1, <1>2
  <2>2. Upto(n) \in UNION {[1..k -> Nat] : k \in Nat}
    BY <1>2
  <2> QED BY <1>2, <2>1, <2>2, SeqDef
<1>4. Len(Upto(m)) = m /\ Len(Upto(n)) = n
  BY <1>3, <1>1, LenProperties
<1>5. SubSeq(Upto(n), 1, m) = Restrict(Upto(n), 1..m)
  BY <1>3, <1>4, SubSeqRestrict
<1>6. Restrict(Upto(n), 1..m) = Upto(m)
  BY DEF Restrict, Upto
<1>7. \A i \in 1..m : Upto(m)[i] = i
  BY DEF Upto
<1> QED BY <1>3, <1>4, <1>5, <1>6, <1>7

LEMMA CountedUpto ==
    ASSUME NEW n \in Nat, NEW p \in Seq(1..n)
    PROVE  p \in Seq(Nat) /\ Histogram(p) \in [Buckets -> Nat]
<1>1. 1..n \subseteq Nat
  OBVIOUS
<1>2. p \in Seq(Nat)
  BY <1>1, SeqMonotonic
<1> QED BY <1>2, HistogramAppend

-----------------------------------------------------------------------------
(* The steps of playback                                                   *)

LEMMA SameLog ==
    ASSUME log' = log
    PROVE  /\ Histogram(shown)' = Histogram(shown') /\ EventsOf(shown)' = EventsOf(shown')
           /\ Orders(history)' = Orders(history')
BY DEF Histogram, Orders, EventsOf

LEMMA Facts ==
    ASSUME IInv
    PROVE  /\ TypeOK /\ NeverTwice /\ PanelsMatchBook /\ ChecksumOfScreen
           /\ log \in Logs /\ Len(log) \in Nat /\ DOMAIN log = 1..Len(log)
           /\ history \in Seq(Nat) /\ Len(history) \in Nat /\ Len(history) <= Len(log)
           /\ history = Upto(Len(history))
           /\ shown \in Seq(1..Len(history)) /\ shown \in Seq(Nat)
           /\ Len(shown) \in Nat /\ DOMAIN shown = 1..Len(shown)
           /\ None \notin Seq(Nat)
<1>1. /\ TypeOK /\ NeverTwice /\ PanelsMatchBook /\ ChecksumOfScreen
      /\ log \in Logs /\ history \in Seq(Nat) /\ history = Upto(Len(history))
      /\ Len(history) <= Len(log) /\ shown \in Seq(1..Len(history))
  BY DEF IInv, TypeOK
<1>2. Len(log) \in Nat /\ log = [i \in 1..Len(log) |-> log[i]] /\ None \notin Seq(Nat)
  BY <1>1, ViewerAssumption
<1>3. DOMAIN log = 1..Len(log)
  <2>1. DOMAIN [i \in 1..Len(log) |-> log[i]] = 1..Len(log)
    OBVIOUS
  <2> QED BY <1>2, <2>1
<1>4. Len(history) \in Nat /\ Len(shown) \in Nat /\ DOMAIN shown = 1..Len(shown)
  BY <1>1, LenProperties
<1>5. shown \in Seq(Nat)
  BY <1>1, <1>4, CountedUpto
<1> QED BY <1>1, <1>2, <1>3, <1>4, <1>5

LEMMA StepEventStep ==
    ASSUME IInv, NEW e, e \in {log[i] : i \in DOMAIN log}, StepEvent(e)
    PROVE  IInv'
<1>1. /\ ~eof /\ Len(history) < Len(log) /\ e = log[Len(history) + 1]
      /\ history' = Append(history, Len(history) + 1)
      /\ shown' = Append(shown, Len(history) + 1)
      /\ seen' = seen + 1 /\ sizes' = Recorded(sizes, e) /\ lastEvent' = e
      /\ mid' = updateMidFromBook(shown')
      /\ thisSec' = IF e.kind = "New" THEN thisSec + 1 ELSE thisSec
      /\ stepOnce' = FALSE
      /\ UNCHANGED <<log, open, complete, eof, checksum, perSec, paused, inputs>>
  BY DEF StepEvent, shouldStep
<1>2. /\ TypeOK /\ NeverTwice /\ PanelsMatchBook /\ ChecksumOfScreen
      /\ log \in Logs /\ Len(log) \in Nat /\ DOMAIN log = 1..Len(log)
      /\ history \in Seq(Nat) /\ Len(history) \in Nat
      /\ history = Upto(Len(history))
      /\ shown \in Seq(1..Len(history)) /\ shown \in Seq(Nat)
      /\ Len(shown) \in Nat /\ DOMAIN shown = 1..Len(shown)
  BY Facts
<1> DEFINE n == Len(history) + 1
           m == Len(shown) + 1
<1>3. n \in Nat /\ n \in 1..n /\ m \in Nat
  BY <1>2
<1>4. /\ history' \in Seq(Nat) /\ Len(history') = n
      /\ \A i \in 1..Len(history) : history'[i] = history[i]
      /\ history'[n] = n
  BY <1>1, <1>2, <1>3, AppendProperties
<1>5. /\ shown' \in Seq(1..n) /\ Len(shown') = m /\ DOMAIN shown' = 1..m
      /\ \A i \in 1..Len(shown) : shown'[i] = shown[i]
      /\ shown'[m] = n
  <2>1. 1..Len(history) \subseteq 1..n
    BY <1>2
  <2>2. shown \in Seq(1..n)
    BY <1>2, <2>1, SeqMonotonic
  <2>3. /\ shown' \in Seq(1..n) /\ Len(shown') = m
        /\ \A i \in 1..Len(shown) : shown'[i] = shown[i] /\ shown'[m] = n
    BY <1>1, <1>3, <2>2, AppendProperties
  <2>4. shown'[m] = n
    BY <1>1, <1>3, <2>2, AppendProperties
  <2>5. DOMAIN shown' = 1..m
    BY <2>3, LenProperties
  <2> QED BY <2>3, <2>4, <2>5
<1>6. /\ sizes = Histogram(shown) /\ seen = Len(shown)
      /\ thisSec + perSec <= Cardinality(Orders(history))
      /\ thisSec \in Nat /\ perSec \in Nat
  BY <1>2 DEF PanelsMatchBook, TypeOK
<1>7. sizes' = Histogram(shown') /\ sizes' \in [Buckets -> Nat]
  <2>1. Histogram(Append(shown, n)) = Recorded(Histogram(shown), log[n])
    BY <1>2, <1>3, HistogramAppend
  <2>2. Append(shown, n) \in Seq(Nat)
    BY <1>2, <1>3, AppendProperties
  <2>3. Histogram(Append(shown, n)) \in [Buckets -> Nat]
    BY <2>2, HistogramAppend
  <2> QED BY <1>1, <1>6, <2>1, <2>3
<1>8. TypeOK'
  <2>1. history' = Upto(Len(history'))
    <3>1. \A i \in 1..n : history'[i] = i
      <4> TAKE i \in 1..n
      <4>1. CASE i = n
        BY <1>4, <4>1
      <4>2. CASE i \in 1..Len(history)
        <5>1. history[i] = i
          BY <1>2, <4>2 DEF Upto
        <5> QED BY <1>4, <4>2, <5>1
      <4> QED BY <1>2, <4>1, <4>2
    <3>2. history' = [i \in 1..n |-> history'[i]]
      <4>1. history' = [i \in DOMAIN history' |-> history'[i]]
        <5>1. history' \in UNION {[1..k -> Nat] : k \in Nat}
          BY <1>4, SeqDef, Zenon
        <5> QED BY <5>1
      <4>2. DOMAIN history' = 1..n
        BY <1>4, LenProperties
      <4> QED BY <4>1, <4>2, Zenon
    <3> QED BY <1>4, <3>1, <3>2 DEF Upto
  <2>2. Len(history') <= Len(log')
    BY <1>1, <1>2, <1>4
  <2>3. checksum' = None
    BY <1>1, <1>2 DEF ChecksumOfScreen
  <2>4. lastEvent' \in Range(log)
    <3>1. n \in DOMAIN log
      BY <1>1, <1>2
    <3>2. log[n] \in Range(log)
      BY <3>1 DEF Range
    <3>3. lastEvent' = log[n]
      BY <1>1
    <3> QED BY <3>2, <3>3
  <2>5. seen' \in Nat /\ thisSec' \in Nat /\ stepOnce' \in BOOLEAN
    <3>1. seen' \in Nat
      BY <1>1, <1>2, <1>6
    <3>2. thisSec' \in Nat
      BY <1>1, <1>6
    <3> QED BY <1>1, <3>1, <3>2
  <2> QED BY <1>1, <1>2, <1>4, <1>5, <1>7, <2>1, <2>2, <2>3, <2>4, <2>5 DEF TypeOK
<1>9. NeverTwice'
  <2>1. PICK kept \in 0..Len(shown) : \A i \in DOMAIN shown :
            shown[i] = IF i <= kept THEN i ELSE Len(history) - (Len(shown) - i)
    BY <1>2 DEF NeverTwice
  <2>2. kept \in 0..m
    BY <1>2
  <2>3. \A i \in 1..m : shown'[i] = IF i <= kept THEN i ELSE n - (m - i)
    <3> TAKE i \in 1..m
    <3>1. CASE i = m
      <4>1. ~(m <= kept) /\ n - (m - m) = n
        BY <1>2
      <4> QED BY <1>5, <3>1, <4>1
    <3>2. CASE i \in 1..Len(shown)
      <4>1. shown[i] = IF i <= kept THEN i ELSE Len(history) - (Len(shown) - i)
        BY <1>2, <2>1, <3>2
      <4>2. Len(history) - (Len(shown) - i) = n - (m - i)
        BY <1>2, <3>2
      <4> QED BY <1>5, <3>2, <4>1, <4>2
    <3> QED BY <1>2, <3>1, <3>2
  <2>4. kept \in 0..Len(shown')
    BY <1>5, <2>2
  <2>5. \A i \in DOMAIN shown' :
          shown'[i] = IF i <= kept THEN i ELSE Len(history') - (Len(shown') - i)
    BY <1>4, <1>5, <2>3
  <2> QED BY <2>4, <2>5 DEF NeverTwice
<1>10. PanelsMatchBook'
  <2>1. seen' = Len(shown')
    BY <1>1, <1>5, <1>6
  <2>2. sizes' = Histogram(shown)'
    BY <1>1, <1>7, SameLog
  <2>3. lastEvent' = (IF shown = <<>> THEN None ELSE log[Last(shown)])'
    <3>1. shown' # <<>>
      BY <1>2, <1>5, EmptySeq
    <3>2. Last(shown)' = n
      BY <1>5 DEF Last
    <3> QED BY <1>1, <3>1, <3>2
  <2>4. Mid(EventsOf(shown)') \in {None, mid'}
    BY <1>1, SameLog DEF updateMidFromBook
  <2>5. thisSec' + perSec' <= Cardinality(Orders(history)')
    <3>1. Cardinality(Orders(history')) =
             Cardinality(Orders(history)) + IF log[n].kind = "New" THEN 1 ELSE 0
      BY <1>1, <1>2, <1>3, OrdersAppend
    <3>2. Cardinality(Orders(history)) \in Nat
      BY <1>2, <1>3, OrdersAppend
    <3>3. Orders(history)' = Orders(history')
      BY <1>1, SameLog
    <3> QED BY <1>1, <1>6, <3>1, <3>2, <3>3
  <2> QED BY <2>1, <2>2, <2>3, <2>4, <2>5 DEF PanelsMatchBook
<1>11. ChecksumOfScreen'
  BY <1>1, <1>2 DEF ChecksumOfScreen
<1>12. complete' => Len(history') = Len(log')
  BY <1>1, <1>2 DEF IInv
<1> QED BY <1>8, <1>9, <1>10, <1>11, <1>12 DEF IInv

LEMMA StepEndStep ==
    ASSUME IInv, StepEnd
    PROVE  IInv'
<1>1. /\ ~eof /\ Len(history) = Len(log) /\ eof' = TRUE /\ complete' = TRUE
      /\ checksum' = shown /\ stepOnce' = FALSE
      /\ UNCHANGED <<log, open, history, shown, seen, sizes, lastEvent, mid, thisSec, perSec,
                     paused, inputs>>
  BY DEF StepEnd, shouldStep, rate
<1>2. /\ TypeOK /\ NeverTwice /\ PanelsMatchBook /\ shown \in Seq(1..Len(history))
      /\ shown \in Seq(Nat) /\ None \notin Seq(Nat)
  BY Facts
<1>3. TypeOK'
  BY <1>1, <1>2 DEF TypeOK
<1>4. NeverTwice'
  BY <1>1, <1>2 DEF NeverTwice
<1>5. PanelsMatchBook'
  BY <1>1, <1>2, SameLog DEF PanelsMatchBook
<1>6. ChecksumOfScreen'
  <2>1. shown # None
    BY <1>2
  <2> QED BY <1>1, <2>1 DEF ChecksumOfScreen
<1> QED BY <1>1, <1>3, <1>4, <1>5, <1>6 DEF IInv

-----------------------------------------------------------------------------
(* The steps of the user and of the clock                                  *)

LEMMA StillBounded ==
    ASSUME NEW a \in Nat, NEW b \in Nat, NEW c \in Nat, NEW d \in Nat, NEW most \in Nat,
           c + d <= a + b, a + b <= most
    PROVE  c + d <= most
  OBVIOUS

(***************************************************************************)
(* What changes neither the log, the history nor the screen keeps the      *)
(* invariant.                                                              *)
(***************************************************************************)
LEMMA ScreenUntouched ==
    ASSUME IInv, UNCHANGED <<log, history, complete, shown, panels>>,
           open' \in BOOLEAN, thisSec' \in Nat, perSec' \in Nat,
           thisSec' + perSec' <= thisSec + perSec,
           paused' \in BOOLEAN, stepOnce' \in BOOLEAN, inputs' \in 0..MaxInputs
    PROVE  IInv'
<1>1. UNCHANGED <<log, history, complete, shown, seen, sizes, lastEvent, mid, eof, checksum>>
  BY DEF panels
<1>2. TypeOK /\ NeverTwice /\ PanelsMatchBook /\ ChecksumOfScreen /\ history \in Seq(Nat)
  BY Facts
<1>3. TypeOK'
  BY <1>1, <1>2 DEF TypeOK
<1>4. NeverTwice'
  BY <1>1, <1>2 DEF NeverTwice
<1>5. PanelsMatchBook'
  <2>1. thisSec' + perSec' <= Cardinality(Orders(history)')
    <3>1. thisSec + perSec <= Cardinality(Orders(history)) /\ thisSec \in Nat /\ perSec \in Nat
      BY <1>2 DEF PanelsMatchBook, TypeOK
    <3>2. Cardinality(Orders(history)) \in Nat
      BY <1>2, OrdersAppend
    <3>3. Orders(history)' = Orders(history)
      BY <1>1, SameLog
    <3>4. PICK most \in Nat : most = Cardinality(Orders(history))
      BY <3>2
    <3>5. thisSec + perSec <= most /\ thisSec \in Nat /\ perSec \in Nat
      BY <3>1, <3>4
    <3>6. thisSec' + perSec' <= most
      BY <3>4, <3>5, StillBounded, Zenon
    <3> QED BY <3>3, <3>4, <3>6
  <2> QED BY <1>1, <1>2, <2>1, SameLog DEF PanelsMatchBook
<1>6. ChecksumOfScreen'
  BY <1>1, <1>2 DEF ChecksumOfScreen
<1> QED BY <1>1, <1>3, <1>4, <1>5, <1>6 DEF IInv

LEMMA Small ==
    ASSUME IInv
    PROVE  /\ open \in BOOLEAN /\ thisSec \in Nat /\ perSec \in Nat
           /\ thisSec + perSec <= thisSec + perSec /\ thisSec + 0 <= thisSec + perSec
           /\ paused \in BOOLEAN /\ stepOnce \in BOOLEAN /\ inputs \in 0..MaxInputs
BY DEF IInv, TypeOK

LEMMA SecondStep ==
    ASSUME IInv, Second
    PROVE  IInv'
<1>1. /\ perSec' = thisSec /\ thisSec' = 0
      /\ UNCHANGED <<log, open, history, complete, shown, panels, paused, stepOnce, inputs>>
  BY DEF Second, ui
<1>2. thisSec' + perSec' <= thisSec + perSec
  BY <1>1, Small
<1> QED BY <1>1, <1>2, Small, ScreenUntouched

LEMMA PressSpaceStep ==
    ASSUME IInv, PressSpace
    PROVE  IInv'
<1>1. /\ paused' \in BOOLEAN
      /\ UNCHANGED <<log, open, history, complete, shown, panels, thisSec, perSec, stepOnce,
                     inputs>>
  BY DEF PressSpace, rate
<1> QED BY <1>1, Small, ScreenUntouched

LEMMA PressRightStep ==
    ASSUME IInv, PressRight
    PROVE  IInv'
<1>1. /\ stepOnce' \in BOOLEAN
      /\ UNCHANGED <<log, open, history, complete, shown, panels, thisSec, perSec, paused,
                     inputs>>
  BY DEF PressRight, rate
<1> QED BY <1>1, Small, ScreenUntouched

LEMMA CloseWindowStep ==
    ASSUME IInv, CloseWindow
    PROVE  IInv'
<1>1. /\ open' \in BOOLEAN
      /\ UNCHANGED <<log, history, complete, shown, panels, thisSec, perSec, paused, stepOnce,
                     inputs>>
  BY DEF CloseWindow, rate, ui
<1> QED BY <1>1, Small, ScreenUntouched

LEMMA ScrubFacts ==
    ASSUME IInv, Scrub
    PROVE  \E target \in 0..Len(history) :
             /\ shown' = Upto(target) /\ shown' \in Seq(1..Len(history)) /\ Len(shown') = target
             /\ DOMAIN shown' = 1..target /\ (\A i \in 1..target : shown'[i] = i)
             /\ seen' = target /\ sizes' = Histogram(shown')
             /\ lastEvent' = IF shown' = <<>> THEN None ELSE log[Last(shown')]
             /\ mid' = updateMidFromBook(shown')
             /\ eof' = (complete /\ target = Len(history))
             /\ checksum' = IF eof' THEN shown' ELSE None
             /\ inputs' \in 0..MaxInputs
             /\ UNCHANGED <<log, open, history, complete, thisSec, perSec, paused, stepOnce>>
<1>1. PICK target \in 0..Len(history) : rebuildToIndex(target)
  BY DEF Scrub
<1>2. shown' = SubSeq(history, 1, target)
  BY <1>1 DEF rebuildToIndex
<1>3. Len(history) \in Nat /\ history = Upto(Len(history))
  BY Facts
<1>4. /\ SubSeq(Upto(Len(history)), 1, target) = Upto(target)
      /\ Upto(target) \in Seq(1..Len(history)) /\ Len(Upto(target)) = target
      /\ DOMAIN Upto(target) = 1..target /\ \A i \in 1..target : Upto(target)[i] = i
  BY <1>3, FirstPositions
<1>5. shown' = Upto(target)
  BY <1>2, <1>3, <1>4
<1>6. inputs' \in 0..MaxInputs
  <2>1. inputs \in 0..MaxInputs /\ inputs < MaxInputs /\ inputs' = inputs + 1 /\ MaxInputs \in Nat
    BY ViewerAssumption DEF IInv, TypeOK, Scrub
  <2> QED BY <2>1
<1>7. UNCHANGED <<log, open, history, complete, thisSec, perSec, paused, stepOnce>>
  BY DEF Scrub, rate, ui
<1>8. /\ seen' = target /\ sizes' = Histogram(shown')
      /\ lastEvent' = IF shown' = <<>> THEN None ELSE log[Last(shown')]
      /\ mid' = updateMidFromBook(shown')
      /\ eof' = (complete /\ target = Len(history))
      /\ checksum' = IF eof' THEN shown' ELSE None
  BY <1>1 DEF rebuildToIndex
<1>9. /\ shown' \in Seq(1..Len(history)) /\ Len(shown') = target
      /\ DOMAIN shown' = 1..target /\ \A i \in 1..target : shown'[i] = i
  BY <1>4, <1>5
<1> QED BY <1>5, <1>6, <1>7, <1>8, <1>9

LEMMA ScrubStep ==
    ASSUME IInv, Scrub
    PROVE  IInv'
<1>1. PICK target \in 0..Len(history) :
         /\ shown' = Upto(target) /\ shown' \in Seq(1..Len(history)) /\ Len(shown') = target
         /\ DOMAIN shown' = 1..target /\ (\A i \in 1..target : shown'[i] = i)
         /\ seen' = target /\ sizes' = Histogram(shown')
         /\ lastEvent' = IF shown' = <<>> THEN None ELSE log[Last(shown')]
         /\ mid' = updateMidFromBook(shown')
         /\ eof' = (complete /\ target = Len(history))
         /\ checksum' = IF eof' THEN shown' ELSE None
         /\ inputs' \in 0..MaxInputs
         /\ UNCHANGED <<log, open, history, complete, thisSec, perSec, paused, stepOnce>>
  BY ScrubFacts
<1>2. /\ TypeOK /\ PanelsMatchBook /\ Len(history) \in Nat /\ Len(history) <= Len(log)
      /\ DOMAIN log = 1..Len(log) /\ Len(log) \in Nat /\ None \notin Seq(Nat)
  BY Facts
<1>3. target \in Nat /\ target <= Len(history)
  BY <1>2
<1>4. shown' \in Seq(Nat) /\ Histogram(shown') \in [Buckets -> Nat]
  BY <1>1, <1>2, CountedUpto
<1>5. lastEvent' = None \/ lastEvent' \in Range(log)
  <2>1. CASE shown' = <<>>
    BY <1>1, <2>1
  <2>2. CASE shown' # <<>>
    <3>1. target \in 1..target
      BY <1>1, <1>3, <1>4, <2>2, EmptySeq
    <3>2. Last(shown') = target
      BY <1>1, <3>1 DEF Last
    <3>3. target \in DOMAIN log
      BY <1>2, <1>3, <3>1
    <3>4. log[target] \in Range(log)
      BY <3>3 DEF Range
    <3> QED BY <1>1, <2>2, <3>2, <3>4
  <2> QED BY <2>1, <2>2
<1>6. TypeOK'
  <2>1. eof' \in BOOLEAN /\ complete \in BOOLEAN
    BY <1>1, <1>2 DEF TypeOK
  <2>2. checksum' = None \/ checksum' \in Seq(1..Len(history))
    BY <1>1
  <2> QED BY <1>1, <1>2, <1>3, <1>4, <1>5, <2>1, <2>2 DEF TypeOK
<1>7. NeverTwice'
  <2>1. target \in 0..Len(shown')
    BY <1>1, <1>3
  <2>2. \A i \in DOMAIN shown' :
          shown'[i] = IF i <= target THEN i ELSE Len(history') - (Len(shown') - i)
    BY <1>1, <1>3
  <2> QED BY <2>1, <2>2 DEF NeverTwice
<1>8. PanelsMatchBook'
  <2>1. seen' = Len(shown')
    BY <1>1
  <2>2. sizes' = Histogram(shown)'
    BY <1>1, SameLog
  <2>3. lastEvent' = (IF shown = <<>> THEN None ELSE log[Last(shown)])'
    BY <1>1 DEF Last
  <2>4. Mid(EventsOf(shown)') \in {None, mid'}
    BY <1>1, SameLog DEF updateMidFromBook
  <2>5. thisSec' + perSec' <= Cardinality(Orders(history)')
    <3>1. Orders(history)' = Orders(history)
      BY <1>1, SameLog
    <3> QED BY <1>1, <1>2, <3>1 DEF PanelsMatchBook
  <2> QED BY <2>1, <2>2, <2>3, <2>4, <2>5 DEF PanelsMatchBook
<1>9. ChecksumOfScreen'
  <2>1. shown' # None
    BY <1>2, <1>4
  <2> QED BY <1>1, <2>1 DEF ChecksumOfScreen
<1>10. complete' => Len(history') = Len(log')
  BY <1>1 DEF IInv
<1> QED BY <1>6, <1>7, <1>8, <1>9, <1>10 DEF IInv

-----------------------------------------------------------------------------
(* The theorems                                                            *)

LEMMA Start == Init => IInv
<1> SUFFICES ASSUME Init PROVE IInv
  OBVIOUS
<1>1. /\ log \in Logs /\ open = TRUE /\ history = <<>> /\ complete = FALSE /\ shown = <<>>
      /\ seen = 0 /\ sizes = [b \in Buckets |-> 0] /\ lastEvent = None
      /\ eof = FALSE /\ checksum = None /\ thisSec = 0 /\ perSec = 0
      /\ paused = FALSE /\ stepOnce = FALSE /\ inputs = 0
  BY DEF Init
<1>2. /\ <<>> \in Seq(Nat) /\ <<>> \in Seq(1..0) /\ Len(<<>>) = 0
      /\ DOMAIN <<>> = {}
  BY EmptySeq
<1>3. TypeOK
  <2>1. Len(log) \in Nat /\ MaxInputs \in Nat
    BY <1>1, ViewerAssumption
  <2>2. history = Upto(Len(history))
    BY <1>1, <1>2 DEF Upto
  <2>3. sizes \in [Buckets -> Nat] /\ Len(history) <= Len(log) /\ inputs \in 0..MaxInputs
    BY <1>1, <1>2, <2>1
  <2> QED BY <1>1, <1>2, <2>2, <2>3 DEF TypeOK
<1>4. NeverTwice
  <2>1. 0 \in 0..Len(shown)
    BY <1>1, <1>2
  <2> QED BY <1>1, <1>2, <2>1 DEF NeverTwice
<1>5. PanelsMatchBook
  <2>1. sizes = Histogram(shown) /\ Cardinality(Orders(history)) = 0
    BY <1>1, NothingCounted
  <2>2. Mid(EventsOf(shown)) \in {None, mid}
    <3>1. EventsOf(shown) = <<>>
      BY <1>1, <1>2 DEF EventsOf
    <3> QED BY <3>1, ViewerAssumption
  <2> QED BY <1>1, <1>2, <2>1, <2>2 DEF PanelsMatchBook
<1>6. ChecksumOfScreen
  BY <1>1 DEF ChecksumOfScreen
<1> QED BY <1>1, <1>3, <1>4, <1>5, <1>6 DEF IInv

LEMMA NextStep ==
    ASSUME IInv, [Next]_vars
    PROVE  IInv'
<1>1. CASE StepEnd
  BY <1>1, StepEndStep
<1>2. ASSUME NEW e \in {log[i] : i \in DOMAIN log}, StepEvent(e) PROVE IInv'
  BY <1>2, StepEventStep
<1>3. CASE Second
  BY <1>3, SecondStep
<1>4. CASE PressSpace
  BY <1>4, PressSpaceStep
<1>5. CASE PressRight
  BY <1>5, PressRightStep
<1>6. CASE CloseWindow
  BY <1>6, CloseWindowStep
<1>7. CASE Scrub
  BY <1>7, ScrubStep
<1>8. CASE UNCHANGED vars
  <2>1. UNCHANGED <<log, open, history, complete, shown, panels, thisSec, perSec, paused,
                    stepOnce, inputs>>
    BY <1>8 DEF vars, rate, ui
  <2> QED BY <2>1, Small, ScreenUntouched
<1> QED BY <1>1, <1>2, <1>3, <1>4, <1>5, <1>6, <1>7, <1>8 DEF Next, Step

(***************************************************************************)
(* What the window shows, the history it scrubs over and the reader stay   *)
(* in step over any clicks, steps and seconds.                             *)
(***************************************************************************)
THEOREM Invariance == Spec => []IInv
  BY Start, NextStep, PTL DEF Spec

(***************************************************************************)
(* history of ob_viewer is the beginning of the log, and every panel has a *)
(* value of its kind.                                                      *)
(***************************************************************************)
THEOREM TypeCorrect == Spec => []TypeOK
<1>1. IInv => TypeOK
  BY DEF IInv
<1> QED BY Invariance, <1>1, PTL

(***************************************************************************)
(* rebuildToIndex and the step handler apply no event twice and none       *)
(* before an earlier one; what a scrub leaves out is one stretch.          *)
(***************************************************************************)
THEOREM NothingAppliedTwice == Spec => []NeverTwice
<1>1. IInv => NeverTwice
  BY DEF IInv
<1> QED BY Invariance, <1>1, PTL

(***************************************************************************)
(* Events seen, histogram, last event and mid are those of the book beside *)
(* them; no order is counted in two seconds.                               *)
(***************************************************************************)
THEOREM PanelsAreOfTheBook == Spec => []PanelsMatchBook
<1>1. IInv => PanelsMatchBook
  BY DEF IInv
<1> QED BY Invariance, <1>1, PTL

(***************************************************************************)
(* A checksum is on the screen exactly at the end of the log, and it is    *)
(* the one of the book on the screen.                                      *)
(***************************************************************************)
THEOREM ChecksumIsOfTheScreen == Spec => []ChecksumOfScreen
<1>1. IInv => ChecksumOfScreen
  BY DEF IInv
<1> QED BY Invariance, <1>1, PTL

(***************************************************************************)
(* A click on the right end of the timeline restores the whole replay and  *)
(* its checksum, once the log has been read to its end.                    *)
(***************************************************************************)
THEOREM EndIsRestored == Spec => EndRestoresReplay
<1>1. ASSUME IInv, [Next]_vars
      PROVE  [complete /\ inputs' # inputs /\ eof' => checksum' = Upto(Len(log))]_vars
  <2> SUFFICES ASSUME Next, complete, inputs' # inputs, eof'
               PROVE  checksum' = Upto(Len(log))
    BY <1>1
  <2>1. Scrub
    BY DEF Next, Step, StepEnd, StepEvent, Second, PressSpace, PressRight, CloseWindow, ui
  <2>2. PICK target \in 0..Len(history) :
           /\ shown' = Upto(target)
           /\ eof' = (complete /\ target = Len(history))
           /\ checksum' = IF eof' THEN shown' ELSE None
    BY <1>1, <2>1, ScrubFacts
  <2>3. target = Len(history) /\ checksum' = Upto(target)
    BY <2>2
  <2>4. Len(history) = Len(log)
    BY <1>1 DEF IInv
  <2> QED BY <2>3, <2>4
<1> QED BY Invariance, <1>1, PTL DEF Spec, EndRestoresReplay
=============================================================================
