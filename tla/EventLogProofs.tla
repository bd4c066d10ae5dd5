--------------------------- MODULE EventLogProofs ---------------------------
(***************************************************************************)
(* Theorems about recording and replay, for any events, any number of      *)
(* them, any wiring of the bus and any size of an id's cell.               *)
(***************************************************************************)
EXTENDS EventLog, DataInduction, SequenceTheorems

-----------------------------------------------------------------------------
(* What a book applies of a sequence of events                             *)

Upto(g, s) ==
    g = [n \in 0..Len(s) |->
            IF n = 0 THEN <<>>
            ELSE IF s[n].kind = "Trade" THEN g[n - 1] ELSE Append(g[n - 1], s[n])]

LEMMA UptoExists ==
    ASSUME NEW s \in Seq(Events)
    PROVE  \E f \in [0..Len(s) -> Seq(Events)] : Upto(f, s)
<1> DEFINE step == [i \in 1..Len(s) |-> [b \in Seq(Events) |->
                      IF s[i].kind = "Trade" THEN b ELSE Append(b, s[i])]]
<1>1. Len(s) \in Nat /\ DOMAIN s = 1..Len(s) /\ \A i \in 1..Len(s) : s[i] \in Events
  BY LenProperties, ElementOfSeq
<1>2. \A e \in Events, b \in Seq(Events) : Append(b, e) \in Seq(Events)
  BY AppendProperties
<1>3. step \in [1..Len(s) -> [Seq(Events) -> Seq(Events)]]
  BY <1>1, <1>2
<1>4. <<>> \in Seq(Events)
  BY EmptySeq
<1>5. PICK f \in [0..Len(s) -> Seq(Events)] : Folding(f, Len(s), <<>>, step)
  <2> HIDE DEF step
  <2> QED BY <1>1, <1>3, <1>4, FoldingExists
<1>6. \A n \in 0..Len(s) : f[n] = IF n = 0 THEN <<>>
            ELSE IF s[n].kind = "Trade" THEN f[n - 1] ELSE Append(f[n - 1], s[n])
  <2> TAKE n \in 0..Len(s)
  <2>1. f[n] = IF n = 0 THEN <<>> ELSE step[n][f[n - 1]]
    <3> HIDE DEF step
    <3> QED BY <1>5 DEF Folding
  <2>2. n # 0 => n \in 1..Len(s) /\ n - 1 \in 0..Len(s)
    BY <1>1
  <2>3. n # 0 => f[n - 1] \in Seq(Events)
    BY <2>2
  <2> QED BY <2>1, <2>2, <2>3
<1>7. f = [n \in 0..Len(s) |-> f[n]]
  OBVIOUS
<1>8. Upto(f, s)
  BY <1>6, <1>7 DEF Upto
<1> QED BY <1>8

LEMMA UptoUnique ==
    ASSUME NEW s \in Seq(Events), NEW t \in Seq(Events), Len(s) <= Len(t),
           \A i \in 1..Len(s) : s[i] = t[i],
           NEW f, Upto(f, s), NEW g, Upto(g, t)
    PROVE  \A n \in 0..Len(s) : f[n] = g[n]
<1>1. Len(s) \in Nat /\ Len(t) \in Nat
  BY LenProperties
<1>2. f[0] = <<>> /\ g[0] = <<>>
  BY <1>1 DEF Upto
<1>3. ASSUME NEW n \in 1..Len(s), f[n - 1] = g[n - 1] PROVE f[n] = g[n]
  <2>1. n \in 0..Len(s) /\ n \in 0..Len(t) /\ n # 0 /\ s[n] = t[n]
    BY <1>1
  <2>2. f[n] = IF s[n].kind = "Trade" THEN f[n - 1] ELSE Append(f[n - 1], s[n])
    BY <2>1 DEF Upto
  <2>3. g[n] = IF t[n].kind = "Trade" THEN g[n - 1] ELSE Append(g[n - 1], t[n])
    BY <2>1 DEF Upto
  <2> QED BY <2>1, <2>2, <2>3, <1>3
<1>4. f[0] = g[0] /\ \A n \in 1..Len(s) : f[n - 1] = g[n - 1] => f[n] = g[n]
  BY <1>2, <1>3
<1>5. InStep(f, g, Len(s))
  BY <1>4 DEF InStep
<1> QED BY <1>1, <1>5, StepwiseEqual

LEMMA BookEventsUpto ==
    ASSUME NEW s \in Seq(Events)
    PROVE  \E f \in [0..Len(s) -> Seq(Events)] : Upto(f, s) /\ BookEvents(s) = f[Len(s)]
<1> DEFINE R(g) == g = [n \in 0..Len(s) |->
            IF n = 0 THEN <<>>
            ELSE IF s[n].kind = "Trade" THEN g[n - 1] ELSE Append(g[n - 1], s[n])]
<1>1. PICK f \in [0..Len(s) -> Seq(Events)] : Upto(f, s)
  BY UptoExists
<1>2. R(f)
  BY <1>1 DEF Upto
<1>3. R(CHOOSE g : R(g))
  BY <1>2, Zenon
<1>4. Upto(CHOOSE g : R(g), s)
  BY <1>3, Zenon DEF Upto
<1>5. Len(s) \in Nat
  BY LenProperties
<1>6. Len(s) \in 0..Len(s) /\ Len(s) <= Len(s)
  BY <1>5
<1>7. (CHOOSE g : R(g))[Len(s)] = f[Len(s)]
  <2> HIDE DEF R
  <2> QED BY <1>1, <1>4, <1>6, UptoUnique
<1>8. BookEvents(s) = (CHOOSE g : R(g))[Len(s)]
  BY Zenon DEF BookEvents
<1> QED BY <1>1, <1>7, <1>8

(***************************************************************************)
(* One event more: a trade changes nothing, anything else is applied last. *)
(***************************************************************************)
LEMMA BookEventsAppend ==
    ASSUME NEW s \in Seq(Events), NEW e \in Events
    PROVE  /\ BookEvents(s) \in Seq(Events)
           /\ BookEvents(Append(s, e)) = IF e.kind = "Trade" THEN BookEvents(s)
                                         ELSE Append(BookEvents(s), e)
<1> DEFINE t == Append(s, e)
<1>1. /\ t \in Seq(Events) /\ Len(s) \in Nat /\ Len(t) = Len(s) + 1
      /\ \A i \in 1..Len(s) : t[i] = s[i]
      /\ t[Len(s) + 1] = e
  BY AppendProperties, LenProperties
<1> HIDE DEF t
<1>2. PICK f \in [0..Len(s) -> Seq(Events)] : Upto(f, s) /\ BookEvents(s) = f[Len(s)]
  BY BookEventsUpto
<1>3. PICK g \in [0..Len(t) -> Seq(Events)] : Upto(g, t) /\ BookEvents(t) = g[Len(t)]
  BY <1>1, BookEventsUpto
<1>4. f[Len(s)] = g[Len(s)]
  <2>1. Len(s) <= Len(t) /\ Len(s) \in 0..Len(s) /\ \A i \in 1..Len(s) : s[i] = t[i]
    BY <1>1
  <2> QED BY <1>1, <1>2, <1>3, <2>1, UptoUnique
<1>5. g[Len(t)] = IF e.kind = "Trade" THEN g[Len(s)] ELSE Append(g[Len(s)], e)
  <2>1. /\ Len(t) \in 0..Len(t) /\ Len(t) # 0 /\ Len(t) - 1 = Len(s) /\ t[Len(t)] = e
    BY <1>1
  <2>2. g[Len(t)] = IF t[Len(t)].kind = "Trade" THEN g[Len(t) - 1]
                    ELSE Append(g[Len(t) - 1], t[Len(t)])
    BY <1>3, <2>1 DEF Upto
  <2> QED BY <2>1, <2>2
<1>6. BookEvents(s) \in Seq(Events)
  <2>1. Len(s) \in 0..Len(s)
    BY <1>1
  <2> QED BY <1>2, <2>1
<1>7. BookEvents(t) = IF e.kind = "Trade" THEN BookEvents(s) ELSE Append(BookEvents(s), e)
  BY <1>2, <1>3, <1>4, <1>5
<1> QED BY <1>6, <1>7 DEF t

LEMMA BookEventsEmpty == BookEvents(<<>>) = <<>>
<1>1. <<>> \in Seq(Events) /\ Len(<<>>) = 0
  BY EmptySeq
<1>2. PICK f \in [0..0 -> Seq(Events)] : Upto(f, <<>>) /\ BookEvents(<<>>) = f[0]
  BY <1>1, BookEventsUpto
<1>3. f[0] = <<>>
  BY <1>1, <1>2 DEF Upto
<1> QED BY <1>2, <1>3

-----------------------------------------------------------------------------
(* Sequences of cells                                                      *)

LEMMA SeqOfItsElements ==
    ASSUME NEW s, IsSeq(s)
    PROVE  s \in Seq({s[i] : i \in 1..Len(s)})
<1> DEFINE S == {s[i] : i \in 1..Len(s)}
<1>1. Len(s) \in Nat /\ s = [i \in 1..Len(s) |-> s[i]]
  BY DEF IsSeq
<1>2. \A i \in 1..Len(s) : s[i] \in S
  OBVIOUS
<1>3. s \in [1..Len(s) -> S]
  <2> HIDE DEF S
  <2> QED BY <1>1, <1>2
<1>4. s \in UNION {[1..n -> S] : n \in Nat}
  <2> HIDE DEF S
  <2> QED BY <1>1, <1>3
<1> QED BY <1>4, SeqDef, Zenon

LEMMA SeqIsSeq ==
    ASSUME NEW S, NEW s \in Seq(S)
    PROVE  IsSeq(s) /\ DOMAIN s = 1..Len(s)
<1>1. Len(s) \in Nat /\ DOMAIN s = 1..Len(s)
  BY LenProperties
<1>2. s = [i \in 1..Len(s) |-> s[i]]
  <2>1. s \in UNION {[1..n -> S] : n \in Nat}
    BY SeqDef, Zenon
  <2>2. PICK n \in Nat : s \in [1..n -> S]
    BY <2>1
  <2>3. s = [i \in DOMAIN s |-> s[i]]
    BY <2>2
  <2> QED BY <2>3, <1>1, Zenon
<1> QED BY <1>1, <1>2 DEF IsSeq

LEMMA Joined ==
    ASSUME NEW s, IsSeq(s), NEW t, IsSeq(t)
    PROVE  /\ IsSeq(s \o t)
           /\ Len(s \o t) = Len(s) + Len(t)
           /\ \A i \in 1..Len(s) : (s \o t)[i] = s[i]
           /\ \A i \in 1..Len(t) : (s \o t)[Len(s) + i] = t[i]
<1> DEFINE S == {s[i] : i \in 1..Len(s)}
           T == {t[i] : i \in 1..Len(t)}
<1>1. s \in Seq(S) /\ t \in Seq(T)
  BY SeqOfItsElements
<1>2. s \in Seq(S \cup T) /\ t \in Seq(S \cup T)
  <2> HIDE DEF S, T
  <2>1. S \subseteq S \cup T /\ T \subseteq S \cup T
    OBVIOUS
  <2> QED BY <1>1, <2>1, SeqMonotonic
<1> HIDE DEF S, T
<1>3. /\ s \o t \in Seq(S \cup T)
      /\ Len(s \o t) = Len(s) + Len(t)
      /\ \A i \in 1..(Len(s) + Len(t)) :
            (s \o t)[i] = IF i <= Len(s) THEN s[i] ELSE t[i - Len(s)]
  BY <1>2, ConcatProperties
<1>4. IsSeq(s \o t)
  BY <1>3, SeqIsSeq
<1>5. Len(s) \in Nat /\ Len(t) \in Nat
  BY DEF IsSeq
<1>6. \A i \in 1..Len(s) : (s \o t)[i] = s[i]
  <2> TAKE i \in 1..Len(s)
  <2>1. i \in 1..(Len(s) + Len(t)) /\ i <= Len(s)
    BY <1>5
  <2> QED BY <2>1, <1>3
<1>7. \A i \in 1..Len(t) : (s \o t)[Len(s) + i] = t[i]
  <2> TAKE i \in 1..Len(t)
  <2>1. /\ Len(s) + i \in 1..(Len(s) + Len(t)) /\ ~(Len(s) + i <= Len(s))
        /\ (Len(s) + i) - Len(s) = i
    BY <1>5
  <2>2. (s \o t)[Len(s) + i] = IF Len(s) + i <= Len(s) THEN s[Len(s) + i]
                                ELSE t[(Len(s) + i) - Len(s)]
    BY <2>1, <1>3
  <2> QED BY <2>1, <2>2
<1> QED BY <1>3, <1>4, <1>6, <1>7

LEMMA Extended ==
    ASSUME NEW s, IsSeq(s), NEW x
    PROVE  /\ IsSeq(Append(s, x)) /\ Len(Append(s, x)) = Len(s) + 1
           /\ \A i \in 1..Len(s) : Append(s, x)[i] = s[i]
           /\ Append(s, x)[Len(s) + 1] = x
<1> DEFINE S == {s[i] : i \in 1..Len(s)}
<1>1. s \in Seq(S)
  BY SeqOfItsElements
<1> HIDE DEF S
<1>2. s \in Seq(S \cup {x})
  <2>1. S \subseteq S \cup {x}
    OBVIOUS
  <2> QED BY <1>1, <2>1, SeqMonotonic
<1>3. x \in S \cup {x}
  OBVIOUS
<1>4. /\ Append(s, x) \in Seq(S \cup {x}) /\ Len(Append(s, x)) = Len(s) + 1
      /\ \A i \in 1..Len(s) : Append(s, x)[i] = s[i]
      /\ Append(s, x)[Len(s) + 1] = x
  BY <1>2, <1>3, AppendProperties
<1> QED BY <1>4, SeqIsSeq

(***************************************************************************)
(* The cells from m to n of a sequence                                     *)
(***************************************************************************)
LEMMA Part ==
    ASSUME NEW s, IsSeq(s), NEW m \in 1..(Len(s) + 1), NEW n \in 0..Len(s), m <= n + 1
    PROVE  /\ IsSeq(SubSeq(s, m, n))
           /\ Len(SubSeq(s, m, n)) = n - m + 1
           /\ \A i \in 1..(n - m + 1) : SubSeq(s, m, n)[i] = s[m + i - 1]
<1> DEFINE S == {s[i] : i \in 1..Len(s)}
<1>1. Len(s) \in Nat
  BY DEF IsSeq
<1>2. m \in Int /\ n \in Int
  BY <1>1
<1>3. \A i \in m..n : s[i] \in S
  <2> TAKE i \in m..n
  <2>1. i \in 1..Len(s)
    BY <1>1
  <2> QED BY <2>1
<1> HIDE DEF S
<1>4. /\ SubSeq(s, m, n) \in Seq(S)
      /\ Len(SubSeq(s, m, n)) = IF m <= n THEN n - m + 1 ELSE 0
      /\ \A i \in 1..(n - m + 1) : SubSeq(s, m, n)[i] = s[m + i - 1]
  BY <1>2, <1>3, SubSeqProperties
<1>5. IsSeq(SubSeq(s, m, n))
  BY <1>4, SeqIsSeq
<1>6. (IF m <= n THEN n - m + 1 ELSE 0) = n - m + 1
  BY <1>2
<1> QED BY <1>4, <1>5, <1>6

LEMMA FrontOfAppend ==
    ASSUME NEW s \in Seq(Events), NEW e \in Events
    PROVE  SubSeq(Append(s, e), 1, Len(Append(s, e)) - 1) = s
<1> DEFINE t == Append(s, e)
           n == Len(s)
<1>1. /\ t \in Seq(Events) /\ n \in Nat /\ Len(t) = n + 1
      /\ \A i \in 1..n : t[i] = s[i]
  BY AppendProperties, LenProperties
<1>2. IsSeq(t) /\ IsSeq(s)
  BY <1>1, SeqIsSeq
<1> HIDE DEF t
<1>3. /\ IsSeq(SubSeq(t, 1, n)) /\ Len(SubSeq(t, 1, n)) = n
      /\ \A i \in 1..n : SubSeq(t, 1, n)[i] = t[i]
  <2>1. 1 \in 1..(Len(t) + 1) /\ n \in 0..Len(t) /\ 1 <= n + 1
    BY <1>1
  <2>2. /\ IsSeq(SubSeq(t, 1, n)) /\ Len(SubSeq(t, 1, n)) = n - 1 + 1
        /\ \A i \in 1..(n - 1 + 1) : SubSeq(t, 1, n)[i] = t[1 + i - 1]
    <3> HIDE DEF n
    <3> QED BY <1>2, <2>1, Part
  <2> QED BY <1>1, <2>2
<1>4. SubSeq(t, 1, n) = s
  BY <1>1, <1>2, <1>3 DEF IsSeq
<1> QED BY <1>1, <1>4 DEF t

LEMMA FrontAndLast ==
    ASSUME NEW s \in Seq(Events), s # <<>>
    PROVE  /\ SubSeq(s, 1, Len(s) - 1) \in Seq(Events)
           /\ s = Append(SubSeq(s, 1, Len(s) - 1), Last(s))
<1> DEFINE n == Len(s) - 1
           front == SubSeq(s, 1, n)
<1>1. n \in Nat /\ Len(s) = n + 1 /\ DOMAIN s = 1..(n + 1) /\ IsSeq(s)
  BY LenProperties, EmptySeq, SeqIsSeq
<1>2. \A i \in 1..(n + 1) : s[i] \in Events
  BY <1>1, ElementOfSeq
<1> HIDE DEF n
<1>3. /\ front \in Seq(Events)
      /\ Len(front) = IF 1 <= n THEN n - 1 + 1 ELSE 0
      /\ \A i \in 1..(n - 1 + 1) : front[i] = s[1 + i - 1]
  <2>1. 1 \in Int /\ n \in Int /\ \A i \in 1..n : s[i] \in Events
    BY <1>1, <1>2
  <2> QED BY <2>1, SubSeqProperties
<1> HIDE DEF front
<1>4. Len(front) = n /\ \A i \in 1..n : front[i] = s[i]
  BY <1>1, <1>3
<1>5. s[n + 1] \in Events
  BY <1>1, <1>2
<1> DEFINE t == Append(front, s[n + 1])
<1>6. /\ t \in Seq(Events) /\ Len(t) = n + 1
      /\ \A i \in 1..n : t[i] = s[i] /\ t[n + 1] = s[n + 1]
  BY <1>1, <1>3, <1>4, <1>5, AppendProperties
<1>7. t[n + 1] = s[n + 1]
  BY <1>1, <1>3, <1>4, <1>5, AppendProperties
<1>8. IsSeq(t)
  BY <1>6, SeqIsSeq
<1> HIDE DEF t
<1>9. \A i \in 1..(n + 1) : t[i] = s[i]
  BY <1>1, <1>6, <1>7
<1>10. t = s
  BY <1>1, <1>6, <1>8, <1>9 DEF IsSeq
<1> QED BY <1>1, <1>3, <1>10 DEF t, front, n, Last

(***************************************************************************)
(* The records: their width is that of their type, and what was encoded is *)
(* decoded.                                                                *)
(***************************************************************************)
LEMMA RecordFacts ==
    ASSUME NEW e \in Events
    PROVE  /\ IsSeq(Record(e)) /\ DOMAIN Record(e) = 1..Len(Record(e))
           /\ Record(e)[1] \in {1, 2, 3}
           /\ Len(Record(e)) = Width(Record(e)[1]) /\ Len(Record(e)) \in 4..7
           /\ Record(e)[1] = 2 <=> CancelOf(e)
           /\ e.kind \in Kinds
<1>1. e.kind \in {"New", "Cancel", "Trade"}
  BY LogAssumption
<1>2. CASE e.kind = "New"
  <2>1. Record(e) = <<1, e.symbol, e.px, e.qty, e.side>>
    BY <1>2 DEF Record
  <2> HIDE DEF Record
  <2>2. Len(Record(e)) = 5 /\ DOMAIN Record(e) = 1..5 /\ Record(e)[1] = 1
    BY <2>1
  <2>3. IsSeq(Record(e))
    BY <2>1, <2>2, SeqIsSeq DEF IsSeq
  <2> QED BY <1>2, <2>2, <2>3 DEF Width, CancelOf, Kinds
<1>3. CASE e.kind = "Cancel"
  <2>1. Record(e) = <<2, e.symbol, e.id % Base, e.id \div Base>>
    BY <1>3 DEF Record
  <2>2. Len(Record(e)) = 4 /\ DOMAIN Record(e) = 1..4 /\ Record(e)[1] = 2
    BY <2>1
  <2>3. IsSeq(Record(e))
    BY <2>1, <2>2 DEF IsSeq
  <2> QED BY <1>3, <2>2, <2>3 DEF Width, CancelOf, Kinds
<1>4. CASE e.kind = "Trade"
  <2>1. Record(e) = <<3, e.symbol, e.taker, e.maker, e.px, e.qty, e.side>>
    BY <1>4 DEF Record
  <2>2. Len(Record(e)) = 7 /\ DOMAIN Record(e) = 1..7 /\ Record(e)[1] = 3
    BY <2>1
  <2>3. IsSeq(Record(e))
    BY <2>1, <2>2 DEF IsSeq
  <2> QED BY <1>4, <2>2, <2>3 DEF Width, CancelOf, Kinds
<1> QED BY <1>1, <1>2, <1>3, <1>4

LEMMA DivisionRestores ==
    ASSUME NEW a \in Int, NEW b \in Int, b > 0
    PROVE  a = b * (a \div b) + (a % b)
  BY SMTT(60)

LEMMA DecodeRecord ==
    ASSUME NEW e \in Events, NEW c, IsSeq(c), Len(c) = Len(Record(e)),
           \A j \in 1..Len(Record(e)) : c[j] = Record(e)[j]
    PROVE  Decode(c) = e
<1>1. e.kind \in {"New", "Cancel", "Trade"}
  BY LogAssumption
<1>2. CASE e.kind = "New"
  <2>1. Record(e) = <<1, e.symbol, e.px, e.qty, e.side>>
    BY <1>2 DEF Record
  <2>2. c[1] = 1 /\ c[2] = e.symbol /\ c[3] = e.px /\ c[4] = e.qty /\ c[5] = e.side
    BY <2>1
  <2>3. e = [kind |-> "New", symbol |-> e.symbol, px |-> e.px, qty |-> e.qty,
             side |-> e.side]
    BY <1>2, LogAssumption
  <2> QED BY <2>2, <2>3 DEF Decode
<1>3. CASE e.kind = "Cancel"
  <2>1. Record(e) = <<2, e.symbol, e.id % Base, e.id \div Base>>
    BY <1>3 DEF Record
  <2>2. /\ c[1] = 2 /\ c[2] = e.symbol /\ c[3] = e.id % Base /\ c[4] = e.id \div Base
        /\ Len(c) = 4
    BY <2>1
  <2>3. e = [kind |-> "Cancel", symbol |-> e.symbol, id |-> e.id] /\ e.id \in Nat
    BY <1>3, LogAssumption
  <2> DEFINE cells == SubSeq(c, 3, Len(c))
  <2>4. Len(cells) = 2 /\ cells[1] = c[3] /\ cells[2] = c[4]
    <3>1. /\ Len(SubSeq(c, 3, 4)) = 4 - 3 + 1
          /\ \A i \in 1..(4 - 3 + 1) : SubSeq(c, 3, 4)[i] = c[3 + i - 1]
      BY <2>2, Part
    <3> QED BY <3>1, <2>2
  <2>5. IdOf(cells) = cells[1] + cells[2] * Base
    <3> HIDE DEF cells
    <3> QED BY <2>4 DEF IdOf
  <2>6. Base \in Nat \ {0}
    BY LogAssumption
  <2>7. (e.id % Base) + (e.id \div Base) * Base = e.id
    <3>1. e.id \in Int /\ Base \in Int /\ Base > 0
      BY <2>3, <2>6
    <3>2. e.id = Base * (e.id \div Base) + (e.id % Base)
      BY <3>1, DivisionRestores
    <3>3. e.id \div Base \in Int /\ e.id % Base \in Int
      BY <3>1
    <3> QED BY <3>1, <3>2, <3>3
  <2>8. IdOf(cells) = e.id
    BY <2>2, <2>4, <2>5, <2>7
  <2> QED BY <2>2, <2>3, <2>8 DEF Decode
<1>4. CASE e.kind = "Trade"
  <2>1. Record(e) = <<3, e.symbol, e.taker, e.maker, e.px, e.qty, e.side>>
    BY <1>4 DEF Record
  <2>2. /\ c[1] = 3 /\ c[2] = e.symbol /\ c[3] = e.taker /\ c[4] = e.maker
        /\ c[5] = e.px /\ c[6] = e.qty /\ c[7] = e.side
    BY <2>1
  <2>3. e = [kind |-> "Trade", symbol |-> e.symbol, taker |-> e.taker,
             maker |-> e.maker, px |-> e.px, qty |-> e.qty, side |-> e.side]
    BY <1>4, LogAssumption
  <2> QED BY <2>2, <2>3 DEF Decode
<1> QED BY <1>1, <1>2, <1>3, <1>4

-----------------------------------------------------------------------------
(* The bus: who has yet to be called                                       *)

LEMMA Shapes ==
    ASSUME TypeOK, BusInv
    PROVE  \/ pending = <<>>
           \/ /\ published # <<>> /\ Last(published) \in Events
              /\ \/ pending = <<"log">>
                 \/ /\ Last(published).kind # "Trade"
                    /\ \/ pending = <<"book">>
                       \/ pending = <<"log", "book">>
                       \/ pending = <<"book", "log">>
<1>1. CASE pending # <<>>
  <2>1. /\ published # <<>>
        /\ \/ pending = handlers[Last(published).kind]
           \/ pending = Tail(handlers[Last(published).kind])
    BY <1>1 DEF BusInv
  <2>2. Last(published) \in Events
    <3>1. published \in Seq(Events) /\ Len(published) \in Nat
      BY LenProperties DEF TypeOK
    <3>2. Len(published) \in 1..Len(published)
      BY <2>1, <3>1, EmptySeq
    <3> QED BY <3>1, <3>2, ElementOfSeq DEF Last
  <2> DEFINE k == Last(published).kind
  <2>3. k \in Kinds
    BY <2>2, RecordFacts
  <2> HIDE DEF k
  <2>4. /\ handlers[k] \in {<<"log">>, <<"log", "book">>, <<"book", "log">>}
        /\ handlers[k] = <<"log">> <=> k = "Trade"
    <3>1. handlers \in Wirings
      BY DEF TypeOK
    <3>2. handlers \in [Kinds -> {<<"log">>, <<"log", "book">>, <<"book", "log">>}]
      BY <3>1, LogAssumption
    <3> QED BY <2>3, <3>1, <3>2, LogAssumption
  <2>5. /\ Tail(<<"log">>) = <<>> /\ Tail(<<"log", "book">>) = <<"book">>
        /\ Tail(<<"book", "log">>) = <<"log">>
    OBVIOUS
  <2>6. pending = handlers[k] \/ pending = Tail(handlers[k])
    BY <2>1 DEF k
  <2>7. \/ pending = <<"log">>
        \/ k # "Trade" /\ \/ pending = <<"book">>
                          \/ pending = <<"log", "book">>
                          \/ pending = <<"book", "log">>
    BY <1>1, <2>4, <2>5, <2>6, Zenon
  <2> QED BY <2>1, <2>2, <2>7 DEF k
<1> QED BY <1>1

LEMMA Waiting ==
    /\ ~\E i \in DOMAIN <<>> : <<>>[i] = "log"
    /\ ~\E i \in DOMAIN <<>> : <<>>[i] = "book"
    /\ \E i \in DOMAIN <<"log">> : <<"log">>[i] = "log"
    /\ ~\E i \in DOMAIN <<"log">> : <<"log">>[i] = "book"
    /\ ~\E i \in DOMAIN <<"book">> : <<"book">>[i] = "log"
    /\ \E i \in DOMAIN <<"book">> : <<"book">>[i] = "book"
    /\ \A h \in {"log", "book"} :
          /\ \E i \in DOMAIN <<"log", "book">> : <<"log", "book">>[i] = h
          /\ \E i \in DOMAIN <<"book", "log">> : <<"book", "log">>[i] = h
<1>1. /\ DOMAIN <<>> = {} /\ DOMAIN <<"log">> = {1} /\ DOMAIN <<"book">> = {1}
      /\ DOMAIN <<"log", "book">> = {1, 2} /\ DOMAIN <<"book", "log">> = {1, 2}
  OBVIOUS
<1>2. "log" # "book"
  OBVIOUS
<1> QED BY <1>1, <1>2

-----------------------------------------------------------------------------
(* The steps of the recording program                                      *)

LEMMA Recording ==
    ASSUME IInv, mode = "running"
    PROVE  /\ pos = 0 /\ replayed = <<>> /\ readOk /\ ~done
           /\ \E ends \in [0..logged -> 0..Len(stream)] : Layout(ends)
BY DEF IInv, ReaderInv

LEMMA ReaderWaits ==
    ASSUME pos = 0, replayed = <<>>, readOk, ~done, UNCHANGED readVars,
           onDisk' \in Nat, logged' \in Nat, NEW ends, ends[0] = 0
    PROVE  ReaderInv(ends)'
<1>1. pos' = 0 /\ replayed' = <<>> /\ readOk' /\ ~done'
  BY DEF readVars
<1>2. Len(<<>>) = 0
  OBVIOUS
<1>3. Len(replayed') = 0 /\ pos' <= onDisk' /\ ~(pos' > onDisk') /\ 0 <= logged'
  BY <1>1, <1>2
<1>4. \A i \in 1..0 : replayed'[i] = published'[i]
  OBVIOUS
<1> QED BY <1>1, <1>3, <1>4 DEF ReaderInv

LEMMA PublishStep ==
    ASSUME IInv, NEW e \in Events, Publish(e)
    PROVE  IInv'
<1>1. /\ TypeOK /\ BusInv /\ mode = "running" /\ pending = <<>>
      /\ published' = Append(published, e) /\ pending' = handlers[e.kind]
      /\ UNCHANGED <<handlers, mode, live, ok, stream, onDisk, logged, pos, readOk,
                     replayed, done>>
  BY DEF IInv, Publish, logVars, readVars
<1>2. /\ published \in Seq(Events) /\ Len(published) \in Nat
      /\ published' \in Seq(Events) /\ Len(published') = Len(published) + 1
      /\ \A i \in 1..Len(published) : published'[i] = published[i]
      /\ published'[Len(published) + 1] = e
  BY <1>1, AppendProperties, LenProperties DEF TypeOK
<1>3. /\ e.kind \in Kinds
      /\ handlers[e.kind] \in {<<"log">>, <<"log", "book">>, <<"book", "log">>}
      /\ handlers[e.kind] = <<"log">> <=> e.kind = "Trade"
  <2>1. handlers \in Wirings /\ e.kind \in Kinds
    BY <1>1, RecordFacts DEF TypeOK
  <2>2. handlers \in [Kinds -> {<<"log">>, <<"log", "book">>, <<"book", "log">>}]
    BY <2>1, LogAssumption
  <2> QED BY <2>1, <2>2, LogAssumption
<1>4. TypeOK'
  <2>1. pending' \in Seq({"log", "book"})
    <3>1. <<"log">> \in Seq({"log", "book"}) /\ <<"log", "book">> \in Seq({"log", "book"})
          /\ <<"book", "log">> \in Seq({"log", "book"})
      OBVIOUS
    <3> QED BY <3>1, <1>1, <1>3
  <2>2. logged' \in 0..Len(published')
    BY <1>1, <1>2 DEF TypeOK
  <2> QED BY <1>1, <1>2, <2>1, <2>2 DEF TypeOK
<1>5. BusInv'
  <2>1. Last(published)' = e /\ published' # <<>>
    BY <1>2, EmptySeq DEF Last
  <2>2. IsPending("log")' /\ (IsPending("book")' <=> e.kind # "Trade")
    BY <1>1, <1>3, Waiting DEF IsPending
  <2>3. ~IsPending("log") /\ ~IsPending("book")
    BY <1>1, Waiting DEF IsPending
  <2>4. live = BookEvents(published) /\ logged <= Len(published)
        /\ (ok => logged = Len(published))
    BY <1>1, <2>3 DEF BusInv
  <2>5. Earlier' = published
    <3>1. Earlier' = SubSeq(published', 1, Len(published') - 1)
      BY DEF Earlier
    <3> QED BY <1>1, <1>2, <3>1, FrontOfAppend
  <2>6. live' = BookEvents(IF IsPending("book")' THEN Earlier' ELSE published')
    <3>1. CASE e.kind = "Trade"
      BY <3>1, <1>1, <1>2, <2>2, <2>4, BookEventsAppend
    <3>2. CASE e.kind # "Trade"
      BY <3>2, <1>1, <2>2, <2>4, <2>5
    <3> QED BY <3>1, <3>2
  <2>7. LET seen == IF IsPending("log")' THEN Len(published') - 1 ELSE Len(published') IN
        logged' <= seen /\ (ok' => logged' = seen)
    BY <1>1, <1>2, <2>2, <2>4
  <2> QED BY <1>1, <2>1, <2>6, <2>7 DEF BusInv
<1>6. \E ends \in [0..logged' -> 0..Len(stream')] : Layout(ends)' /\ ReaderInv(ends)'
  <2>1. PICK ends \in [0..logged -> 0..Len(stream)] : Layout(ends)
    BY <1>1, Recording
  <2>2. logged \in 0..Len(published) /\ onDisk \in Nat
    BY <1>1 DEF TypeOK, IsSeq
  <2>3. Layout(ends)'
    <3>1. \A i \in 1..logged : published'[i] = published[i]
      BY <1>2, <2>2
    <3>2. logged < Len(published) => published'[logged + 1] = published[logged + 1]
      BY <1>2, <2>2
    <3> QED BY <1>1, <1>2, <2>1, <2>2, <3>1, <3>2 DEF Layout
  <2>4. ReaderInv(ends)'
    <3>1. ends[0] = 0 /\ onDisk' \in Nat /\ logged' \in Nat
      BY <1>1, <2>1, <2>2 DEF Layout
    <3>2. UNCHANGED readVars
      BY <1>1 DEF readVars
    <3> QED BY <1>1, <3>1, <3>2, Recording, ReaderWaits
  <2> QED BY <1>1, <2>1, <2>3, <2>4
<1> QED BY <1>4, <1>5, <1>6 DEF IInv

LEMMA ApplyLiveStep ==
    ASSUME IInv, ApplyLive
    PROVE  IInv'
<1>1. /\ TypeOK /\ BusInv /\ mode = "running" /\ pending # <<>> /\ Head(pending) = "book"
      /\ live' = Append(live, Last(published)) /\ pending' = Tail(pending)
      /\ UNCHANGED <<handlers, mode, published, ok, stream, onDisk, logged, pos, readOk,
                     replayed, done>>
  BY DEF IInv, ApplyLive, Calls, logVars, readVars
<1>2. /\ Head(<<"log">>) = "log" /\ Head(<<"log", "book">>) = "log"
      /\ Tail(<<"book">>) = <<>> /\ Tail(<<"book", "log">>) = <<"log">>
  OBVIOUS
<1>3. /\ published # <<>> /\ Last(published) \in Events
      /\ Last(published).kind # "Trade"
      /\ \/ pending = <<"book">> /\ pending' = <<>>
         \/ pending = <<"book", "log">> /\ pending' = <<"log">>
  <2>1. "book" # "log"
    OBVIOUS
  <2> QED BY <1>1, <1>2, <2>1, Shapes, Zenon
<1>4. /\ IsPending("book") /\ ~IsPending("book")'
      /\ IsPending("log")' <=> IsPending("log")
  <2>1. CASE pending = <<"book">> /\ pending' = <<>>
    BY <2>1, Waiting DEF IsPending
  <2>2. CASE pending = <<"book", "log">> /\ pending' = <<"log">>
    BY <2>2, Waiting DEF IsPending
  <2> QED BY <1>3, <2>1, <2>2
<1>5. /\ live = BookEvents(Earlier) /\ published \in Seq(Events)
      /\ Earlier \in Seq(Events) /\ published = Append(Earlier, Last(published))
  BY <1>1, <1>3, <1>4, FrontAndLast DEF BusInv, TypeOK, Earlier
<1>6. live' = BookEvents(published) /\ live' \in Seq(Events)
  <2>1. BookEvents(Append(Earlier, Last(published)))
          = Append(BookEvents(Earlier), Last(published))
    BY <1>3, <1>5, BookEventsAppend
  <2>2. BookEvents(published) \in Seq(Events)
    BY <1>3, <1>5, BookEventsAppend
  <2> QED BY <1>1, <1>5, <2>1, <2>2
<1>7. TypeOK'
  <2>1. pending' \in Seq({"log", "book"})
    <3>1. <<>> \in Seq({"log", "book"}) /\ <<"log">> \in Seq({"log", "book"})
      OBVIOUS
    <3> QED BY <3>1, <1>3
  <2> QED BY <1>1, <1>6, <2>1 DEF TypeOK
<1>8. BusInv'
  <2>1. pending' # <<>> => pending' = Tail(handlers[Last(published).kind])
    <3>1. \/ pending = handlers[Last(published).kind]
          \/ pending = Tail(handlers[Last(published).kind])
      BY <1>1 DEF BusInv
    <3>2. handlers[Last(published).kind] \in {<<"log">>, <<"log", "book">>, <<"book", "log">>}
      <4>1. handlers \in [Kinds -> {<<"log">>, <<"log", "book">>, <<"book", "log">>}]
        BY <1>1, LogAssumption DEF TypeOK
      <4>2. Last(published).kind \in Kinds
        BY <1>3, RecordFacts
      <4> QED BY <4>1, <4>2
    <3>3. ASSUME pending = <<"book", "log">>
          PROVE  pending = handlers[Last(published).kind]
      <4>1. /\ Tail(<<"log">>) # <<"book", "log">> /\ Tail(<<"log", "book">>) # <<"book", "log">>
            /\ Tail(<<"book", "log">>) # <<"book", "log">>
        <5>1. /\ Len(Tail(<<"log">>)) = 0 /\ Len(Tail(<<"log", "book">>)) = 1
              /\ Len(Tail(<<"book", "log">>)) = 1 /\ Len(<<"book", "log">>) = 2
          OBVIOUS
        <5> QED BY <5>1
      <4> QED BY <3>1, <3>2, <3>3, <4>1, Zenon
    <3> QED BY <1>1, <1>3, <3>3, Zenon
  <2>2. LET seen == IF IsPending("log")' THEN Len(published') - 1 ELSE Len(published') IN
        logged' <= seen /\ (ok' => logged' = seen)
    BY <1>1, <1>4 DEF BusInv
  <2>3. live' = BookEvents(IF IsPending("book")' THEN Earlier' ELSE published')
    BY <1>1, <1>4, <1>6
  <2>4. Last(published)' = Last(published)
    BY <1>1 DEF Last
  <2>5. pending' # <<>> => /\ published' # <<>>
                           /\ pending' = Tail(handlers'[Last(published').kind])
    BY <1>1, <1>3, <2>1, <2>4
  <2>6. mode' = "running"
    BY <1>1
  <2> QED BY <2>2, <2>3, <2>5, <2>6 DEF BusInv
<1>9. \E ends \in [0..logged' -> 0..Len(stream')] : Layout(ends)' /\ ReaderInv(ends)'
  <2>1. PICK ends \in [0..logged -> 0..Len(stream)] : Layout(ends)
    BY <1>1, Recording
  <2>2. logged \in Nat /\ onDisk \in Nat
    BY <1>1 DEF TypeOK, IsSeq
  <2>3. Layout(ends)'
    BY <1>1, <2>1 DEF Layout
  <2>4. ReaderInv(ends)'
    <3>1. ends[0] = 0 /\ onDisk' \in Nat /\ logged' \in Nat
      BY <1>1, <2>1, <2>2 DEF Layout
    <3>2. UNCHANGED readVars
      BY <1>1 DEF readVars
    <3> QED BY <1>1, <3>1, <3>2, Recording, ReaderWaits
  <2> QED BY <1>1, <2>1, <2>3, <2>4
<1> QED BY <1>7, <1>8, <1>9 DEF IInv

(***************************************************************************)
(* What the logger's handler leaves of the bus, whether or not its writes  *)
(* succeed                                                                 *)
(***************************************************************************)
LEMMA LogEventFacts ==
    ASSUME IInv, LogEvent
    PROVE  /\ TypeOK /\ mode = "running"
           /\ UNCHANGED <<handlers, mode, published, live, onDisk, pos, readOk, replayed, done>>
           /\ Len(published) \in Nat \ {0}
           /\ Last(published) \in Events /\ Last(published) = published[Len(published)]
           /\ logged \in 0..(Len(published) - 1)
           /\ ok => logged = Len(published) - 1
           /\ pending' \in Seq({"log", "book"})
           /\ pending' # <<>> => pending' = Tail(handlers[Last(published).kind])
           /\ ~IsPending("log")'
           /\ live = BookEvents(IF IsPending("book")' THEN Earlier ELSE published)
<1>1. /\ TypeOK /\ BusInv /\ mode = "running" /\ pending # <<>> /\ Head(pending) = "log"
      /\ pending' = Tail(pending)
      /\ UNCHANGED <<handlers, mode, published, live, onDisk, pos, readOk, replayed, done>>
  BY DEF IInv, LogEvent, Calls, readVars
<1>2. /\ Head(<<"book">>) = "book" /\ Head(<<"book", "log">>) = "book"
      /\ Tail(<<"log">>) = <<>> /\ Tail(<<"log", "book">>) = <<"book">>
  OBVIOUS
<1>3. /\ published # <<>> /\ Last(published) \in Events
      /\ \/ pending = <<"log">> /\ pending' = <<>>
         \/ pending = <<"log", "book">> /\ pending' = <<"book">>
  <2>1. "book" # "log"
    OBVIOUS
  <2> QED BY <1>1, <1>2, <2>1, Shapes, Zenon
<1>4. /\ IsPending("log") /\ ~IsPending("log")'
      /\ IsPending("book")' <=> IsPending("book")
  <2>1. CASE pending = <<"log">> /\ pending' = <<>>
    BY <2>1, Waiting DEF IsPending
  <2>2. CASE pending = <<"log", "book">> /\ pending' = <<"book">>
    BY <2>2, Waiting DEF IsPending
  <2> QED BY <1>3, <2>1, <2>2
<1>5. Len(published) \in Nat \ {0} /\ Last(published) = published[Len(published)]
  BY <1>1, <1>3, LenProperties, EmptySeq DEF TypeOK, Last
<1>6. logged \in 0..(Len(published) - 1) /\ (ok => logged = Len(published) - 1)
  BY <1>1, <1>4, <1>5 DEF BusInv, TypeOK
<1>7. pending' \in Seq({"log", "book"})
  <2>1. <<>> \in Seq({"log", "book"}) /\ <<"book">> \in Seq({"log", "book"})
    OBVIOUS
  <2> QED BY <2>1, <1>3
<1>8. pending' # <<>> => pending' = Tail(handlers[Last(published).kind])
  <2>1. \/ pending = handlers[Last(published).kind]
        \/ pending = Tail(handlers[Last(published).kind])
    BY <1>1 DEF BusInv
  <2>2. handlers[Last(published).kind] \in {<<"log">>, <<"log", "book">>, <<"book", "log">>}
    <3>1. handlers \in [Kinds -> {<<"log">>, <<"log", "book">>, <<"book", "log">>}]
      BY <1>1, LogAssumption DEF TypeOK
    <3>2. Last(published).kind \in Kinds
      BY <1>3, RecordFacts
    <3> QED BY <3>1, <3>2
  <2>3. ASSUME pending = <<"log", "book">>
        PROVE  pending = handlers[Last(published).kind]
    <3>1. /\ Tail(<<"log">>) # <<"log", "book">> /\ Tail(<<"log", "book">>) # <<"log", "book">>
          /\ Tail(<<"book", "log">>) # <<"log", "book">>
      <4>1. /\ Len(Tail(<<"log">>)) = 0 /\ Len(Tail(<<"log", "book">>)) = 1
            /\ Len(Tail(<<"book", "log">>)) = 1 /\ Len(<<"log", "book">>) = 2
        OBVIOUS
      <4> QED BY <4>1
    <3> QED BY <2>1, <2>2, <2>3, <3>1, Zenon
  <2> QED BY <1>1, <1>3, <2>3, Zenon
<1>9. live = BookEvents(IF IsPending("book")' THEN Earlier ELSE published)
  BY <1>1, <1>4 DEF BusInv
<1> QED BY <1>1, <1>3, <1>4, <1>5, <1>6, <1>7, <1>8, <1>9

LEMMA LogEventBus ==
    ASSUME IInv, LogEvent, ok' \in BOOLEAN, IsSeq(stream'), Len(stream) <= Len(stream'),
           logged' \in 0..Len(published), ok' => logged' = Len(published)
    PROVE  TypeOK' /\ BusInv'
<1>1. /\ TypeOK /\ mode = "running"
      /\ UNCHANGED <<handlers, mode, published, live, onDisk, pos, readOk, replayed, done>>
      /\ Len(published) \in Nat \ {0}
      /\ pending' \in Seq({"log", "book"})
      /\ pending' # <<>> => pending' = Tail(handlers[Last(published).kind])
      /\ ~IsPending("log")'
      /\ live = BookEvents(IF IsPending("book")' THEN Earlier ELSE published)
  BY LogEventFacts
<1>2. TypeOK'
  <2>1. onDisk' \in 0..Len(stream')
    <3>1. onDisk \in 0..Len(stream) /\ Len(stream) \in Nat /\ Len(stream') \in Nat
      BY <1>1 DEF TypeOK, IsSeq
    <3> QED BY <1>1, <3>1
  <2> QED BY <1>1, <2>1 DEF TypeOK
<1>3. BusInv'
  <2>1. /\ Last(published)' = Last(published) /\ Earlier' = Earlier
        /\ published' # <<>> /\ mode' = "running"
    <3>1. Len(<<>>) = 0
      OBVIOUS
    <3> QED BY <1>1, <3>1 DEF Last, Earlier
  <2>2. LET seen == IF IsPending("log")' THEN Len(published') - 1 ELSE Len(published') IN
        logged' <= seen /\ (ok' => logged' = seen)
    BY <1>1
  <2>3. live' = BookEvents(IF IsPending("book")' THEN Earlier' ELSE published')
    BY <1>1, <2>1
  <2>4. pending' # <<>> => /\ published' # <<>>
                           /\ pending' = Tail(handlers'[Last(published').kind])
    BY <1>1, <2>1
  <2> QED BY <2>1, <2>2, <2>3, <2>4 DEF BusInv
<1> QED BY <1>2, <1>3

LEMMA LogWhole ==
    ASSUME IInv, LogEvent, ok, stream' = stream \o Record(Last(published)),
           logged' = logged + 1, UNCHANGED ok
    PROVE  IInv'
<1>1. /\ TypeOK /\ mode = "running"
      /\ UNCHANGED <<handlers, mode, published, live, onDisk, pos, readOk, replayed, done>>
      /\ Len(published) \in Nat \ {0}
      /\ Last(published) \in Events /\ Last(published) = published[Len(published)]
      /\ logged = Len(published) - 1
  BY LogEventFacts
<1> DEFINE cells == Record(Last(published))
<1>2. IsSeq(cells) /\ DOMAIN cells = 1..Len(cells) /\ Len(cells) \in 4..7
  BY <1>1, RecordFacts
<1>3. IsSeq(stream) /\ Len(stream) \in Nat /\ onDisk \in 0..Len(stream)
  BY <1>1 DEF TypeOK, IsSeq
<1>4. /\ IsSeq(stream') /\ Len(stream') = Len(stream) + Len(cells)
      /\ \A i \in 1..Len(stream) : stream'[i] = stream[i]
      /\ \A i \in 1..Len(cells) : stream'[Len(stream) + i] = cells[i]
  <2> HIDE DEF cells
  <2>1. stream' = stream \o cells
    BY DEF cells
  <2> QED BY <1>2, <1>3, <2>1, Joined
<1>5. published[logged + 1] = Last(published) /\ logged' = Len(published)
  BY <1>1
<1> HIDE DEF cells
<1>6. TypeOK' /\ BusInv'
  <2>1. /\ ok' \in BOOLEAN /\ Len(stream) <= Len(stream')
        /\ logged' \in 0..Len(published) /\ (ok' => logged' = Len(published))
    BY <1>1, <1>2, <1>3, <1>4, <1>5 DEF TypeOK
  <2> QED BY <1>4, <2>1, LogEventBus
<1>7. PICK ends \in [0..logged -> 0..Len(stream)] : Layout(ends)
  BY <1>1, Recording
<1>8. PICK n \in Nat : n = Len(stream')
  BY <1>4 DEF IsSeq
<1>9. /\ logged \in Nat /\ Len(stream) <= n /\ n = Len(stream) + Len(cells)
      /\ ends[logged] = Len(stream) /\ ends[0] = 0
  <2>1. n = Len(stream) + Len(cells)
    BY <1>4, <1>8
  <2> QED BY <1>1, <1>2, <1>3, <1>7, <2>1 DEF Layout
<1>10. PICK more \in [0..(logged + 1) -> 0..n] :
          /\ \A i \in 0..logged : more[i] = ends[i]
          /\ more[logged + 1] = n
  <2> DEFINE more == [i \in 0..(logged + 1) |-> IF i <= logged THEN ends[i] ELSE n]
  <2>1. \A i \in 0..logged : ends[i] \in 0..n
    BY <1>3, <1>8, <1>9
  <2>2. more \in [0..(logged + 1) -> 0..n]
    BY <1>8, <1>9, <2>1
  <2>3. (\A i \in 0..logged : more[i] = ends[i]) /\ more[logged + 1] = n
    BY <1>9
  <2> HIDE DEF more
  <2> QED BY <2>2, <2>3
<1>11. Layout(more)'
  <2>1. more[0] = 0
    BY <1>9, <1>10
  <2>2. \A i \in 1..(logged + 1) :
          /\ more[i] = more[i - 1] + Len(Record(published[i]))
          /\ \A j \in DOMAIN Record(published[i]) :
                stream'[more[i - 1] + j] = Record(published[i])[j]
    <3> TAKE i \in 1..(logged + 1)
    <3>1. CASE i \in 1..logged
      <4>1. more[i] = ends[i] /\ more[i - 1] = ends[i - 1]
        BY <1>9, <1>10, <3>1
      <4>2. /\ ends[i] = ends[i - 1] + Len(Record(published[i]))
            /\ \A j \in DOMAIN Record(published[i]) :
                  stream[ends[i - 1] + j] = Record(published[i])[j]
        BY <1>7, <3>1 DEF Layout
      <4>3. published[i] \in Events
        BY <1>1, <3>1, ElementOfSeq DEF TypeOK
      <4>4. \A j \in DOMAIN Record(published[i]) :
              stream'[ends[i - 1] + j] = stream[ends[i - 1] + j]
        <5> TAKE j \in DOMAIN Record(published[i])
        <5>1. j \in 1..Len(Record(published[i])) /\ Len(Record(published[i])) \in 4..7
          BY <4>3, RecordFacts
        <5>2. ends[i - 1] \in 0..Len(stream) /\ ends[i] \in 0..Len(stream)
          BY <1>9, <3>1
        <5>3. ends[i - 1] + j \in 1..Len(stream)
          BY <1>3, <4>2, <5>1, <5>2
        <5> QED BY <1>4, <5>3
      <4> QED BY <4>1, <4>2, <4>4
    <3>2. CASE i = logged + 1
      <4>1. more[i] = n /\ more[i - 1] = Len(stream) /\ Record(published[i]) = cells
        <5>1. i - 1 = logged /\ logged \in 0..logged
          BY <1>9, <3>2
        <5> QED BY <1>5, <1>9, <1>10, <3>2, <5>1 DEF cells
      <4>2. more[i] = more[i - 1] + Len(Record(published[i]))
        BY <1>9, <4>1
      <4> QED BY <1>2, <1>4, <4>1, <4>2
    <3>3. i \in 1..logged \/ i = logged + 1
      BY <1>9
    <3> QED BY <3>1, <3>2, <3>3, Zenon
  <2>3. \A i, j \in 0..(logged + 1) : i <= j => more[i] <= more[j]
    <3> TAKE i, j \in 0..(logged + 1)
    <3>1. ASSUME i <= j, j <= logged PROVE more[i] <= more[j]
      <4>1. i \in 0..logged /\ j \in 0..logged
        BY <1>9, <3>1
      <4>2. ends[i] <= ends[j]
        BY <1>7, <3>1, <4>1 DEF Layout
      <4> QED BY <1>10, <4>1, <4>2
    <3>2. CASE j = logged + 1
      <4>1. more[i] \in 0..n /\ more[j] = n
        BY <1>10, <3>2
      <4> QED BY <1>8, <4>1
    <3> QED BY <1>9, <3>1, <3>2
  <2>4. more[logged + 1] = Len(stream') /\ ~(more[logged + 1] < Len(stream'))
    BY <1>8, <1>10
  <2>5. logged' = logged + 1 /\ published' = published
    BY <1>1
  <2> QED BY <2>1, <2>2, <2>3, <2>4, <2>5 DEF Layout
<1>12. ReaderInv(more)'
  <2>1. more[0] = 0 /\ onDisk' \in Nat /\ logged' \in Nat
    BY <1>1, <1>3, <1>9, <1>10
  <2>2. UNCHANGED readVars
    BY <1>1 DEF readVars
  <2> QED BY <1>1, <2>1, <2>2, Recording, ReaderWaits
<1>13. \E e \in [0..logged' -> 0..Len(stream')] : Layout(e)' /\ ReaderInv(e)'
  <2>1. more \in [0..logged' -> 0..Len(stream')]
    BY <1>8, <1>10
  <2> QED BY <2>1, <1>11, <1>12
<1> QED BY <1>6, <1>13 DEF IInv

LEMMA LogPart ==
    ASSUME IInv, LogEvent, ok, ~ok', ok' \in BOOLEAN, UNCHANGED logged,
           NEW n \in 0..(Len(Record(Last(published))) - 1),
           stream' = stream \o SubSeq(Record(Last(published)), 1, n)
    PROVE  IInv'
<1>1. /\ TypeOK /\ mode = "running"
      /\ UNCHANGED <<handlers, mode, published, live, onDisk, pos, readOk, replayed, done>>
      /\ Len(published) \in Nat \ {0}
      /\ Last(published) \in Events /\ Last(published) = published[Len(published)]
      /\ logged = Len(published) - 1
  BY LogEventFacts
<1> DEFINE cells == Record(Last(published))
           part == SubSeq(cells, 1, n)
<1>2. IsSeq(cells) /\ DOMAIN cells = 1..Len(cells) /\ Len(cells) \in 4..7
  BY <1>1, RecordFacts
<1>3. IsSeq(stream) /\ Len(stream) \in Nat /\ onDisk \in 0..Len(stream)
  BY <1>1 DEF TypeOK, IsSeq
<1>4. n \in 0..(Len(cells) - 1) /\ stream' = stream \o part
  OBVIOUS
<1> HIDE DEF cells
<1>5. IsSeq(part) /\ Len(part) = n /\ \A i \in 1..n : part[i] = cells[i]
  <2>1. 1 \in 1..(Len(cells) + 1) /\ n \in 0..Len(cells) /\ 1 <= n + 1 /\ n \in Nat
    BY <1>2, <1>4
  <2>2. /\ IsSeq(part) /\ Len(part) = n - 1 + 1
        /\ \A i \in 1..(n - 1 + 1) : part[i] = cells[1 + i - 1]
    BY <1>2, <2>1, Part
  <2> QED BY <2>1, <2>2
<1> HIDE DEF part
<1>6. /\ IsSeq(stream') /\ Len(stream') = Len(stream) + n
      /\ \A i \in 1..Len(stream) : stream'[i] = stream[i]
      /\ \A i \in 1..n : stream'[Len(stream) + i] = cells[i]
  <2>1. IsSeq(stream) /\ IsSeq(part)
    BY <1>3, <1>5
  <2>2. /\ IsSeq(stream \o part)
        /\ Len(stream \o part) = Len(stream) + Len(part)
        /\ \A i \in 1..Len(stream) : (stream \o part)[i] = stream[i]
        /\ \A i \in 1..Len(part) : (stream \o part)[Len(stream) + i] = part[i]
    BY <2>1, Joined
  <2> QED BY <1>4, <1>5, <2>2
<1>7. published[logged + 1] = Last(published) /\ logged < Len(published)
  BY <1>1
<1>8. TypeOK' /\ BusInv'
  <2>1. Len(stream) <= Len(stream') /\ logged' \in 0..Len(published)
    BY <1>1, <1>3, <1>4, <1>6
  <2> QED BY <1>6, <2>1, LogEventBus
<1>9. PICK ends \in [0..logged -> 0..Len(stream)] : Layout(ends)
  BY <1>1, Recording
<1>10. logged \in Nat /\ ends[logged] = Len(stream) /\ ends[0] = 0
  BY <1>1, <1>9 DEF Layout
<1>11. Layout(ends)'
  <2>1. \A i \in 1..logged :
          /\ ends[i] = ends[i - 1] + Len(Record(published[i]))
          /\ \A j \in DOMAIN Record(published[i]) :
                stream'[ends[i - 1] + j] = Record(published[i])[j]
    <3> TAKE i \in 1..logged
    <3>1. /\ ends[i] = ends[i - 1] + Len(Record(published[i]))
          /\ \A j \in DOMAIN Record(published[i]) :
                stream[ends[i - 1] + j] = Record(published[i])[j]
      BY <1>9 DEF Layout
    <3>2. published[i] \in Events
      BY <1>1, ElementOfSeq DEF TypeOK
    <3>3. \A j \in DOMAIN Record(published[i]) :
            stream'[ends[i - 1] + j] = stream[ends[i - 1] + j]
      <4> TAKE j \in DOMAIN Record(published[i])
      <4>1. j \in 1..Len(Record(published[i])) /\ Len(Record(published[i])) \in 4..7
        BY <3>2, RecordFacts
      <4>2. ends[i - 1] \in 0..Len(stream) /\ ends[i] \in 0..Len(stream)
        BY <1>9, <1>10
      <4>3. ends[i - 1] + j \in 1..Len(stream)
        BY <1>3, <3>1, <4>1, <4>2
      <4> QED BY <1>6, <4>3
    <3> QED BY <3>1, <3>3
  <2>2. \A i, j \in 0..logged : i <= j => ends[i] <= ends[j]
    BY <1>9 DEF Layout
  <2>3. Len(stream') < ends[logged] + Len(cells)
    BY <1>2, <1>3, <1>4, <1>6, <1>10
  <2>4. \A j \in 1..(Len(stream') - ends[logged]) : stream'[ends[logged] + j] = cells[j]
    BY <1>2, <1>3, <1>4, <1>6, <1>10
  <2>5. /\ logged' = logged /\ published' = published /\ ~ok'
        /\ cells = Record(published[logged + 1])
    BY <1>1, <1>7 DEF cells
  <2> QED BY <1>7, <1>10, <2>1, <2>2, <2>3, <2>4, <2>5 DEF Layout
<1>12. ReaderInv(ends)'
  <2>1. ends[0] = 0 /\ onDisk' \in Nat /\ logged' \in Nat
    BY <1>1, <1>3, <1>10
  <2>2. UNCHANGED readVars
    BY <1>1 DEF readVars
  <2> QED BY <1>1, <2>1, <2>2, Recording, ReaderWaits
<1>13. ends \in [0..logged' -> 0..Len(stream')]
  <2>1. \A i \in 0..logged : ends[i] \in 0..Len(stream')
    BY <1>3, <1>4, <1>6, <1>9
  <2> QED BY <1>9, <2>1
<1> QED BY <1>8, <1>11, <1>12, <1>13 DEF IInv

LEMMA LogNothing ==
    ASSUME IInv, LogEvent, ~ok, UNCHANGED <<ok, stream, logged>>
    PROVE  IInv'
<1>1. /\ TypeOK /\ mode = "running"
      /\ UNCHANGED <<handlers, mode, published, live, onDisk, pos, readOk, replayed, done>>
      /\ Len(published) \in Nat \ {0} /\ logged \in 0..(Len(published) - 1)
  BY LogEventFacts
<1>2. IsSeq(stream) /\ Len(stream) \in Nat /\ onDisk \in 0..Len(stream)
  BY <1>1 DEF TypeOK, IsSeq
<1>3. TypeOK' /\ BusInv'
  <2>1. /\ IsSeq(stream') /\ Len(stream) <= Len(stream')
        /\ logged' \in 0..Len(published) /\ ~ok' /\ ok' \in BOOLEAN
    BY <1>1, <1>2 DEF TypeOK
  <2> QED BY <2>1, LogEventBus
<1>4. PICK ends \in [0..logged -> 0..Len(stream)] : Layout(ends)
  BY <1>1, Recording
<1>5. Layout(ends)'
  BY <1>1, <1>4 DEF Layout
<1>6. ReaderInv(ends)'
  <2>1. ends[0] = 0 /\ onDisk' \in Nat /\ logged' \in Nat
    BY <1>1, <1>2, <1>4 DEF Layout
  <2>2. UNCHANGED readVars
    BY <1>1 DEF readVars
  <2> QED BY <1>1, <2>1, <2>2, Recording, ReaderWaits
<1> QED BY <1>3, <1>4, <1>5, <1>6 DEF IInv

LEMMA LogEventStep ==
    ASSUME IInv, LogEvent
    PROVE  IInv'
<1>1. \/ /\ ok
         /\ stream' = stream \o Record(Last(published))
         /\ logged' = logged + 1
         /\ UNCHANGED ok
      \/ /\ ok
         /\ ok' = FALSE
         /\ \E n \in 0..(Len(Record(Last(published))) - 1) :
               stream' = stream \o SubSeq(Record(Last(published)), 1, n)
         /\ UNCHANGED logged
      \/ /\ ~ok
         /\ UNCHANGED <<ok, stream, logged>>
  BY DEF LogEvent
<1>2. CASE ok /\ stream' = stream \o Record(Last(published)) /\ logged' = logged + 1
           /\ UNCHANGED ok
  BY <1>2, LogWhole
<1>3. CASE /\ ok /\ ok' = FALSE /\ UNCHANGED logged
           /\ \E n \in 0..(Len(Record(Last(published))) - 1) :
                 stream' = stream \o SubSeq(Record(Last(published)), 1, n)
  <2>1. PICK n \in 0..(Len(Record(Last(published))) - 1) :
           stream' = stream \o SubSeq(Record(Last(published)), 1, n)
    BY <1>3
  <2>2. ~ok' /\ ok' \in BOOLEAN
    BY <1>3
  <2> QED BY <1>3, <2>1, <2>2, LogPart
<1>4. CASE ~ok /\ UNCHANGED <<ok, stream, logged>>
  BY <1>4, LogNothing
<1> QED BY <1>1, <1>2, <1>3, <1>4

LEMMA WrittenOut ==
    ASSUME IInv, mode = "running", onDisk' \in onDisk..Len(stream),
           UNCHANGED <<handlers, published, pending, live, ok, stream, logged, readVars>>,
           \/ mode' \in {"running", "cut"}
           \/ mode' = "closed" /\ ok /\ pending = <<>> /\ onDisk' = Len(stream)
    PROVE  IInv'
<1>1. /\ TypeOK /\ BusInv /\ IsSeq(stream) /\ Len(stream) \in Nat
      /\ onDisk \in Nat /\ logged \in Nat
  BY DEF IInv, TypeOK, IsSeq
<1>2. UNCHANGED <<pos, readOk, replayed, done>>
  BY DEF readVars
<1>3. TypeOK'
  <2>1. onDisk' \in 0..Len(stream)
    BY <1>1
  <2> QED BY <1>1, <1>2, <2>1 DEF TypeOK
<1>4. BusInv'
  <2>1. /\ Last(published)' = Last(published) /\ Earlier' = Earlier
        /\ IsPending("log")' <=> IsPending("log")
        /\ IsPending("book")' <=> IsPending("book")
    BY DEF Last, Earlier, IsPending
  <2>2. mode' = "closed" => ok' /\ pending' = <<>> /\ onDisk' = Len(stream')
    OBVIOUS
  <2> QED BY <1>1, <2>1, <2>2 DEF BusInv
<1>5. PICK ends \in [0..logged -> 0..Len(stream)] : Layout(ends)
  BY Recording
<1>6. Layout(ends)'
  BY <1>5 DEF Layout
<1>7. ReaderInv(ends)'
  <2>1. ends[0] = 0 /\ onDisk' \in Nat /\ logged' \in Nat
    BY <1>1, <1>5 DEF Layout
  <2> QED BY <2>1, Recording, ReaderWaits
<1> QED BY <1>3, <1>4, <1>5, <1>6, <1>7 DEF IInv

LEMMA DiskFacts ==
    ASSUME IInv
    PROVE  onDisk \in 0..Len(stream) /\ Len(stream) \in Nat
BY DEF IInv, TypeOK, IsSeq

LEMMA FlushStep ==
    ASSUME IInv, Flush
    PROVE  IInv'
<1>1. /\ mode = "running" /\ mode' = "running"
      /\ UNCHANGED <<handlers, published, pending, live, ok, stream, logged, readVars>>
  BY DEF Flush, busVars
<1>2. onDisk' \in onDisk..Len(stream)
  BY DiskFacts DEF Flush
<1> QED BY <1>1, <1>2, WrittenOut

LEMMA CloseStep ==
    ASSUME IInv, Close
    PROVE  IInv'
<1>1. /\ mode = "running" /\ mode' = "closed" /\ ok /\ pending = <<>> /\ onDisk' = Len(stream)
      /\ UNCHANGED <<handlers, published, pending, live, ok, stream, logged, readVars>>
  BY DEF Close
<1>2. onDisk' \in onDisk..Len(stream)
  BY <1>1, DiskFacts
<1> QED BY <1>1, <1>2, WrittenOut

LEMMA CutShortStep ==
    ASSUME IInv, CutShort
    PROVE  IInv'
<1>1. /\ mode = "running" /\ mode' = "cut" /\ onDisk' \in onDisk..Len(stream)
      /\ UNCHANGED <<handlers, published, pending, live, ok, stream, logged, readVars>>
  BY DEF CutShort
<1> QED BY <1>1, WrittenOut

-----------------------------------------------------------------------------
(* The steps of replay_test                                                *)

(***************************************************************************)
(* A reader that finds cells left stands at the first cell of a record, of *)
(* which the file has all cells or only the first ones.                    *)
(***************************************************************************)
LEMMA AtRecord ==
    ASSUME IInv, mode # "running", ~done, readOk, pos < onDisk
    PROVE  \E ends \in [0..logged -> 0..Len(stream)] :
             LET k == Len(replayed)
                 e == published[k + 1]
             IN
             /\ Layout(ends) /\ ReaderInv(ends)
             /\ k \in 0..logged /\ k + 1 \in 1..Len(published) /\ e \in Events
             /\ pos = ends[k] /\ \A i \in 1..k : replayed[i] = published[i]
             /\ stream[pos + 1] = Record(e)[1]
             /\ pos + Len(Record(e)) <= onDisk =>
                   /\ k < logged /\ ends[k + 1] = pos + Len(Record(e))
                   /\ \A j \in 1..Len(Record(e)) : stream[pos + j] = Record(e)[j]
<1>1. PICK ends \in [0..logged -> 0..Len(stream)] : Layout(ends) /\ ReaderInv(ends)
  BY DEF IInv
<1>2. /\ TypeOK /\ Len(stream) \in Nat /\ onDisk \in 0..Len(stream) /\ pos \in Nat
      /\ logged \in 0..Len(published) /\ Len(published) \in Nat /\ Len(replayed) \in Nat
  BY LenProperties DEF IInv, TypeOK, IsSeq
<1> DEFINE k == Len(replayed)
           e == published[k + 1]
<1>3. /\ k \in 0..logged /\ pos = ends[k]
      /\ \A i \in 1..k : replayed[i] = published[i]
  BY <1>1, <1>2 DEF ReaderInv
<1>4. CASE k < logged
  <2>1. k + 1 \in 1..logged /\ k + 1 \in 1..Len(published) /\ (k + 1) - 1 = k
    BY <1>2, <1>3, <1>4
  <2>2. e \in Events
    BY <1>2, <2>1, ElementOfSeq DEF TypeOK
  <2>3. /\ ends[k + 1] = ends[(k + 1) - 1] + Len(Record(e))
        /\ \A j \in DOMAIN Record(e) : stream[ends[(k + 1) - 1] + j] = Record(e)[j]
    <3> HIDE DEF k
    <3> QED BY <1>1, <2>1 DEF Layout
  <2>4. /\ DOMAIN Record(e) = 1..Len(Record(e)) /\ Len(Record(e)) \in 4..7
    BY <2>2, RecordFacts
  <2>5. \A j \in 1..Len(Record(e)) : stream[pos + j] = Record(e)[j]
    BY <1>3, <2>1, <2>3, <2>4
  <2>6. stream[pos + 1] = Record(e)[1]
    BY <2>4, <2>5
  <2>7. ends[k + 1] = pos + Len(Record(e))
    BY <1>3, <2>1, <2>3
  <2> QED BY <1>1, <1>3, <1>4, <2>1, <2>2, <2>5, <2>6, <2>7
<1>5. CASE k = logged
  <2>1. ends[logged] < Len(stream)
    BY <1>2, <1>3, <1>5
  <2>2. /\ logged < Len(published)
        /\ Len(stream) < ends[logged] + Len(Record(published[logged + 1]))
        /\ \A j \in 1..(Len(stream) - ends[logged]) :
              stream[ends[logged] + j] = Record(published[logged + 1])[j]
    BY <1>1, <2>1 DEF Layout
  <2>3. k + 1 \in 1..Len(published) /\ e = published[logged + 1] /\ pos = ends[logged]
    BY <1>2, <1>3, <1>5, <2>2
  <2>4. e \in Events
    BY <1>2, <2>3, ElementOfSeq DEF TypeOK
  <2>5. 1 \in 1..(Len(stream) - ends[logged])
    BY <1>2, <2>1, <2>3
  <2>6. stream[pos + 1] = Record(e)[1]
    BY <2>2, <2>3, <2>5
  <2>7. Len(Record(e)) \in Nat
    BY <2>4, RecordFacts
  <2>8. ~(pos + Len(Record(e)) <= onDisk)
    BY <1>2, <2>2, <2>3, <2>7
  <2> QED BY <1>1, <1>3, <2>3, <2>4, <2>6, <2>8
<1>6. k < logged \/ k = logged
  BY <1>2, <1>3
<1> QED BY <1>4, <1>5, <1>6, Zenon

(***************************************************************************)
(* What the reader has before it                                           *)
(***************************************************************************)
LEMMA WhatIsLeft ==
    ASSUME IInv, readOk, ~done
    PROVE  /\ pos \in Nat /\ onDisk \in Nat /\ pos <= onDisk
           /\ Left # <<>> <=> pos < onDisk
           /\ Len(Left) = onDisk - pos
           /\ pos < onDisk => Head(Left) = stream[pos + 1]
<1>1. /\ IsSeq(stream) /\ Len(stream) \in Nat /\ onDisk \in 0..Len(stream) /\ pos \in Nat
  BY DEF IInv, TypeOK, IsSeq
<1>2. pos <= onDisk
  BY <1>1 DEF IInv, ReaderInv
<1>3. /\ IsSeq(Left) /\ Len(Left) = onDisk - pos
      /\ \A i \in 1..(onDisk - pos) : Left[i] = stream[pos + i]
  <2>1. pos + 1 \in 1..(Len(stream) + 1) /\ pos + 1 <= onDisk + 1
    BY <1>1, <1>2
  <2>2. /\ IsSeq(Left) /\ Len(Left) = onDisk - (pos + 1) + 1
        /\ \A i \in 1..(onDisk - (pos + 1) + 1) : Left[i] = stream[(pos + 1) + i - 1]
    BY <1>1, <2>1, Part DEF Left
  <2>3. onDisk - (pos + 1) + 1 = onDisk - pos
    BY <1>1
  <2>4. \A i \in 1..(onDisk - pos) : (pos + 1) + i - 1 = pos + i
    BY <1>1
  <2> QED BY <2>2, <2>3, <2>4
<1>4. Left # <<>> <=> pos < onDisk
  <2>1. Len(<<>>) = 0
    OBVIOUS
  <2>2. Left # <<>> <=> Len(Left) # 0
    <3>1. Left \in Seq({Left[i] : i \in 1..Len(Left)})
      BY <1>3, SeqOfItsElements
    <3> QED BY <3>1, <2>1, EmptySeq
  <2> QED BY <1>1, <1>2, <1>3, <2>2
<1>5. pos < onDisk => Head(Left) = stream[pos + 1]
  <2>1. Left # <<>> => Head(Left) = Left[1]
    OBVIOUS
  <2>2. pos < onDisk => 1 \in 1..(onDisk - pos)
    BY <1>1
  <2> QED BY <1>3, <1>4, <2>1, <2>2
<1> QED BY <1>1, <1>2, <1>3, <1>4, <1>5

LEMMA ReadEventStep ==
    ASSUME IInv, ReadEvent
    PROVE  IInv'
<1>1. /\ mode # "running" /\ ~done /\ readOk /\ Readable
      /\ UNCHANGED <<handlers, mode, published, pending, live, ok, stream, onDisk, logged, done>>
  BY DEF ReadEvent, Readable, busVars, logVars
<1>2. /\ pos \in Nat /\ onDisk \in Nat /\ pos < onDisk
      /\ Head(Left) = stream[pos + 1] /\ Len(Left) = onDisk - pos
  BY <1>1, WhatIsLeft DEF Readable
<1>3. PICK ends \in [0..logged -> 0..Len(stream)] :
         LET k == Len(replayed)
             e == published[k + 1]
         IN
         /\ Layout(ends) /\ ReaderInv(ends)
         /\ k \in 0..logged /\ k + 1 \in 1..Len(published) /\ e \in Events
         /\ pos = ends[k] /\ \A i \in 1..k : replayed[i] = published[i]
         /\ stream[pos + 1] = Record(e)[1]
         /\ pos + Len(Record(e)) <= onDisk =>
               /\ k < logged /\ ends[k + 1] = pos + Len(Record(e))
               /\ \A j \in 1..Len(Record(e)) : stream[pos + j] = Record(e)[j]
  BY <1>1, <1>2, AtRecord
<1>4. PICK k \in Nat : k = Len(replayed)
  BY <1>3 DEF IInv, TypeOK, IsSeq
<1>5. PICK e \in Events : e = published[k + 1]
  BY <1>3, <1>4
<1>6. /\ Layout(ends) /\ ReaderInv(ends)
      /\ k \in 0..logged /\ k + 1 \in 1..Len(published)
      /\ pos = ends[k] /\ \A i \in 1..k : replayed[i] = published[i]
      /\ stream[pos + 1] = Record(e)[1]
      /\ pos + Len(Record(e)) <= onDisk =>
            /\ k < logged /\ ends[k + 1] = pos + Len(Record(e))
            /\ \A j \in 1..Len(Record(e)) : stream[pos + j] = Record(e)[j]
  BY <1>3, <1>4, <1>5
<1>7. PICK width \in Nat : width = Len(Record(e)) /\ width \in 4..7 /\ width = Width(Head(Left))
  <2>1. Len(Record(e)) \in 4..7 /\ Len(Record(e)) = Width(Record(e)[1])
    BY RecordFacts
  <2> QED BY <2>1, <1>2, <1>6
<1>8. /\ TypeOK /\ BusInv /\ IsSeq(stream) /\ Len(stream) \in Nat /\ onDisk \in 0..Len(stream)
      /\ IsSeq(replayed) /\ Len(published) \in Nat /\ logged \in Nat
  BY LenProperties DEF IInv, TypeOK, IsSeq
<1> DEFINE stop == IF pos + width <= onDisk THEN pos + width ELSE onDisk
           cells == SubSeq(stream, pos + 1, stop)
<1>9. /\ replayed' = Append(replayed, Decode(cells))
      /\ pos' = pos + width /\ readOk' = (pos + width <= onDisk)
  BY <1>7 DEF ReadEvent
<1>10. /\ IsSeq(cells) /\ Len(cells) = stop - pos
       /\ \A i \in 1..(stop - pos) : cells[i] = stream[pos + i]
  <2>1. /\ stop \in 0..Len(stream) /\ pos + 1 \in 1..(Len(stream) + 1) /\ pos + 1 <= stop + 1
    BY <1>2, <1>7, <1>8
  <2> HIDE DEF stop
  <2>2. /\ IsSeq(cells) /\ Len(cells) = stop - (pos + 1) + 1
        /\ \A i \in 1..(stop - (pos + 1) + 1) : cells[i] = stream[(pos + 1) + i - 1]
    BY <1>8, <2>1, Part
  <2>3. stop - (pos + 1) + 1 = stop - pos
    BY <1>2, <2>1
  <2>4. \A i \in 1..(stop - pos) : (pos + 1) + i - 1 = pos + i
    BY <1>2
  <2> QED BY <2>2, <2>3, <2>4
<1> HIDE DEF cells
<1>11. PICK d : d = Decode(cells)
  OBVIOUS
<1>12. \/ /\ pos + width <= onDisk /\ k < logged /\ ends[k + 1] = pos + width /\ d = e
       \/ /\ pos + width > onDisk /\ width = Width(2) /\ CancelOf(e) /\ CancelOf(d)
  <2>1. CASE pos + width <= onDisk
    <3>1. Len(cells) = width
      BY <1>2, <1>7, <1>10, <2>1
    <3>2. \A j \in 1..width : cells[j] = Record(e)[j]
      <4> TAKE j \in 1..width
      <4>1. cells[j] = stream[pos + j]
        BY <1>2, <1>7, <1>10, <2>1
      <4>2. stream[pos + j] = Record(e)[j]
        BY <1>6, <1>7, <2>1
      <4> QED BY <4>1, <4>2
    <3>3. d = e
      BY <1>7, <1>10, <1>11, <3>1, <3>2, DecodeRecord
    <3> QED BY <1>6, <1>7, <2>1, <3>3
  <2>2. CASE ~(pos + width <= onDisk)
    <3>1. Head(Left) = 2
      <4>1. Head(Left) # 2 => onDisk - pos >= width
        BY <1>1, <1>2, <1>7 DEF Readable
      <4> QED BY <1>2, <1>7, <2>2, <4>1
    <3>2. Record(e)[1] = 2
      BY <1>2, <1>6, <3>1
    <3>3. CancelOf(e)
      BY <3>2, RecordFacts
    <3>4. cells[1] = 2
      <4>1. 1 \in 1..(onDisk - pos)
        BY <1>2
      <4>2. cells[1] = stream[pos + 1]
        BY <1>10, <2>2, <4>1
      <4> QED BY <1>6, <3>2, <4>2
    <3>5. CancelOf(d)
      BY <1>11, <3>4 DEF Decode, CancelOf
    <3> QED BY <1>2, <1>7, <2>2, <3>1, <3>3, <3>5
  <2> QED BY <2>1, <2>2
<1>13. /\ IsSeq(replayed') /\ Len(replayed') = k + 1
       /\ \A i \in 1..k : replayed'[i] = replayed[i]
       /\ replayed'[k + 1] = d
  BY <1>4, <1>8, <1>9, <1>11, Extended
<1>14. TypeOK'
  <2>1. DOMAIN replayed = 1..k /\ DOMAIN replayed' = 1..(k + 1)
    <3>1. replayed = [i \in 1..k |-> replayed[i]] /\ replayed' = [i \in 1..(k + 1) |-> replayed'[i]]
      BY <1>4, <1>8, <1>13 DEF IsSeq
    <3>2. DOMAIN [i \in 1..k |-> replayed[i]] = 1..k
      OBVIOUS
    <3>3. DOMAIN [i \in 1..(k + 1) |-> replayed'[i]] = 1..(k + 1)
      OBVIOUS
    <3> QED BY <3>1, <3>2, <3>3
  <2>2. \A i \in 1..k : replayed[i] \in Events \/ CancelOf(replayed[i])
    BY <1>8, <2>1 DEF TypeOK
  <2>3. d \in Events \/ CancelOf(d)
    BY <1>12
  <2>4. \A i \in 1..(k + 1) : replayed'[i] \in Events \/ CancelOf(replayed'[i])
    <3> TAKE i \in 1..(k + 1)
    <3>1. CASE i = k + 1
      BY <1>13, <2>3, <3>1
    <3>2. CASE i \in 1..k
      <4>1. replayed'[i] = replayed[i]
        BY <1>13, <3>2
      <4>2. replayed[i] \in Events \/ CancelOf(replayed[i])
        BY <2>2, <3>2
      <4> QED BY <4>1, <4>2
    <3> QED BY <3>1, <3>2
  <2>5. \A i \in DOMAIN replayed' : (replayed[i])' \in Events \/ CancelOf(replayed[i])'
    BY <2>1, <2>4 DEF CancelOf
  <2>6. pos' \in Nat /\ readOk' \in BOOLEAN
    BY <1>2, <1>9
  <2> QED BY <1>1, <1>8, <1>13, <2>5, <2>6 DEF TypeOK
<1>15. BusInv'
  <2>1. /\ Last(published)' = Last(published) /\ Earlier' = Earlier
        /\ IsPending("log")' <=> IsPending("log")
        /\ IsPending("book")' <=> IsPending("book")
    BY <1>1 DEF Last, Earlier, IsPending
  <2> QED BY <1>1, <1>8, <2>1 DEF BusInv
<1>16. Layout(ends)'
  BY <1>1, <1>6 DEF Layout
<1>17. ReaderInv(ends)'
  <2>1. CASE pos + width <= onDisk /\ k < logged /\ ends[k + 1] = pos + width /\ d = e
    <3>1. pos' <= onDisk' /\ ~(pos' > onDisk') /\ k + 1 <= logged' /\ pos' = ends[k + 1] /\ readOk'
      <4>1. pos' = pos + width /\ onDisk' = onDisk /\ logged' = logged
        BY <1>1, <1>9
      <4>2. readOk'
        BY <1>9, <2>1
      <4>3. ~(pos + width > onDisk)
        BY <1>2, <1>7, <2>1
      <4>4. k + 1 <= logged
        BY <1>4, <1>8, <2>1
      <4> QED BY <2>1, <4>1, <4>2, <4>3, <4>4
    <3>2. \A i \in 1..(k + 1) : replayed'[i] = published'[i]
      <4> TAKE i \in 1..(k + 1)
      <4>1. CASE i = k + 1
        BY <1>1, <1>5, <1>13, <2>1, <4>1
      <4>2. CASE i \in 1..k
        BY <1>1, <1>6, <1>13, <4>2
      <4> QED BY <1>4, <4>1, <4>2
    <3>3. mode' # "running" /\ ~done'
      BY <1>1
    <3> QED BY <1>13, <3>1, <3>2, <3>3 DEF ReaderInv
  <2>2. CASE pos + width > onDisk /\ width = Width(2) /\ CancelOf(e) /\ CancelOf(d)
    <3>1. /\ pos' > onDisk' /\ ~(pos' <= onDisk') /\ ~readOk'
      <4>1. pos' = pos + width /\ onDisk' = onDisk
        BY <1>1, <1>9
      <4>2. ~(pos + width <= onDisk)
        BY <1>2, <1>7, <2>2
      <4>3. ~readOk'
        BY <1>9, <4>2
      <4> QED BY <2>2, <4>1, <4>2, <4>3
    <3>2. k + 1 \in 1..(logged' + 1) /\ k + 1 <= Len(published')
      BY <1>1, <1>6, <1>8
    <3>3. (k + 1) - 1 = k /\ ends[k] < onDisk' /\ pos' = ends[k] + Width(2)
      BY <1>1, <1>2, <1>6, <1>9, <2>2
    <3>4. \A i \in 1..k : replayed'[i] = published'[i]
      BY <1>1, <1>6, <1>13
    <3>5. CancelOf(replayed'[k + 1]) /\ CancelOf(published'[k + 1])
      BY <1>1, <1>5, <1>13, <2>2
    <3>6. mode' # "running" /\ ~done'
      BY <1>1
    <3> QED BY <1>13, <3>1, <3>2, <3>3, <3>4, <3>5, <3>6 DEF ReaderInv, CancelOf
  <2> QED BY <1>12, <2>1, <2>2
<1>18. ends \in [0..logged' -> 0..Len(stream')]
  BY <1>1
<1> QED BY <1>14, <1>15, <1>16, <1>17, <1>18 DEF IInv

LEMMA ReadStopStep ==
    ASSUME IInv, ReadStop
    PROVE  IInv'
<1>1. /\ mode # "running" /\ ~done /\ ~Readable /\ readOk' = FALSE /\ done' = TRUE
      /\ UNCHANGED <<handlers, mode, published, pending, live, ok, stream, onDisk, logged,
                     pos, replayed>>
  BY DEF ReadStop, busVars, logVars
<1>2. /\ TypeOK /\ BusInv /\ logged \in Nat /\ Len(replayed) \in Nat
      /\ Len(stream) \in Nat
  BY DEF IInv, TypeOK, IsSeq
<1>3. TypeOK'
  BY <1>1, <1>2 DEF TypeOK, CancelOf
<1>4. BusInv'
  <2>1. /\ Last(published)' = Last(published) /\ Earlier' = Earlier
        /\ IsPending("log")' <=> IsPending("log")
        /\ IsPending("book")' <=> IsPending("book")
    BY <1>1 DEF Last, Earlier, IsPending
  <2> QED BY <1>1, <1>2, <2>1 DEF BusInv
<1>5. CASE pos <= onDisk
  <2>1. PICK ends \in [0..logged -> 0..Len(stream)] : Layout(ends) /\ ReaderInv(ends)
    BY DEF IInv
  <2> DEFINE k == Len(replayed)
  <2>2. /\ k <= logged /\ pos = ends[k] /\ readOk
        /\ \A i \in 1..k : replayed[i] = published[i]
    BY <1>1, <1>5, <2>1 DEF ReaderInv
  <2>3. k = logged \/ onDisk < ends[k + 1]
    <3>1. CASE pos < onDisk /\ k # logged
      <4>1. PICK e \in Events : e = published[k + 1]
        BY <1>1, <2>2, <3>1, AtRecord
      <4>2. /\ stream[pos + 1] = Record(e)[1] /\ Len(Record(e)) \in 4..7
            /\ Len(Record(e)) = Width(Record(e)[1])
        <5>1. stream[pos + 1] = Record(published[k + 1])[1]
          BY <1>1, <2>2, <3>1, AtRecord
        <5> QED BY <4>1, <5>1, RecordFacts
      <4>3. /\ Left # <<>> /\ Len(Left) = onDisk - pos /\ Head(Left) = Record(e)[1]
            /\ pos \in Nat /\ onDisk \in Nat
        BY <1>1, <2>2, <3>1, <4>2, WhatIsLeft
      <4>4. onDisk - pos < Len(Record(e))
        <5>1. ~(Len(Left) >= IF Head(Left) = 2 THEN 2 ELSE Width(Head(Left)))
          BY <1>1, <2>2, <4>3 DEF Readable
        <5> QED BY <4>2, <4>3, <5>1
      <4>5. ends[k + 1] = pos + Len(Record(e))
        <5>1. k + 1 \in 1..logged /\ (k + 1) - 1 = k
          BY <1>2, <2>2, <3>1
        <5>2. ends[k + 1] = ends[(k + 1) - 1] + Len(Record(published[k + 1]))
          <6> HIDE DEF k
          <6> QED BY <2>1, <5>1 DEF Layout
        <5> QED BY <2>2, <4>1, <5>1, <5>2
      <4> QED BY <4>2, <4>3, <4>4, <4>5
    <3>2. CASE ~(pos < onDisk) /\ k # logged
      <4>1. k + 1 \in 1..logged /\ (k + 1) - 1 = k
        BY <1>2, <2>2, <3>2
      <4>2. ends[k + 1] = ends[(k + 1) - 1] + Len(Record(published[k + 1]))
        <5> HIDE DEF k
        <5> QED BY <2>1, <4>1 DEF Layout
      <4>3. published[k + 1] \in Events
        <5>1. k + 1 \in 1..Len(published) /\ published \in Seq(Events)
          BY <1>2, <4>1, LenProperties DEF TypeOK
        <5> HIDE DEF k
        <5> QED BY <5>1, ElementOfSeq
      <4>4. Len(Record(published[k + 1])) \in 4..7
        BY <4>3, RecordFacts
      <4>5. pos \in Nat /\ onDisk \in Nat
        BY <1>1, <2>2, WhatIsLeft
      <4>6. pos = onDisk
        BY <1>5, <3>2, <4>5
      <4>7. ends[k + 1] = pos + Len(Record(published[k + 1]))
        BY <2>2, <4>1, <4>2
      <4>8. PICK width \in 4..7 : width = Len(Record(published[k + 1]))
        BY <4>4
      <4>9. onDisk < onDisk + width
        BY <4>5
      <4> QED BY <4>6, <4>7, <4>8, <4>9
    <3> QED BY <3>1, <3>2
  <2>4. Layout(ends)'
    BY <1>1, <2>1 DEF Layout
  <2>5. ReaderInv(ends)'
    <3>1. pos \in Nat /\ onDisk \in Nat
      BY <1>1, <2>2, WhatIsLeft
    <3>2. ~(pos > onDisk)
      BY <1>5, <3>1
    <3> QED BY <1>1, <1>5, <2>2, <2>3, <3>2 DEF ReaderInv
  <2> QED BY <1>1, <1>3, <1>4, <2>1, <2>4, <2>5 DEF IInv
<1>6. CASE ~(pos <= onDisk)
  <2>1. PICK ends \in [0..logged -> 0..Len(stream)] : Layout(ends) /\ ReaderInv(ends)
    BY DEF IInv
  <2>2. Layout(ends)'
    BY <1>1, <2>1 DEF Layout
  <2>3. pos > onDisk
    <3>1. pos \in Nat /\ onDisk \in Nat
      BY <1>2 DEF TypeOK
    <3> QED BY <1>6, <3>1
  <2>4. ReaderInv(ends)'
    BY <1>1, <1>6, <2>1, <2>3 DEF ReaderInv, CancelOf
  <2> QED BY <1>1, <1>3, <1>4, <2>1, <2>2, <2>4 DEF IInv
<1> QED BY <1>5, <1>6

-----------------------------------------------------------------------------
(* The theorems                                                            *)

LEMMA Start == Init => IInv
<1> SUFFICES ASSUME Init PROVE IInv
  OBVIOUS
<1>1. Len(<<>>) = 0 /\ IsSeq(<<>>) /\ <<>> \in Seq(Events) /\ <<>> \in Seq({"log", "book"})
  <2>1. <<>> = [i \in 1..0 |-> <<>>[i]]
    BY EmptySeq, SeqIsSeq DEF IsSeq
  <2>2. Len(<<>>) = 0
    OBVIOUS
  <2> QED BY <2>1, <2>2, EmptySeq DEF IsSeq
<1>2. TypeOK
  <2>1. /\ handlers \in Wirings /\ mode = "running" /\ published = <<>> /\ pending = <<>>
        /\ live = <<>> /\ ok \in BOOLEAN /\ stream = <<>> /\ onDisk = 0 /\ logged = 0
        /\ pos = 0 /\ readOk = TRUE /\ replayed = <<>> /\ done = FALSE
    BY DEF Init
  <2>2. \A i \in DOMAIN replayed : replayed[i] \in Events \/ CancelOf(replayed[i])
    <3>1. DOMAIN <<>> = {}
      OBVIOUS
    <3> QED BY <2>1, <3>1
  <2>3. onDisk \in 0..Len(stream) /\ logged \in 0..Len(published) /\ pos \in Nat
    BY <1>1, <2>1
  <2>4. mode \in {"running", "closed", "cut"} /\ readOk \in BOOLEAN /\ done \in BOOLEAN
    BY <2>1
  <2> QED BY <1>1, <2>1, <2>2, <2>3, <2>4 DEF TypeOK
<1>3. BusInv
  <2>1. ~IsPending("log") /\ ~IsPending("book")
    BY Waiting DEF Init, IsPending
  <2>2. live = BookEvents(published)
    BY BookEventsEmpty DEF Init
  <2>3. mode # "closed" /\ logged = 0 /\ Len(published) = 0 /\ pending = <<>>
    BY <1>1 DEF Init
  <2> QED BY <2>1, <2>2, <2>3 DEF BusInv
<1> DEFINE ends == [i \in 0..0 |-> 0]
<1>4. ends[0] = 0 /\ ends \in [0..logged -> 0..Len(stream)]
  BY <1>1 DEF Init
<1> HIDE DEF ends
<1>5. Layout(ends)
  <2>1. logged = 0 /\ Len(stream) = 0
    BY <1>1 DEF Init
  <2> QED BY <1>4, <2>1 DEF Layout
<1>6. ReaderInv(ends)
  <2>1. /\ logged = 0 /\ Len(replayed) = 0 /\ pos = 0 /\ onDisk = 0 /\ mode = "running"
        /\ replayed = <<>> /\ readOk /\ ~done
    BY <1>1 DEF Init
  <2>2. pos <= onDisk /\ ~(pos > onDisk) /\ 0 <= logged
    BY <2>1
  <2>3. \A i \in 1..0 : replayed[i] = published[i]
    OBVIOUS
  <2> QED BY <1>4, <2>1, <2>2, <2>3 DEF ReaderInv
<1> QED BY <1>2, <1>3, <1>4, <1>5, <1>6 DEF IInv

LEMMA Unmoved ==
    ASSUME IInv, UNCHANGED vars
    PROVE  IInv'
<1>1. UNCHANGED <<handlers, mode, published, pending, live, ok, stream, onDisk, logged, pos,
                  readOk, replayed, done>>
  BY DEF vars, busVars, logVars, readVars
<1>2. TypeOK'
  BY <1>1 DEF IInv, TypeOK, CancelOf
<1>3. BusInv'
  <2>1. /\ Last(published)' = Last(published) /\ Earlier' = Earlier
        /\ IsPending("log")' <=> IsPending("log")
        /\ IsPending("book")' <=> IsPending("book")
    BY <1>1 DEF Last, Earlier, IsPending
  <2> QED BY <1>1, <2>1 DEF IInv, BusInv
<1>4. PICK ends \in [0..logged -> 0..Len(stream)] : Layout(ends) /\ ReaderInv(ends)
  BY DEF IInv
<1>5. Layout(ends)'
  BY <1>1, <1>4 DEF Layout
<1>6. ReaderInv(ends)'
  BY <1>1, <1>4 DEF ReaderInv, CancelOf
<1> QED BY <1>1, <1>2, <1>3, <1>4, <1>5, <1>6 DEF IInv

(***************************************************************************)
(* The bus, the log and the reader stay in step: what each handler has     *)
(* seen, where each record lies in the file, and where the reader stands.  *)
(***************************************************************************)
THEOREM Invariance == Spec => []IInv
<1>1. ASSUME IInv, [Next]_vars PROVE IInv'
  <2>1. CASE \E e \in Events : Publish(e)
    BY <1>1, <2>1, PublishStep
  <2>2. CASE ApplyLive
    BY <1>1, <2>2, ApplyLiveStep
  <2>3. CASE LogEvent
    BY <1>1, <2>3, LogEventStep
  <2>4. CASE Flush
    BY <1>1, <2>4, FlushStep
  <2>5. CASE Close
    BY <1>1, <2>5, CloseStep
  <2>6. CASE CutShort
    BY <1>1, <2>6, CutShortStep
  <2>7. CASE ReadEvent
    BY <1>1, <2>7, ReadEventStep
  <2>8. CASE ReadStop
    BY <1>1, <2>8, ReadStopStep
  <2>9. CASE UNCHANGED vars
    BY <1>1, <2>9, Unmoved
  <2> QED BY <1>1, <2>1, <2>2, <2>3, <2>4, <2>5, <2>6, <2>7, <2>8, <2>9 DEF Next, Replay
<1> QED BY Start, <1>1, PTL DEF Spec

(***************************************************************************)
(* What readNext hands to the replay is an event of one of the three kinds, *)
(* or a cancel whose id its bytes spell.                                   *)
(***************************************************************************)
THEOREM TypeCorrect == Spec => []TypeOK
<1>1. IInv => TypeOK
  BY DEF IInv
<1> QED BY Invariance, <1>1, PTL

(***************************************************************************)
(* However the recording ended, the replay meets the published events from *)
(* the first on; only the id of a last, cut cancel may be wrong.           *)
(***************************************************************************)
THEOREM ReplayIsFaithful == Spec => []ReplayFaithful
<1>1. ASSUME IInv PROVE ReplayFaithful
  <2>1. PICK ends \in [0..logged -> 0..Len(stream)] : Layout(ends) /\ ReaderInv(ends)
    BY <1>1 DEF IInv
  <2>2. /\ IsSeq(replayed) /\ Len(replayed) \in Nat /\ logged \in 0..Len(published)
        /\ Len(published) \in Nat /\ pos \in Nat /\ onDisk \in Nat
    BY <1>1, LenProperties DEF IInv, TypeOK, IsSeq
  <2>3. DOMAIN replayed = 1..Len(replayed)
    <3>1. replayed \in Seq({replayed[i] : i \in 1..Len(replayed)})
      BY <2>2, SeqOfItsElements
    <3> QED BY <3>1, LenProperties
  <2>4. CASE pos <= onDisk
    <3>1. /\ Len(replayed) <= logged
          /\ \A i \in 1..Len(replayed) : replayed[i] = published[i]
      BY <2>1, <2>4 DEF ReaderInv
    <3> QED BY <2>2, <2>3, <3>1 DEF ReplayFaithful
  <2>5. CASE pos > onDisk
    <3> DEFINE k == Len(replayed)
    <3>1. /\ ~readOk /\ k \in 1..(logged + 1) /\ k <= Len(published)
          /\ \A i \in 1..(k - 1) : replayed[i] = published[i]
          /\ CancelOf(replayed[k]) /\ CancelOf(published[k])
      BY <2>1, <2>5 DEF ReaderInv
    <3>2. ASSUME NEW i \in 1..k
          PROVE  \/ replayed[i] = published[i]
                 \/ i = k /\ CancelOf(replayed[i]) /\ CancelOf(published[i])
      <4>1. CASE i = k
        BY <3>1, <4>1
      <4>2. CASE i # k
        <5>1. i \in 1..(k - 1)
          BY <2>2, <4>2
        <5> QED BY <3>1, <5>1
      <4> QED BY <4>1, <4>2
    <3> QED BY <2>3, <3>1, <3>2 DEF ReplayFaithful
  <2> QED BY <2>2, <2>4, <2>5
<1> QED BY Invariance, <1>1, PTL

(***************************************************************************)
(* After a run that closed its log, the replay ends with every event, and  *)
(* its book has applied what the live book did.                            *)
(***************************************************************************)
THEOREM CleanExitReplays == Spec => []CleanExitReplaysAll
<1>1. ASSUME IInv PROVE CleanExitReplaysAll
  <2> SUFFICES ASSUME done, mode = "closed"
               PROVE  replayed = published /\ BookEvents(replayed) = live
    BY DEF CleanExitReplaysAll
  <2>1. PICK ends \in [0..logged -> 0..Len(stream)] : Layout(ends) /\ ReaderInv(ends)
    BY <1>1 DEF IInv
  <2>2. /\ IsSeq(replayed) /\ Len(replayed) \in Nat /\ logged \in 0..Len(published)
        /\ published \in Seq(Events) /\ Len(published) \in Nat
        /\ pos \in Nat /\ onDisk \in Nat /\ Len(stream) \in Nat
    BY <1>1, LenProperties DEF IInv, TypeOK, IsSeq
  <2>3. ok /\ pending = <<>> /\ onDisk = Len(stream)
    BY <1>1 DEF IInv, BusInv
  <2>4. ~IsPending("log") /\ ~IsPending("book")
    BY <2>3, Waiting DEF IsPending
  <2>5. logged = Len(published) /\ live = BookEvents(published)
    BY <1>1, <2>3, <2>4 DEF IInv, BusInv
  <2>6. ends[logged] = onDisk /\ \A i, j \in 0..logged : i <= j => ends[i] <= ends[j]
    BY <2>1, <2>3 DEF Layout
  <2> DEFINE k == Len(replayed)
  <2>7. pos <= onDisk
    <3> SUFFICES ASSUME pos > onDisk PROVE FALSE
      BY <2>2
    <3>1. /\ k \in 1..logged /\ pos = ends[k - 1] + Width(2) /\ CancelOf(published[k])
      BY <2>1, <2>2, <2>5 DEF ReaderInv
    <3>2. published[k] \in Events
      <4> HIDE DEF k
      <4> QED BY <2>2, <2>5, <3>1, ElementOfSeq
    <3>3. Len(Record(published[k])) = Width(2)
      BY <3>1, <3>2, RecordFacts
    <3>4. ends[k] = ends[k - 1] + Len(Record(published[k]))
      <4> HIDE DEF k
      <4> QED BY <2>1, <3>1 DEF Layout
    <3>5. ends[k] <= ends[logged]
      <4>1. k \in 0..logged /\ logged \in 0..logged /\ k <= logged
        BY <2>2, <3>1
      <4> QED BY <2>6, <4>1
    <3>6. pos <= onDisk
      BY <2>6, <3>1, <3>3, <3>4, <3>5
    <3> QED BY <2>2, <3>6
  <2>8. /\ k <= logged /\ \A i \in 1..k : replayed[i] = published[i]
        /\ k = logged \/ onDisk < ends[k + 1]
    BY <2>1, <2>2, <2>7 DEF ReaderInv
  <2>9. k = logged
    <3> SUFFICES ASSUME k # logged PROVE FALSE
      OBVIOUS
    <3>1. k + 1 \in 0..logged /\ logged \in 0..logged /\ k + 1 <= logged
      BY <2>2, <2>8
    <3>2. ends[k + 1] <= ends[logged]
      BY <2>6, <3>1
    <3>3. ends[k + 1] \in Int
      BY <2>1, <2>2, <3>1
    <3> QED BY <2>2, <2>6, <2>8, <3>2, <3>3
  <2>10. IsSeq(published)
    BY <2>2, SeqIsSeq
  <2>11. replayed = published
    BY <2>2, <2>5, <2>8, <2>9, <2>10 DEF IsSeq
  <2> QED BY <2>5, <2>11
<1> QED BY Invariance, <1>1, PTL

(***************************************************************************)
(* As long as the stream is good, the log is at most the event being       *)
(* handled behind the book, and not behind at all when the logger is       *)
(* called first.                                                           *)
(***************************************************************************)
THEOREM LogIsNotBehind == Spec => []LogKeepsUp
<1>1. ASSUME IInv PROVE LogKeepsUp
  <2> SUFFICES ASSUME ok
               PROVE  LET inLog == BookEvents(SubSeq(published, 1, logged)) IN
                      /\ Len(live) <= Len(inLog) + 1
                      /\ Head(handlers["New"]) = "log" /\ Head(handlers["Cancel"]) = "log"
                            => IsPrefix(live, inLog)
    BY DEF LogKeepsUp
  <2> DEFINE inLog == BookEvents(SubSeq(published, 1, logged))
             first == Head(handlers["New"]) = "log" /\ Head(handlers["Cancel"]) = "log"
  <2>1. TypeOK /\ BusInv /\ published \in Seq(Events) /\ Len(published) \in Nat
    BY <1>1, LenProperties DEF IInv, TypeOK
  <2>2. /\ live = BookEvents(IF IsPending("book") THEN Earlier ELSE published)
        /\ logged = IF IsPending("log") THEN Len(published) - 1 ELSE Len(published)
    BY <2>1 DEF BusInv
  <2>3. inLog = BookEvents(IF IsPending("log") THEN Earlier ELSE published)
    <3>1. SubSeq(published, 1, Len(published)) = published
      BY <2>1, SubSeqFull
    <3> QED BY <2>2, <3>1 DEF Earlier
  <2> HIDE DEF inLog
  <2>4. live \in Seq(Events)
    BY <2>1 DEF TypeOK
  <2>5. ASSUME live = inLog PROVE Len(live) <= Len(inLog) + 1 /\ IsPrefix(live, inLog)
    <3>1. Len(live) \in Nat
      BY <2>4, LenProperties
    <3> QED BY <2>5, <3>1 DEF IsPrefix
  <2>6. CASE pending = <<>>
    <3>1. ~IsPending("log") /\ ~IsPending("book")
      BY <2>6, Waiting DEF IsPending
    <3>2. live = inLog
      BY <2>2, <2>3, <3>1
    <3> QED BY <2>5, <3>2 DEF inLog
  <2>7. CASE pending # <<>>
    <3>1. /\ published # <<>> /\ Last(published) \in Events
          /\ \/ pending = <<"log">>
             \/ /\ Last(published).kind # "Trade"
                /\ \/ pending = <<"book">>
                   \/ pending = <<"log", "book">>
                   \/ pending = <<"book", "log">>
      BY <2>1, <2>7, Shapes
    <3>2. /\ Earlier \in Seq(Events)
          /\ BookEvents(Earlier) \in Seq(Events)
          /\ BookEvents(published) = IF Last(published).kind = "Trade" THEN BookEvents(Earlier)
                                     ELSE Append(BookEvents(Earlier), Last(published))
      <4>1. Earlier \in Seq(Events) /\ published = Append(Earlier, Last(published))
        BY <2>1, <3>1, FrontAndLast DEF Earlier
      <4> QED BY <3>1, <4>1, BookEventsAppend
    <3> DEFINE b == BookEvents(Earlier)
               c == Append(b, Last(published))
    <3>3. /\ Len(b) \in Nat /\ Len(c) = Len(b) + 1 /\ SubSeq(c, 1, Len(b)) = b
          /\ SubSeq(b, 1, Len(b)) = b
      <4>1. Len(b) \in Nat /\ Len(c) = Len(b) + 1
        BY <3>1, <3>2, AppendProperties, LenProperties
      <4>2. SubSeq(c, 1, Len(c) - 1) = b
        <5> HIDE DEF b
        <5> QED BY <3>1, <3>2, FrontOfAppend DEF b
      <4>3. SubSeq(b, 1, Len(b)) = b
        BY <3>2, SubSeqFull
      <4>4. Len(c) - 1 = Len(b)
        BY <4>1
      <4> QED BY <4>1, <4>2, <4>3, <4>4
    <3> HIDE DEF b, c
    <3>4. CASE pending = <<"log">>
      <4>1. IsPending("log") /\ ~IsPending("book")
        BY <3>4, Waiting DEF IsPending
      <4>2. inLog = b /\ live = IF Last(published).kind = "Trade" THEN b ELSE c
        BY <2>2, <2>3, <3>2, <4>1 DEF b, c
      <4>3. Len(live) <= Len(inLog) + 1
        BY <3>3, <4>2
      <4>4. CASE Last(published).kind = "Trade"
        <5>1. live = inLog
          BY <4>2, <4>4
        <5> QED BY <2>5, <5>1 DEF inLog
      <4>5. CASE Last(published).kind # "Trade"
        <5>1. ~first
          <6>1. \/ handlers[Last(published).kind] = <<"log">>
                \/ Tail(handlers[Last(published).kind]) = <<"log">>
            BY <2>1, <3>4 DEF BusInv
          <6>2. Last(published).kind \in {"New", "Cancel"}
            BY <3>1, <4>5, LogAssumption
          <6>3. /\ handlers[Last(published).kind] \in {<<"log", "book">>, <<"book", "log">>}
            <7>1. handlers \in Wirings
              BY <2>1 DEF TypeOK
            <7>2. handlers \in [Kinds -> {<<"log">>, <<"log", "book">>, <<"book", "log">>}]
              BY <7>1, LogAssumption
            <7>3. Last(published).kind \in Kinds
              BY <6>2 DEF Kinds
            <7> QED BY <4>5, <7>1, <7>2, <7>3, LogAssumption
          <6>4. /\ Len(<<"log", "book">>) = 2 /\ Len(<<"book", "log">>) = 2
                /\ Len(<<"log">>) = 1 /\ Tail(<<"log", "book">>)[1] = "book"
                /\ <<"log">>[1] = "log" /\ Head(<<"book", "log">>) = "book"
            OBVIOUS
          <6>5. handlers[Last(published).kind] = <<"book", "log">>
            <7>1. <<"log", "book">> # <<"log">> /\ <<"book", "log">> # <<"log">>
              BY <6>4
            <7>2. Tail(<<"log", "book">>) # <<"log">>
              <8>1. "book" # "log"
                OBVIOUS
              <8> QED BY <6>4, <8>1
            <7> QED BY <6>1, <6>3, <7>1, <7>2, Zenon
          <6>6. Head(handlers[Last(published).kind]) = "book"
            BY <6>4, <6>5
          <6> QED BY <6>2, <6>6
        <5> QED BY <4>3, <5>1 DEF inLog
      <4> QED BY <4>4, <4>5
    <3>5. CASE pending = <<"book">> /\ Last(published).kind # "Trade"
      <4>1. ~IsPending("log") /\ IsPending("book")
        BY <3>5, Waiting DEF IsPending
      <4>2. inLog = c /\ live = b
        BY <2>2, <2>3, <3>2, <3>5, <4>1 DEF b, c
      <4>3. Len(live) <= Len(inLog) + 1
        BY <3>3, <4>2
      <4>4. IsPrefix(live, inLog)
        BY <3>3, <4>2 DEF IsPrefix
      <4> QED BY <4>3, <4>4 DEF inLog
    <3>6. CASE pending \in {<<"log", "book">>, <<"book", "log">>}
      <4>1. IsPending("log") /\ IsPending("book")
        BY <3>6, Waiting DEF IsPending
      <4>2. live = inLog
        BY <2>2, <2>3, <4>1
      <4> QED BY <2>5, <4>2 DEF inLog
    <3> QED BY <3>1, <3>4, <3>5, <3>6
  <2> QED BY <2>6, <2>7
<1> QED BY Invariance, <1>1, PTL

(***************************************************************************)
(* The loop of replay_test never reads in place: once recording is over,   *)
(* every step starts before the end of the file and moves on, or is the    *)
(* last.  With the fairness of Spec this is why the replay ends, on every  *)
(* file a recording can leave behind.                                      *)
(***************************************************************************)
THEOREM ReaderMovesOn ==
    Spec => [][mode # "running" =>
                  /\ ~done /\ UNCHANGED <<mode, onDisk>>
                  /\ done' \/ (pos < onDisk /\ pos < pos')]_vars
<1> DEFINE Progress == mode # "running" =>
                          /\ ~done /\ UNCHANGED <<mode, onDisk>>
                          /\ done' \/ (pos < onDisk /\ pos < pos')
<1>1. ASSUME IInv, Next PROVE Progress
  <2> SUFFICES ASSUME mode # "running"
               PROVE  /\ ~done /\ UNCHANGED <<mode, onDisk>>
                      /\ done' \/ (pos < onDisk /\ pos < pos')
    OBVIOUS
  <2>1. Replay
    BY <1>1 DEF Next, Publish, ApplyLive, LogEvent, Calls, Flush, Close, CutShort
  <2>2. CASE ReadStop
    BY <2>2 DEF ReadStop, busVars, logVars
  <2>3. CASE ReadEvent
    <3>1. ~done /\ readOk /\ Readable /\ UNCHANGED <<mode, onDisk>>
      BY <2>3 DEF ReadEvent, Readable, busVars, logVars
    <3>2. /\ pos \in Nat /\ onDisk \in Nat /\ pos < onDisk
          /\ Head(Left) = stream[pos + 1]
      BY <1>1, <3>1, WhatIsLeft DEF Readable
    <3>3. PICK e \in Events : stream[pos + 1] = Record(e)[1]
      BY <1>1, <3>1, <3>2, AtRecord
    <3>4. Width(Head(Left)) \in Nat /\ Width(Head(Left)) > 0
      <4>1. Len(Record(e)) \in 4..7 /\ Len(Record(e)) = Width(Record(e)[1])
        BY RecordFacts
      <4> QED BY <3>2, <3>3, <4>1
    <3>5. pos' = pos + Width(Head(Left))
      BY <2>3 DEF ReadEvent
    <3>6. pos < pos'
      BY <3>2, <3>4, <3>5
    <3> QED BY <3>1, <3>2, <3>6
  <2> QED BY <2>1, <2>2, <2>3 DEF Replay
<1>2. IInv /\ [Next]_vars => [Progress]_vars
  BY <1>1
<1> QED BY <1>2, Invariance, PTL DEF Spec
=============================================================================
