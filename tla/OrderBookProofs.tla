-------------------------- MODULE OrderBookProofs --------------------------
(***************************************************************************)
(* Theorems about the matching engine, for every set of symbols, prices    *)
(* and quantities and every bound on the number of orders.                 *)
(***************************************************************************)
EXTENDS OrderBook, SequenceTheorems, TLAPS

-----------------------------------------------------------------------------
(* Levels                                                                  *)

\* The first key of a non-empty level map exists and precedes every other.
LEMMA BestPriceIsBest ==
    ASSUME NEW side \in Side, NEW levels,
           DOMAIN levels \subseteq Prices, DOMAIN levels # {}
    PROVE  /\ BestPrice(side, levels) \in DOMAIN levels
           /\ \A q \in DOMAIN levels :
                 \/ q = BestPrice(side, levels)
                 \/ Precedes(side, BestPrice(side, levels), q)
<1>0. \A p \in DOMAIN levels : p \in Int
  BY PricesAssumption
<1>1. \E p \in DOMAIN levels :
        \A q \in DOMAIN levels : q = p \/ Precedes(side, p, q)
  <2>1. CASE side = "Bid"
    <3>1. PICK high \in DOMAIN levels : \A q \in DOMAIN levels : q <= high
      BY PricesAssumption
    <3>2. \A q \in DOMAIN levels : q = high \/ high > q
      BY <1>0, <3>1
    <3> QED BY <2>1, <3>2 DEF Precedes
  <2>2. CASE side = "Ask"
    <3>1. PICK low \in DOMAIN levels : \A q \in DOMAIN levels : low <= q
      BY PricesAssumption
    <3>2. \A q \in DOMAIN levels : q = low \/ low < q
      BY <1>0, <3>1
    <3> QED BY <2>2, <3>2 DEF Precedes
  <2> QED BY <2>1, <2>2 DEF Side
<1> QED BY <1>1 DEF BestPrice

\* When the best level does not cross, no level does.
LEMMA NoLevelCrosses ==
    ASSUME NEW side \in Side, NEW px \in Prices, NEW levels,
           DOMAIN levels \subseteq Prices,
           DOMAIN levels = {} \/ ~Crosses(side, px, BestPrice(Opposite(side), levels))
    PROVE  \A p \in DOMAIN levels : ~Crosses(side, px, p)
<1>1. Opposite(side) \in Side
  BY DEF Opposite, Side
<1> SUFFICES ASSUME NEW p \in DOMAIN levels
             PROVE  ~Crosses(side, px, p)
  OBVIOUS
<1> DEFINE best == BestPrice(Opposite(side), levels)
<1>2. /\ best \in DOMAIN levels
      /\ p = best \/ Precedes(Opposite(side), best, p)
  BY <1>1, BestPriceIsBest
<1>3. best \in Int /\ p \in Int /\ px \in Int
  BY <1>2, PricesAssumption
<1> HIDE DEF best
<1>4. ~Crosses(side, px, best)
  BY DEF best
<1> QED BY <1>2, <1>3, <1>4 DEF Precedes, Crosses, Opposite, Side

\* Resting an order keeps a level map a level map.
LEMMA PushBackOK ==
    ASSUME NEW levels, LevelsOK(levels), NEW px \in Prices,
           NEW order \in Resting
    PROVE  /\ LevelsOK(PushBack(levels, px, order))
           /\ DOMAIN PushBack(levels, px, order) = DOMAIN levels \cup {px}
           /\ \A p \in DOMAIN PushBack(levels, px, order) :
                PushBack(levels, px, order)[p] =
                    IF p = px THEN Append(LevelAt(levels, px), order)
                              ELSE levels[p]
<1>1. LevelAt(levels, px) \in Seq(Resting)
  BY DEF LevelAt, LevelsOK
<1>2. Append(LevelAt(levels, px), order) \in Seq(Resting)
  BY <1>1
<1> QED BY <1>2 DEF PushBack, PutLevel, LevelsOK

-----------------------------------------------------------------------------
(* Queues                                                                  *)

IdsOf(queue) == {queue[i].id : i \in DOMAIN queue}

LEMMA RestingFields == \A o \in Resting : o.id \in Int /\ o.qty \in Int
BY BookAssumption DEF Resting

LEMMA QueueElements ==
    ASSUME NEW queue \in Seq(Resting)
    PROVE  /\ Len(queue) \in Nat /\ DOMAIN queue = 1..Len(queue)
           /\ \A i \in 1..Len(queue) :
                queue[i] \in Resting /\ queue[i].id \in Int /\ queue[i].qty \in Int
<1>1. /\ Len(queue) \in Nat /\ DOMAIN queue = 1..Len(queue)
      /\ \A i \in 1..Len(queue) : queue[i] \in Resting
  OBVIOUS
<1> QED BY <1>1, RestingFields

\* Filling the head keeps what is left of a queue sound and adds no order.
LEMMA FillHeadSound ==
    ASSUME NEW queue \in Seq(Resting), NEW bound \in Int,
           QueueSound(queue, bound), NEW traded \in Nat
    PROVE  /\ FillHead(queue, traded) \in Seq(Resting)
           /\ IdsOf(FillHead(queue, traded)) \subseteq IdsOf(queue)
           /\ FillHead(queue, traded) # <<>>
                => QueueSound(FillHead(queue, traded), bound)
<1> DEFINE left == Head(queue).qty - traded
<1>1. Len(queue) \in Nat /\ Len(queue) > 0 /\ Head(queue) = queue[1]
  BY EmptySeq, LenProperties DEF QueueSound
<1>2. \A i \in 1..Len(queue) : queue[i] \in Resting /\ queue[i].id \in Int
  BY QueueElements
<1>3. left \in Int
  BY <1>1, <1>2 DEF Resting
<1>4. CASE left <= 0
  <2> DEFINE rest == Tail(queue)
  <2>1. FillHead(queue, traded) = rest
    BY <1>4 DEF FillHead
  <2>2. /\ rest \in Seq(Resting) /\ Len(rest) = Len(queue) - 1
        /\ \A i \in 1..Len(rest) : rest[i] = queue[i + 1]
    BY <1>1
  <2> HIDE DEF rest
  <2>3. \A i \in DOMAIN rest : i + 1 \in DOMAIN queue /\ rest[i] = queue[i + 1]
    BY <1>1, <2>2
  <2>4. IdsOf(rest) \subseteq IdsOf(queue)
    BY <2>3 DEF IdsOf
  <2>5. ASSUME rest # <<>> PROVE QueueSound(rest, bound)
    <3>1. \A i, j \in DOMAIN rest : i < j => rest[i].id < rest[j].id
      <4> SUFFICES ASSUME NEW i \in DOMAIN rest, NEW j \in DOMAIN rest, i < j
                   PROVE  rest[i].id < rest[j].id
        OBVIOUS
      <4>1. i \in Int /\ j \in Int /\ i + 1 < j + 1
        BY <2>2
      <4> QED BY <2>3, <4>1 DEF QueueSound
    <3> QED BY <2>3, <2>5, <3>1 DEF QueueSound
  <2> QED BY <2>1, <2>2, <2>4, <2>5
<1>5. CASE ~(left <= 0)
  <2> DEFINE rest == [queue EXCEPT ![1].qty = left]
  <2>1. FillHead(queue, traded) = rest
    BY <1>5 DEF FillHead
  <2>2. 1 \in 1..Len(queue) /\ DOMAIN queue = 1..Len(queue)
    BY <1>1
  <2>3. [queue[1] EXCEPT !.qty = left] \in Resting
    BY <1>2, <1>3, <2>2 DEF Resting
  <2>4. rest = [i \in 1..Len(queue) |->
                  IF i = 1 THEN [queue[1] EXCEPT !.qty = left] ELSE queue[i]]
    BY <2>2
  <2>5. /\ rest \in Seq(Resting) /\ Len(rest) = Len(queue)
        /\ DOMAIN rest = DOMAIN queue
    BY <1>1, <1>2, <2>2, <2>3, <2>4
  <2>6. \A i \in DOMAIN rest :
          /\ rest[i].id = queue[i].id
          /\ rest[i].qty = (IF i = 1 THEN left ELSE queue[i].qty)
    BY <1>2, <2>2, <2>4, <2>5 DEF Resting
  <2> HIDE DEF rest
  <2>7. IdsOf(rest) \subseteq IdsOf(queue)
    BY <2>5, <2>6 DEF IdsOf
  <2>8. QueueSound(rest, bound)
    BY <1>1, <1>3, <1>5, <2>5, <2>6 DEF QueueSound
  <2> QED BY <2>1, <2>5, <2>7, <2>8
<1> QED BY <1>4, <1>5

\* What RemoveAt leaves: the places after the k-th move up.
LEMMA RemoveAtElements ==
    ASSUME NEW queue \in Seq(Resting), NEW k \in DOMAIN queue
    PROVE  LET rest == RemoveAt(queue, k)
               from(i) == IF i < k THEN i ELSE i + 1
           IN /\ rest \in Seq(Resting) /\ Len(rest) = Len(queue) - 1
              /\ DOMAIN rest = 1..(Len(queue) - 1)
              /\ \A i \in 1..(Len(queue) - 1) : rest[i] = queue[from(i)]
<1> DEFINE rest == RemoveAt(queue, k)
           from(i) == IF i < k THEN i ELSE i + 1
<1>1. /\ Len(queue) \in Nat /\ k \in 1..Len(queue) /\ DOMAIN queue = 1..Len(queue)
      /\ \A i \in 1..Len(queue) : queue[i] \in Resting /\ queue[i].id \in Int
  BY QueueElements
<1> DEFINE front == SubSeq(queue, 1, k - 1)
           back  == SubSeq(queue, k + 1, Len(queue))
<1>2. /\ front \in Seq(Resting) /\ Len(front) = k - 1
      /\ \A i \in 1..(k - 1) : front[i] = queue[i]
  <2>1. /\ front \in Seq(Resting)
        /\ Len(front) = IF 1 <= k - 1 THEN k - 1 - 1 + 1 ELSE 0
        /\ \A i \in 1..(k - 1 - 1 + 1) : front[i] = queue[1 + i - 1]
    BY <1>1, SubSeqProperties
  <2> QED BY <1>1, <2>1
<1>3. /\ back \in Seq(Resting) /\ Len(back) = Len(queue) - k
      /\ \A i \in 1..(Len(queue) - k) : back[i] = queue[k + i]
  <2>1. /\ back \in Seq(Resting)
        /\ Len(back) = IF k + 1 <= Len(queue) THEN Len(queue) - (k + 1) + 1 ELSE 0
        /\ \A i \in 1..(Len(queue) - (k + 1) + 1) : back[i] = queue[k + 1 + i - 1]
    BY <1>1, SubSeqProperties
  <2> QED BY <1>1, <2>1
<1>4. rest = front \o back
  BY DEF RemoveAt
<1> HIDE DEF front, back, rest
<1>5. /\ front \o back \in Seq(Resting)
      /\ Len(front \o back) = Len(front) + Len(back)
      /\ \A i \in 1..(Len(front) + Len(back)) :
           (front \o back)[i] = IF i <= Len(front) THEN front[i]
                                ELSE back[i - Len(front)]
  BY <1>2, <1>3, ConcatProperties
<1>6. rest \in Seq(Resting) /\ Len(rest) = Len(queue) - 1
  BY <1>1, <1>2, <1>3, <1>4, <1>5
<1>7. \A i \in 1..(Len(queue) - 1) : rest[i] = queue[from(i)]
  <2> SUFFICES ASSUME NEW i \in 1..(Len(queue) - 1)
               PROVE  rest[i] = queue[from(i)]
    OBVIOUS
  <2>1. CASE i < k
    BY <1>1, <1>2, <1>3, <1>4, <1>5, <2>1
  <2>2. CASE ~(i < k)
    <3>1. rest[i] = back[i - (k - 1)]
      BY <1>1, <1>2, <1>3, <1>4, <1>5, <2>2
    <3>2. i - (k - 1) \in 1..(Len(queue) - k) /\ k + (i - (k - 1)) = i + 1
      BY <1>1, <2>2
    <3> QED BY <1>3, <2>2, <3>1, <3>2
  <2> QED BY <2>1, <2>2
<1> QED BY <1>6, <1>7, LenProperties DEF rest

\* Taking one order out of a queue keeps the others sound and adds none.
LEMMA RemoveAtSound ==
    ASSUME NEW queue \in Seq(Resting), NEW bound \in Int,
           QueueSound(queue, bound), NEW k \in DOMAIN queue
    PROVE  /\ RemoveAt(queue, k) \in Seq(Resting)
           /\ IdsOf(RemoveAt(queue, k)) \subseteq IdsOf(queue) \ {queue[k].id}
           /\ RemoveAt(queue, k) # <<>> => QueueSound(RemoveAt(queue, k), bound)
<1> DEFINE rest == RemoveAt(queue, k)
           from(i) == IF i < k THEN i ELSE i + 1
<1>1. /\ Len(queue) \in Nat /\ k \in 1..Len(queue) /\ DOMAIN queue = 1..Len(queue)
      /\ \A i \in 1..Len(queue) : queue[i] \in Resting /\ queue[i].id \in Int
  BY QueueElements
<1>2. /\ rest \in Seq(Resting) /\ Len(rest) = Len(queue) - 1
      /\ DOMAIN rest = 1..(Len(queue) - 1)
      /\ \A i \in 1..(Len(queue) - 1) : rest[i] = queue[from(i)]
  BY RemoveAtElements
<1>3. \A i \in DOMAIN rest :
        from(i) \in DOMAIN queue /\ rest[i] = queue[from(i)] /\ from(i) # k
  BY <1>1, <1>2
<1>4. \A i, j \in DOMAIN rest : i < j => from(i) < from(j)
  BY <1>1, <1>2
<1> HIDE DEF rest, from
<1>5. \A i, j \in DOMAIN queue : i # j => queue[i].id # queue[j].id
  BY <1>1 DEF QueueSound
<1>6. IdsOf(rest) \subseteq IdsOf(queue) \ {queue[k].id}
  BY <1>3, <1>5 DEF IdsOf
<1>7. ASSUME rest # <<>> PROVE QueueSound(rest, bound)
  <2>1. \A i, j \in DOMAIN rest : i < j => rest[i].id < rest[j].id
    BY <1>3, <1>4 DEF QueueSound
  <2> QED BY <1>3, <1>7, <2>1 DEF QueueSound
<1> QED BY <1>2, <1>6, <1>7 DEF rest

\* A newer order at the back keeps a queue sound.
LEMMA AppendSound ==
    ASSUME NEW queue \in Seq(Resting), NEW bound \in Int, NEW order \in Resting,
           queue = <<>> \/ QueueSound(queue, order.id),
           order.qty > 0, order.id < bound
    PROVE  /\ QueueSound(Append(queue, order), bound)
           /\ IdsOf(Append(queue, order)) = IdsOf(queue) \cup {order.id}
<1> DEFINE more == Append(queue, order)
<1>1. /\ Len(queue) \in Nat /\ DOMAIN queue = 1..Len(queue)
      /\ \A i \in 1..Len(queue) : queue[i].id \in Int
      /\ order.id \in Int
  BY QueueElements, RestingFields
<1>2. /\ DOMAIN more = 1..(Len(queue) + 1) /\ more # <<>>
      /\ more[Len(queue) + 1] = order
      /\ \A i \in 1..Len(queue) : more[i] = queue[i]
  <2>1. /\ DOMAIN more = 1..(Len(queue) + 1) /\ more[Len(queue) + 1] = order
        /\ \A i \in 1..Len(queue) : more[i] = queue[i]
    BY <1>1
  <2>2. 1 \in DOMAIN more
    BY <1>1, <2>1
  <2> HIDE DEF more
  <2> QED BY <2>1, <2>2
<1>3. \A i \in 1..Len(queue) : queue[i].qty > 0 /\ queue[i].id < order.id
  BY <1>1 DEF QueueSound
<1>4. \A i, j \in 1..Len(queue) : i < j => queue[i].id < queue[j].id
  BY <1>1 DEF QueueSound
<1> HIDE DEF more
<1>5. QueueSound(more, bound)
  BY <1>1, <1>2, <1>3, <1>4 DEF QueueSound
<1>6. IdsOf(more) = IdsOf(queue) \cup {order.id}
  BY <1>1, <1>2 DEF IdsOf
<1> QED BY <1>5, <1>6 DEF more

-----------------------------------------------------------------------------
(* Books                                                                   *)

Place(s, d, p) == [symbol |-> s, side |-> d, px |-> p]

\* BookSound and IndexCoversBook of any books, bound and index
Sound(all, bound, idx) ==
    \A s \in DOMAIN all, d \in Side : \A p \in DOMAIN all[s][d] :
        /\ QueueSound(all[s][d][p], bound)
        /\ \A id \in IdsOf(all[s][d][p]) :
              id \in DOMAIN idx /\ idx[id] = Place(s, d, p)

Uncrossed(all) ==
    \A s \in DOMAIN all :
        \A bid \in DOMAIN all[s]["Bid"], ask \in DOMAIN all[s]["Ask"] : bid < ask

\* Replacing the levels of one side of one symbol.
LEMMA ReplaceSide ==
    ASSUME NEW all, BooksOK(all), NEW s \in DOMAIN all, NEW d \in Side,
           NEW levels, LevelsOK(levels)
    PROVE  LET new == [all EXCEPT ![s][d] = levels] IN
           /\ BooksOK(new) /\ DOMAIN new = DOMAIN all
           /\ \A t \in DOMAIN all, e \in Side :
                new[t][e] = IF t = s /\ e = d THEN levels ELSE all[t][e]
<1> DEFINE new == [all EXCEPT ![s][d] = levels]
<1>1. /\ DOMAIN new = DOMAIN all
      /\ new = [t \in DOMAIN all |->
                   IF t = s THEN [all[s] EXCEPT ![d] = levels] ELSE all[t]]
  BY DEF BooksOK
<1>2. [all[s] EXCEPT ![d] = levels] =
        [e \in Side |-> IF e = d THEN levels ELSE all[s][e]]
  BY DEF BooksOK, BookOK
<1> HIDE DEF new
<1>3. \A t \in DOMAIN all, e \in Side :
        new[t][e] = IF t = s /\ e = d THEN levels ELSE all[t][e]
  BY <1>1, <1>2
<1>4. \A t \in DOMAIN all : BookOK(new[t])
  BY <1>1, <1>2 DEF BooksOK, BookOK
<1>5. BooksOK(new)
  BY <1>1, <1>4 DEF BooksOK
<1> QED BY <1>1, <1>3, <1>5 DEF new

\* A queue that lost orders, and an index that lost some of that queue's ids.
LEMMA ShrinkQueue ==
    ASSUME NEW all, BooksOK(all), NEW bound \in Int, NEW idx,
           Sound(all, bound, idx), Uncrossed(all),
           NEW s \in DOMAIN all, NEW d \in Side, NEW p \in DOMAIN all[s][d],
           NEW queue \in Seq(Resting),
           queue # <<>> => QueueSound(queue, bound),
           IdsOf(queue) \subseteq IdsOf(all[s][d][p]),
           NEW less,
           \A id \in DOMAIN idx :
             \/ id \in DOMAIN less /\ less[id] = idx[id]
             \/ id \notin IdsOf(queue) /\ idx[id] = Place(s, d, p)
    PROVE  LET new == [all EXCEPT ![s][d] = SettleLevel(all[s][d], p, queue)] IN
           /\ BooksOK(new) /\ Sound(new, bound, less) /\ Uncrossed(new)
           /\ DOMAIN new = DOMAIN all
<1> DEFINE levels == SettleLevel(all[s][d], p, queue)
           new == [all EXCEPT ![s][d] = levels]
<1>1. LevelsOK(all[s][d]) /\ p \in Prices
  BY DEF BooksOK, BookOK, LevelsOK
<1>2. /\ LevelsOK(levels)
      /\ DOMAIN levels = IF queue = <<>> THEN DOMAIN all[s][d] \ {p}
                                         ELSE DOMAIN all[s][d] \cup {p}
      /\ \A q \in DOMAIN levels :
            levels[q] = IF q = p THEN queue ELSE all[s][d][q]
  BY <1>1 DEF LevelsOK, SettleLevel, PutLevel
<1> HIDE DEF levels
<1>3. /\ BooksOK(new) /\ DOMAIN new = DOMAIN all
      /\ \A t \in DOMAIN all, e \in Side :
            new[t][e] = IF t = s /\ e = d THEN levels ELSE all[t][e]
  BY ONLY BooksOK(all), s \in DOMAIN all, d \in Side, <1>2, ReplaceSide
<1> HIDE DEF new
<1>4. \A t \in DOMAIN all, e \in Side : DOMAIN new[t][e] \subseteq DOMAIN all[t][e]
  BY <1>2, <1>3
<1>5. Uncrossed(new)
  BY <1>3, <1>4 DEF Uncrossed, Side
<1>6. Sound(new, bound, less)
  <2> SUFFICES ASSUME NEW t \in DOMAIN all, NEW e \in Side,
                      NEW q \in DOMAIN new[t][e]
               PROVE  /\ QueueSound(new[t][e][q], bound)
                      /\ \A id \in IdsOf(new[t][e][q]) :
                            id \in DOMAIN less /\ less[id] = Place(t, e, q)
    BY <1>3 DEF Sound
  <2>1. q \in DOMAIN all[t][e]
    BY <1>4
  <2>2. \A id \in IdsOf(all[t][e][q]) : id \in DOMAIN idx /\ idx[id] = Place(t, e, q)
    BY <2>1 DEF Sound
  <2>3. CASE t = s /\ e = d /\ q = p
    <3>1. new[t][e][q] = queue /\ queue # <<>>
      BY <1>2, <1>3, <2>3
    <3>2. \A id \in IdsOf(queue) : id \in DOMAIN less /\ less[id] = idx[id]
      BY <2>2, <2>3
    <3> QED BY <2>2, <2>3, <3>1, <3>2
  <2>4. CASE ~(t = s /\ e = d /\ q = p)
    <3>1. new[t][e][q] = all[t][e][q]
      BY <1>2, <1>3, <2>4
    <3>2. Place(t, e, q) # Place(s, d, p)
      BY <2>4 DEF Place
    <3>3. \A id \in IdsOf(all[t][e][q]) : id \in DOMAIN less /\ less[id] = idx[id]
      BY <2>2, <3>2
    <3> QED BY <2>1, <2>2, <3>1, <3>3 DEF Sound
  <2> QED BY <2>3, <2>4
<1> QED BY <1>3, <1>5, <1>6 DEF new, levels

\* A new order, with an id above every other, rests at the end of its level.
LEMMA GrowQueue ==
    ASSUME NEW all, BooksOK(all), NEW bound \in Int, NEW idx,
           NEW order \in Resting, order.qty > 0, order.id < bound,
           Sound(all, order.id, idx), Uncrossed(all), order.id \notin DOMAIN idx,
           NEW s \in DOMAIN all, NEW d \in Side, NEW px \in Prices,
           \A p \in DOMAIN all[s][Opposite(d)] : ~Crosses(d, px, p)
    PROVE  LET new == [all EXCEPT ![s][d] = PushBack(all[s][d], px, order)]
               more == [id \in DOMAIN idx \cup {order.id} |->
                          IF id \in DOMAIN idx THEN idx[id] ELSE Place(s, d, px)]
           IN BooksOK(new) /\ Sound(new, bound, more) /\ Uncrossed(new)
<1> DEFINE old == all[s][d]
           levels == PushBack(old, px, order)
           new == [all EXCEPT ![s][d] = levels]
           more == [id \in DOMAIN idx \cup {order.id} |->
                      IF id \in DOMAIN idx THEN idx[id] ELSE Place(s, d, px)]
<1>1. LevelsOK(old)
  BY DEF BooksOK, BookOK
<1>2. LevelAt(old, px) \in Seq(Resting)
  BY <1>1 DEF LevelAt, LevelsOK
<1>3. /\ LevelsOK(levels)
      /\ DOMAIN levels = DOMAIN old \cup {px}
      /\ \A q \in DOMAIN levels :
            levels[q] = IF q = px THEN Append(LevelAt(old, px), order) ELSE old[q]
  BY <1>1, <1>2, PushBackOK
<1> HIDE DEF levels
<1>4. /\ BooksOK(new) /\ DOMAIN new = DOMAIN all
      /\ \A t \in DOMAIN all, e \in Side :
            new[t][e] = IF t = s /\ e = d THEN levels ELSE all[t][e]
  BY <1>3, ReplaceSide
<1> HIDE DEF new
<1>5. Uncrossed(new)
  <2> SUFFICES ASSUME NEW t \in DOMAIN all, NEW bid \in DOMAIN new[t]["Bid"],
                      NEW ask \in DOMAIN new[t]["Ask"]
               PROVE  bid < ask
    BY <1>4 DEF Uncrossed
  <2>1. bid \in Int /\ ask \in Int
    BY <1>4, PricesAssumption DEF BooksOK, BookOK, LevelsOK, Side
  <2>2. "Bid" \in Side /\ "Ask" \in Side /\ px \in Int
    BY PricesAssumption DEF Side
  <2>3. CASE bid \in DOMAIN all[t]["Bid"] /\ ask \in DOMAIN all[t]["Ask"]
    BY <2>3 DEF Uncrossed
  <2>4. CASE bid \notin DOMAIN all[t]["Bid"]
    <3>1. t = s /\ d = "Bid" /\ bid = px
      BY <1>3, <1>4, <2>2, <2>4
    <3>2. ask \in DOMAIN all[s]["Ask"]
      BY <1>4, <2>2, <3>1
    <3>3. ~(px >= ask)
      BY <3>1, <3>2 DEF Crosses, Opposite
    <3> QED BY <2>1, <2>2, <3>1, <3>3
  <2>5. CASE ask \notin DOMAIN all[t]["Ask"]
    <3>1. t = s /\ d = "Ask" /\ ask = px
      BY <1>3, <1>4, <2>2, <2>5
    <3>2. bid \in DOMAIN all[s]["Bid"]
      BY <1>4, <2>2, <3>1
    <3>3. ~(px <= bid)
      BY <3>1, <3>2 DEF Crosses, Opposite
    <3> QED BY <2>1, <2>2, <3>1, <3>3
  <2> QED BY <2>3, <2>4, <2>5
<1>6. Sound(new, bound, more)
  <2> SUFFICES ASSUME NEW t \in DOMAIN all, NEW e \in Side,
                      NEW q \in DOMAIN new[t][e]
               PROVE  /\ QueueSound(new[t][e][q], bound)
                      /\ \A id \in IdsOf(new[t][e][q]) :
                            id \in DOMAIN more /\ more[id] = Place(t, e, q)
    BY <1>4 DEF Sound
  <2>1. CASE q \in DOMAIN all[t][e] /\ ~(t = s /\ e = d /\ q = px)
    <3>1. new[t][e][q] = all[t][e][q]
      BY <1>3, <1>4, <2>1
    <3>2. /\ QueueSound(all[t][e][q], order.id)
          /\ \A id \in IdsOf(all[t][e][q]) :
                id \in DOMAIN idx /\ idx[id] = Place(t, e, q)
      BY <2>1 DEF Sound
    <3>3. all[t][e][q] \in Seq(Resting)
      BY <2>1 DEF BooksOK, BookOK, LevelsOK
    <3>4. QueueSound(all[t][e][q], bound)
      BY <3>2, <3>3, QueueElements, RestingFields DEF QueueSound
    <3> QED BY <3>1, <3>2, <3>4
  <2>2. CASE t = s /\ e = d /\ q = px
    <3> DEFINE queue == LevelAt(old, px)
    <3>1. new[t][e][q] = Append(queue, order)
      BY <1>3, <1>4, <2>2
    <3>2. /\ queue = <<>> \/ QueueSound(queue, order.id)
          /\ \A id \in IdsOf(queue) : id \in DOMAIN idx /\ idx[id] = Place(s, d, px)
      BY DEF Sound, LevelAt, IdsOf
    <3> HIDE DEF queue
    <3>3. /\ QueueSound(Append(queue, order), bound)
          /\ IdsOf(Append(queue, order)) = IdsOf(queue) \cup {order.id}
      BY <1>2, <3>2, AppendSound DEF queue
    <3> QED BY <2>2, <3>1, <3>2, <3>3
  <2>3. q \in DOMAIN all[t][e] \/ (t = s /\ e = d /\ q = px)
    BY <1>3, <1>4
  <2> QED BY <2>1, <2>2, <2>3
<1> QED BY <1>4, <1>5, <1>6 DEF new, levels

\* getOrCreateBook changes no level of any book.
LEMMA CreateBook ==
    ASSUME BooksOK(books), NEW s \in Symbols, NEW bound, NEW idx,
           Sound(books, bound, idx), Uncrossed(books)
    PROVE  /\ BooksOK(GetOrCreateBook(s))
           /\ Sound(GetOrCreateBook(s), bound, idx)
           /\ Uncrossed(GetOrCreateBook(s))
           /\ DOMAIN GetOrCreateBook(s) = DOMAIN books \cup {s}
<1> DEFINE all == GetOrCreateBook(s)
<1>1. CASE s \in DOMAIN books
  BY <1>1 DEF GetOrCreateBook
<1>2. CASE s \notin DOMAIN books
  <2>1. all = [t \in DOMAIN books \cup {s} |->
                 IF t = s THEN EmptyBook ELSE books[t]]
    BY <1>2 DEF GetOrCreateBook
  <2>2. \A d \in Side : DOMAIN EmptyBook[d] = {} /\ EmptyBook[d] = NoLevels
    BY DEF EmptyBook, NoLevels
  <2>3. BookOK(EmptyBook)
    BY <2>2 DEF BookOK, LevelsOK, EmptyBook, NoLevels
  <2> HIDE DEF all
  <2>4. BooksOK(all)
    BY <2>1, <2>3 DEF BooksOK
  <2>5. \A t \in DOMAIN all, d \in Side :
          DOMAIN all[t][d] # {} => t \in DOMAIN books /\ all[t] = books[t]
    BY <2>1, <2>2
  <2>6. Sound(all, bound, idx)
    <3> SUFFICES ASSUME NEW t \in DOMAIN all, NEW d \in Side,
                        NEW p \in DOMAIN all[t][d]
                 PROVE  /\ QueueSound(all[t][d][p], bound)
                        /\ \A id \in IdsOf(all[t][d][p]) :
                              id \in DOMAIN idx /\ idx[id] = Place(t, d, p)
      BY DEF Sound
    <3>1. t \in DOMAIN books /\ all[t] = books[t]
      BY <2>5
    <3> QED BY <3>1 DEF Sound
  <2>7. Uncrossed(all)
    BY <2>1, <2>5 DEF Uncrossed, Side
  <2> QED BY <2>1, <2>4, <2>6, <2>7 DEF all
<1> QED BY <1>1, <1>2

-----------------------------------------------------------------------------
(* The inductive invariant                                                 *)

LEMMA SoundIsInvariant ==
    (BookSound /\ NotCrossed /\ IndexCoversBook)
        <=> (Sound(books, Issued, index) /\ Uncrossed(books))
<1>1. NotCrossed <=> Uncrossed(books)
  BY DEF NotCrossed, Uncrossed
<1>2. IndexCoversBook <=>
        \A s \in DOMAIN books, d \in Side : \A p \in DOMAIN books[s][d] :
            \A id \in IdsOf(books[s][d][p]) :
                id \in DOMAIN index /\ index[id] = Place(s, d, p)
  BY DEF IndexCoversBook, IdsOf, Place
<1> QED BY <1>1, <1>2 DEF BookSound, Sound

\* The same, of the state after a step
LEMMA SoundIsInvariantNext ==
    (BookSound /\ NotCrossed /\ IndexCoversBook)'
        <=> (Sound(books', Issued', index') /\ Uncrossed(books'))
<1>1. NotCrossed' <=> Uncrossed(books')
  BY DEF NotCrossed, Uncrossed
<1>2. IndexCoversBook' <=>
        \A s \in DOMAIN books', d \in Side : \A p \in DOMAIN books'[s][d] :
            \A id \in IdsOf(books'[s][d][p]) :
                id \in DOMAIN index' /\ index'[id] = Place(s, d, p)
  BY DEF IndexCoversBook, IdsOf, Place
<1> QED BY <1>1, <1>2 DEF BookSound, Sound

LEMMA InitIInv == Init => IInv
<1> SUFFICES ASSUME Init PROVE IInv
  OBVIOUS
<1>1. BooksOK(books)
  BY DEF Init, BooksOK
<1>2. TypeOK
  BY <1>1, BookAssumption DEF Init, TypeOK, Returns
<1>3. BookSound /\ NotCrossed /\ IndexCoversBook /\ IdsFresh
  BY DEF Init, BookSound, NotCrossed, IndexCoversBook, IdsFresh
<1> QED BY <1>2, <1>3 DEF IInv

LEMMA RejectIInv ==
    ASSUME IInv, NEW symbol \in Symbols, NEW side \in Side, NEW px \in Prices,
           NEW qty \in OrderQtys, RejectOrder(symbol, side, px, qty)
    PROVE  IInv'
<1>1. ret' \in Returns /\ UNCHANGED <<books, index, nextId, netQty, call>>
  BY BookAssumption DEF RejectOrder, Returns
<1> QED BY <1>1 DEF IInv, TypeOK, BookSound, NotCrossed, IndexCoversBook, IdsFresh, Issued

LEMMA AcceptIInv ==
    ASSUME IInv, NEW symbol \in Symbols, NEW side \in Side, NEW px \in Prices,
           NEW qty \in OrderQtys, AcceptOrder(symbol, side, px, qty)
    PROVE  IInv'
<1> USE DEF IInv
<1>1. /\ call' = [id |-> nextId, symbol |-> symbol, side |-> side,
                  px |-> px, remaining |-> qty]
      /\ nextId' = nextId + 1 /\ nextId \in 1..MaxOrders
      /\ qty > 0 /\ qty \in Nat
      /\ call = NoCall /\ UNCHANGED <<index, netQty, ret>>
  BY BookAssumption DEF AcceptOrder, Accepted, TypeOK
<1>2. call' \in Calls /\ call' # NoCall
  BY <1>1, BookAssumption DEF Calls
<1>3. Issued = nextId /\ Issued' = nextId
  BY <1>1, <1>2 DEF Issued
<1>4. Sound(books, nextId, index) /\ Uncrossed(books) /\ BooksOK(books)
  BY <1>3, SoundIsInvariant DEF TypeOK
<1>5. /\ BooksOK(books') /\ Sound(books', nextId, index) /\ Uncrossed(books')
      /\ symbol \in DOMAIN books'
  BY <1>4, CreateBook DEF AcceptOrder
<1>6. (BookSound /\ NotCrossed /\ IndexCoversBook)'
  <2>1. Sound(books', Issued', index') /\ Uncrossed(books')
    BY <1>1, <1>3, <1>5
  <2> QED BY <2>1, SoundIsInvariantNext
<1>7. TypeOK'
  BY <1>1, <1>2, <1>5, BookAssumption DEF TypeOK
<1>8. IdsFresh'
  BY <1>1, <1>2, <1>3, <1>5 DEF IdsFresh, TypeOK
<1> QED BY <1>6, <1>7, <1>8

LEMMA MatchIInv ==
    ASSUME IInv, MatchStep
    PROVE  IInv'
<1> USE DEF IInv
<1> DEFINE s == call.symbol
           opp == Opposite(call.side)
           levels == books[s][opp]
           best == BestPrice(opp, levels)
           queue == levels[best]
           traded == TradedQty(Head(queue).qty, call.remaining)
           less == FillHead(queue, traded)
<1>1. /\ call \in Calls /\ s \in Symbols /\ s \in DOMAIN books
      /\ opp \in Side /\ call.side \in Side /\ call.remaining \in Nat
      /\ call.remaining > 0
  BY DEF MatchStep, CanMatch, TypeOK, Calls, IdsFresh, Opposite, Side
<1>2. LevelsOK(levels) /\ DOMAIN levels # {} /\ DOMAIN levels \subseteq Prices
  BY <1>1 DEF TypeOK, BooksOK, BookOK, LevelsOK, MatchStep, CanMatch
<1>3. best \in DOMAIN levels
  BY <1>1, <1>2, BestPriceIsBest
<1>4. queue \in Seq(Resting)
  BY <1>2, <1>3 DEF LevelsOK
<1>5. /\ Issued = call.id /\ Issued \in Int
      /\ Sound(books, Issued, index) /\ Uncrossed(books) /\ BooksOK(books)
  BY <1>1, SoundIsInvariant, BookAssumption DEF MatchStep, Issued, TypeOK, Calls
<1>6. QueueSound(queue, Issued)
  BY <1>1, <1>3 DEF BookSound
<1>7. /\ books' = [books EXCEPT ![s][opp] = SettleLevel(levels, best, less)]
      /\ call' = [call EXCEPT !.remaining = @ - traded]
      /\ UNCHANGED <<index, nextId, ret>>
  BY DEF MatchStep
<1>8. Head(queue).qty \in Nat /\ Head(queue).qty > 0
  BY <1>4, <1>6, EmptySeq, QueueElements DEF QueueSound
<1>9. traded \in Nat /\ traded <= call.remaining
  BY <1>1, <1>8 DEF TradedQty, Least
<1> HIDE DEF traded
<1>10. /\ less \in Seq(Resting) /\ IdsOf(less) \subseteq IdsOf(queue)
       /\ less # <<>> => QueueSound(less, Issued)
  BY <1>4, <1>5, <1>6, <1>9, FillHeadSound
<1> HIDE DEF less
<1>11. /\ BooksOK(books') /\ Sound(books', Issued, index) /\ Uncrossed(books')
       /\ DOMAIN books' = DOMAIN books
  <2> DEFINE new == [books EXCEPT ![s][opp] = SettleLevel(books[s][opp], best, less)]
  <2>1. /\ BooksOK(books) /\ Issued \in Int /\ Sound(books, Issued, index)
        /\ Uncrossed(books) /\ s \in DOMAIN books /\ opp \in Side
        /\ best \in DOMAIN books[s][opp] /\ less \in Seq(Resting)
        /\ less # <<>> => QueueSound(less, Issued)
        /\ IdsOf(less) \subseteq IdsOf(books[s][opp][best])
        /\ books' = new
    BY <1>1, <1>3, <1>5, <1>7, <1>10
  <2> HIDE DEF best, s, opp
  <2>3. BooksOK(new) /\ Sound(new, Issued, index) /\ Uncrossed(new)
          /\ DOMAIN new = DOMAIN books
    BY <2>1, ShrinkQueue
  <2> QED BY <2>1, <2>3
<1>12. /\ call' \in Calls /\ call' # NoCall
       /\ call'.id = call.id /\ call'.symbol = call.symbol
  BY <1>1, <1>7, <1>9, BookAssumption DEF Calls
<1>13. Issued' = Issued
  BY <1>5, <1>12 DEF Issued
<1>14. netQty' \in [Symbols -> Int]
  <2>1. Head(queue).qty \in Int /\ \A n \in Int, side \in Side : OnTrade(n, side, traded) \in Int
    BY <1>8, <1>9 DEF OnTrade, Signed
  <2>2. netQty' = netQty \/
        netQty' = [netQty EXCEPT ![s] =
                     OnTrade(OnTrade(netQty[s], call.side, traded), opp, traded)]
    BY DEF MatchStep, traded
  <2> QED BY <1>1, <2>1, <2>2 DEF TypeOK
<1>15. TypeOK'
  BY <1>7, <1>11, <1>12, <1>14 DEF TypeOK
<1>16. (BookSound /\ NotCrossed /\ IndexCoversBook)'
  BY <1>7, <1>11, <1>13, SoundIsInvariantNext
<1>17. IdsFresh'
  BY <1>7, <1>11, <1>12, <1>13 DEF IdsFresh, MatchStep
<1> QED BY <1>15, <1>16, <1>17

LEMMA RestIInv ==
    ASSUME IInv, Rest
    PROVE  IInv'
<1> USE DEF IInv
<1>1. /\ call \in Calls /\ call.symbol \in DOMAIN books /\ call.side \in Side
      /\ call.remaining \in Nat /\ call.px \in Prices
      /\ call.id \in 1..MaxOrders /\ call.id < nextId /\ nextId \in Int
  BY DEF Rest, TypeOK, Calls, IdsFresh
<1>2. /\ call' = NoCall /\ UNCHANGED <<nextId, netQty>> /\ ret' \in Returns
      /\ Issued = call.id /\ Issued' = nextId
  BY <1>1, BookAssumption DEF Rest, Issued, Returns
<1>3. Sound(books, call.id, index) /\ Uncrossed(books) /\ BooksOK(books)
  BY <1>2, SoundIsInvariant DEF TypeOK
<1>4. \A id \in DOMAIN index : id \in Int /\ id < call.id
  BY <1>2 DEF IdsFresh, TypeOK
<1>5. CASE call.remaining > 0
  <2> DEFINE order == [id |-> call.id, qty |-> call.remaining]
             levels == books[call.symbol][call.side]
  <2>1. /\ books' = [books EXCEPT ![call.symbol][call.side] =
                        PushBack(levels, call.px, order)]
        /\ index' = [i \in DOMAIN index \cup {order.id} |->
                       IF i \in DOMAIN index THEN index[i]
                       ELSE Place(call.symbol, call.side, call.px)]
    BY <1>5 DEF Rest, IndexEntry, Place
  <2>2. /\ order \in Resting /\ order.qty > 0 /\ order.id < nextId
        /\ order.id = call.id /\ order.id \notin DOMAIN index
    BY <1>1, <1>4, <1>5 DEF Resting
  <2>3. \A p \in DOMAIN books[call.symbol][Opposite(call.side)] :
          ~Crosses(call.side, call.px, p)
    <3>1. LevelsOK(books[call.symbol][Opposite(call.side)])
      BY <1>1, <1>3 DEF BooksOK, BookOK, Opposite, Side
    <3> QED BY <1>1, <1>5, <3>1, NoLevelCrosses DEF Rest, CanMatch, LevelsOK
  <2> HIDE DEF order
  <2>4. BooksOK(books') /\ Sound(books', nextId, index') /\ Uncrossed(books')
    <3> DEFINE new == [books EXCEPT ![call.symbol][call.side] =
                         PushBack(books[call.symbol][call.side], call.px, order)]
               more == [id \in DOMAIN index \cup {order.id} |->
                          IF id \in DOMAIN index THEN index[id]
                          ELSE Place(call.symbol, call.side, call.px)]
    <3>1. BooksOK(new) /\ Sound(new, nextId, more) /\ Uncrossed(new)
      BY <1>1, <1>3, <2>2, <2>3, GrowQueue
    <3> QED BY <2>1, <3>1
  <2>5. (BookSound /\ NotCrossed /\ IndexCoversBook)'
    BY <1>2, <2>4, SoundIsInvariantNext
  <2>6. DOMAIN index' \subseteq 1..MaxOrders /\ index' \in [DOMAIN index' -> Places]
    <3>1. Place(call.symbol, call.side, call.px) \in Places
      BY <1>1 DEF Place, Places, Calls
    <3> QED BY <1>1, <2>1, <2>2, <3>1 DEF TypeOK
  <2>7. TypeOK'
    BY <1>2, <2>4, <2>6 DEF TypeOK
  <2>8. IdsFresh'
    BY <1>1, <1>2, <1>4, <2>1, <2>2, BookAssumption DEF IdsFresh
  <2> QED BY <2>5, <2>7, <2>8
<1>6. CASE ~(call.remaining > 0)
  <2>1. UNCHANGED <<books, index>>
    BY <1>6 DEF Rest
  <2>2. TypeOK'
    BY <1>2, <2>1 DEF TypeOK
  <2>3. Sound(books, nextId, index)
    <3> SUFFICES ASSUME NEW s \in DOMAIN books, NEW d \in Side,
                        NEW p \in DOMAIN books[s][d]
                 PROVE  QueueSound(books[s][d][p], nextId)
      BY <1>3 DEF Sound
    <3>1. books[s][d][p] \in Seq(Resting)
      BY <1>3 DEF BooksOK, BookOK, LevelsOK
    <3>2. QueueSound(books[s][d][p], call.id)
      BY <1>3 DEF Sound
    <3>3. call.id \in Int
      BY <1>1, BookAssumption
    <3> QED BY <1>1, <3>1, <3>2, <3>3, QueueElements DEF QueueSound
  <2>4. (BookSound /\ NotCrossed /\ IndexCoversBook)'
    BY <1>2, <1>3, <2>1, <2>3, SoundIsInvariantNext
  <2>5. IdsFresh'
    BY <1>1, <1>2, <1>4, <2>1 DEF IdsFresh
  <2> QED BY <2>2, <2>4, <2>5
<1> QED BY <1>5, <1>6

LEMMA CancelUnknownIInv ==
    ASSUME IInv, NEW id \in 1..MaxOrders, CancelUnknown(id)
    PROVE  IInv'
<1>1. ret' \in Returns /\ UNCHANGED <<books, index, nextId, netQty, call>>
  BY BookAssumption DEF CancelUnknown, Returns
<1> QED BY <1>1 DEF IInv, TypeOK, BookSound, NotCrossed, IndexCoversBook, IdsFresh, Issued

\* What both ways of cancelling an indexed id rely on
LEMMA CancelContext ==
    ASSUME IInv, NEW id \in 1..MaxOrders, id \in DOMAIN index, call = NoCall
    PROVE  /\ index[id] \in Places
           /\ LET all == GetOrCreateBook(index[id].symbol) IN
              /\ BooksOK(all) /\ Sound(all, Issued, index) /\ Uncrossed(all)
              /\ index[id].symbol \in DOMAIN all
           /\ Issued = nextId /\ Issued \in Int
<1>1. index[id] \in Places /\ index[id].symbol \in Symbols
  BY DEF IInv, TypeOK, Places
<1>2. Issued = nextId /\ Issued \in Int
  BY BookAssumption DEF IInv, TypeOK, Issued
<1>3. Sound(books, Issued, index) /\ Uncrossed(books) /\ BooksOK(books)
  BY SoundIsInvariant DEF IInv, TypeOK
<1> QED BY <1>1, <1>2, <1>3, CreateBook

\* Unindexing an id leaves a well-formed index.
LEMMA UnindexOK ==
    ASSUME IInv, NEW id
    PROVE  /\ DOMAIN Unindex(id) = DOMAIN index \ {id}
           /\ \A i \in DOMAIN Unindex(id) : Unindex(id)[i] = index[i]
           /\ Unindex(id) \in [DOMAIN Unindex(id) -> Places]
BY DEF IInv, TypeOK, Unindex

LEMMA CancelStaleIInv ==
    ASSUME IInv, NEW id \in 1..MaxOrders, CancelStale(id)
    PROVE  IInv'
<1> DEFINE at == index[id]
           all == GetOrCreateBook(at.symbol)
<1>1. /\ id \in DOMAIN index /\ call = NoCall
      /\ books' = all /\ index' = Unindex(id)
      /\ PlacesOf(LevelAt(all[at.symbol][at.side], at.px), id) = {}
      /\ UNCHANGED <<nextId, netQty, call>> /\ ret' \in Returns
  BY BookAssumption DEF CancelStale, Returns
<1>2. /\ at \in Places /\ BooksOK(all) /\ Sound(all, Issued, index)
      /\ Uncrossed(all) /\ Issued = nextId
  BY <1>1, CancelContext
<1> HIDE DEF all
<1>3. Sound(all, Issued, Unindex(id))
  <2>0. SUFFICES ASSUME NEW t \in DOMAIN all, NEW e \in Side, NEW q \in DOMAIN all[t][e],
                        NEW i \in IdsOf(all[t][e][q])
                 PROVE  i # id
    <3>1. ASSUME NEW t \in DOMAIN all, NEW e \in Side, NEW q \in DOMAIN all[t][e],
                 NEW i \in IdsOf(all[t][e][q]), i # id
          PROVE  i \in DOMAIN Unindex(id) /\ Unindex(id)[i] = Place(t, e, q)
      BY <1>2, <3>1, UnindexOK DEF Sound
    <3> QED BY <1>2, <3>1 DEF Sound
  <2>1. index[i] = Place(t, e, q)
    BY <1>2 DEF Sound
  <2>2. PICK k \in DOMAIN all[t][e][q] : all[t][e][q][k].id = i
    BY DEF IdsOf
  <2>3. ASSUME i = id PROVE FALSE
    <3>1. at.symbol = t /\ at.side = e /\ at.px = q
      BY <2>1, <2>3 DEF Place
    <3>2. k \in PlacesOf(LevelAt(all[at.symbol][at.side], at.px), id)
      BY <2>2, <2>3, <3>1 DEF PlacesOf, LevelAt
    <3> QED BY <1>1, <3>2
  <2> QED BY <2>3
<1>4. (BookSound /\ NotCrossed /\ IndexCoversBook)'
  <2>1. Issued' = Issued
    BY <1>1 DEF Issued
  <2> QED BY <1>1, <1>2, <1>3, <2>1, SoundIsInvariantNext
<1>5. TypeOK'
  BY <1>1, <1>2, UnindexOK DEF IInv, TypeOK
<1>6. IdsFresh'
  BY <1>1, UnindexOK DEF IInv, IdsFresh, Issued
<1> QED BY <1>4, <1>5, <1>6 DEF IInv

LEMMA CancelRestingIInv ==
    ASSUME IInv, NEW id \in 1..MaxOrders, CancelResting(id)
    PROVE  IInv'
<1> DEFINE s == index[id].symbol
           d == index[id].side
           p == index[id].px
           all == GetOrCreateBook(s)
           queue == LevelAt(all[s][d], p)
<1>1. /\ id \in DOMAIN index /\ call = NoCall /\ index' = Unindex(id)
      /\ UNCHANGED <<nextId, netQty, call>> /\ ret' \in Returns
  BY BookAssumption DEF CancelResting, Returns
<1>2. PICK k \in PlacesOf(queue, id) :
        books' = [all EXCEPT ![s][d] = SettleLevel(all[s][d], p, RemoveAt(queue, k))]
  BY DEF CancelResting
<1>3. /\ index[id] \in Places /\ BooksOK(all) /\ Sound(all, Issued, index)
      /\ Uncrossed(all) /\ s \in DOMAIN all /\ Issued = nextId /\ Issued \in Int
  BY <1>1, CancelContext
<1>4. s \in DOMAIN all /\ d \in Side /\ index[id] = Place(s, d, p)
  BY <1>3 DEF Places, Place
<1> HIDE DEF all, s, d
<1>5. p \in DOMAIN all[s][d] /\ queue = all[s][d][p] /\ k \in DOMAIN queue
      /\ queue[k].id = id
  BY <1>2 DEF PlacesOf, LevelAt
<1> HIDE DEF p, queue
<1>6. queue \in Seq(Resting) /\ QueueSound(queue, Issued)
  BY <1>3, <1>4, <1>5 DEF BooksOK, BookOK, LevelsOK, Sound
<1> DEFINE less == RemoveAt(queue, k)
<1>7. /\ less \in Seq(Resting) /\ IdsOf(less) \subseteq IdsOf(queue) \ {id}
      /\ less # <<>> => QueueSound(less, Issued)
  BY <1>3, <1>5, <1>6, RemoveAtSound
<1> HIDE DEF less
<1>8. \A i \in DOMAIN index :
        \/ i \in DOMAIN Unindex(id) /\ Unindex(id)[i] = index[i]
        \/ i \notin IdsOf(less) /\ index[i] = Place(s, d, p)
  BY <1>4, <1>7, UnindexOK
<1> DEFINE new == [all EXCEPT ![s][d] = SettleLevel(all[s][d], p, less)]
<1>9. /\ BooksOK(new) /\ Sound(new, Issued, Unindex(id)) /\ Uncrossed(new)
      /\ DOMAIN new = DOMAIN all
  <2>1. IdsOf(less) \subseteq IdsOf(all[s][d][p]) /\ p \in DOMAIN all[s][d]
    BY <1>5, <1>7
  <2> QED BY ONLY <1>3, <1>4, <1>7, <1>8, <2>1, ShrinkQueue
<1>10. books' = new
  BY <1>2 DEF less
<1> HIDE DEF new
<1>11. (BookSound /\ NotCrossed /\ IndexCoversBook)'
  <2>1. Issued' = Issued
    BY <1>1 DEF Issued
  <2> QED BY <1>1, <1>9, <1>10, <2>1, SoundIsInvariantNext
<1>12. TypeOK'
  BY <1>1, <1>9, <1>10, UnindexOK DEF IInv, TypeOK
<1>13. IdsFresh'
  BY <1>1, UnindexOK DEF IInv, IdsFresh, Issued
<1> QED BY <1>11, <1>12, <1>13 DEF IInv

LEMMA NextIInv == IInv /\ [Next]_vars => IInv'
<1> SUFFICES ASSUME IInv, [Next]_vars PROVE IInv'
  OBVIOUS
<1>1. CASE AddOrder
  BY <1>1, RejectIInv, AcceptIInv DEF AddOrder
<1>2. CASE MatchStep
  BY <1>2, MatchIInv
<1>3. CASE Rest
  BY <1>3, RestIInv
<1>4. CASE \E id \in 1..MaxOrders : CancelOrder(id)
  BY <1>4, CancelUnknownIInv, CancelStaleIInv, CancelRestingIInv DEF CancelOrder
<1>5. CASE UNCHANGED vars
  BY <1>5 DEF vars, IInv, TypeOK, BookSound, NotCrossed, IndexCoversBook, IdsFresh, Issued
<1> QED BY <1>1, <1>2, <1>3, <1>4, <1>5 DEF Next

\* The inductive invariant holds in every reachable state of the engine.
THEOREM Invariance == Spec => []IInv
BY InitIInv, NextIInv, PTL DEF Spec

-----------------------------------------------------------------------------
(* The properties                                                          *)

\* Every variable of the engine keeps its type, for any parameters.
THEOREM TypeCorrect == Spec => []TypeOK
<1>1. IInv => TypeOK
  BY DEF IInv
<1> QED BY <1>1, Invariance, PTL

\* addOrder and cancelOrder keep the levels well formed at every iteration.
THEOREM BookStaysSound == Spec => []BookSound
<1>1. IInv => BookSound
  BY DEF IInv
<1> QED BY <1>1, Invariance, PTL

\* No sequence of addOrder and cancelOrder calls leaves a crossed book.
THEOREM NeverCrossed == Spec => []NotCrossed
<1>1. IInv => NotCrossed
  BY DEF IInv
<1> QED BY <1>1, Invariance, PTL

\* The index leads to every resting order.
THEOREM IndexCovers == Spec => []IndexCoversBook
<1>1. IInv => IndexCoversBook
  BY DEF IInv
<1> QED BY <1>1, Invariance, PTL

-----------------------------------------------------------------------------
(* The flat set of open orders                                             *)

InQueue(r, queue) == \E i \in DOMAIN queue : r = queue[i]

\* The open order that r is where it rests
Entry(s, d, p, r) == [id |-> r.id, symbol |-> s, side |-> d, px |-> p, qty |-> r.qty]

IsAt(o, s, d, p) == o.symbol = s /\ o.side = d /\ o.px = p

IsOpen(o, all) ==
    \E s \in DOMAIN all, d \in Side : \E p \in DOMAIN all[s][d] :
        \E r : InQueue(r, all[s][d][p]) /\ o = Entry(s, d, p, r)

\* OpenOrders is every order of every level, under its place in the book.
LEMMA OpenMembers == TypeOK => \A o : o \in OpenOrders <=> IsOpen(o, books)
<1> SUFFICES ASSUME TypeOK, NEW o PROVE o \in OpenOrders <=> IsOpen(o, books)
  OBVIOUS
<1>1. ASSUME o \in OpenOrders PROVE IsOpen(o, books)
  <2>1. PICK at \in LevelPlaces : o \in OpenAt(at)
    BY <1>1 DEF OpenOrders
  <2>2. /\ at \in Places /\ at.symbol \in DOMAIN books /\ at.side \in Side
        /\ at.px \in DOMAIN books[at.symbol][at.side]
    BY <2>1 DEF LevelPlaces, Places
  <2>3. PICK r \in Range(books[at.symbol][at.side][at.px]) :
          o = Entry(at.symbol, at.side, at.px, r)
    BY <2>1 DEF OpenAt, Entry
  <2>4. InQueue(r, books[at.symbol][at.side][at.px])
    BY <2>3 DEF InQueue, Range
  <2> QED BY <2>2, <2>3, <2>4 DEF IsOpen
<1>2. ASSUME IsOpen(o, books) PROVE o \in OpenOrders
  <2>1. PICK s \in DOMAIN books, d \in Side : \E p \in DOMAIN books[s][d] :
          \E r : InQueue(r, books[s][d][p]) /\ o = Entry(s, d, p, r)
    BY <1>2 DEF IsOpen
  <2>2. PICK p \in DOMAIN books[s][d] :
          \E r : InQueue(r, books[s][d][p]) /\ o = Entry(s, d, p, r)
    BY <2>1
  <2>3. PICK r : InQueue(r, books[s][d][p]) /\ o = Entry(s, d, p, r)
    BY <2>2
  <2>4. s \in Symbols /\ p \in Prices
    BY DEF TypeOK, BooksOK, BookOK, LevelsOK
  <2> DEFINE at == Place(s, d, p)
  <2>5. at \in LevelPlaces /\ at.symbol = s /\ at.side = d /\ at.px = p
    BY <2>4 DEF LevelPlaces, Places, Place
  <2> HIDE DEF at
  <2>6. r \in Range(books[at.symbol][at.side][at.px])
    BY <2>3, <2>5 DEF InQueue, Range
  <2>7. o \in OpenAt(at)
    BY <2>3, <2>5, <2>6 DEF OpenAt, Entry
  <2> QED BY <2>5, <2>7 DEF OpenOrders
<1> QED BY <1>1, <1>2

LEMMA OpenMembersNext == TypeOK' => \A o : o \in OpenOrders' <=> IsOpen(o, books')
<1>1. (TypeOK => \A o : o \in OpenOrders <=> IsOpen(o, books))'
  BY OpenMembers, PTL
<1> QED BY <1>1

LEMMA EntryFields ==
    ASSUME NEW s, NEW d, NEW p, NEW r
    PROVE  /\ Entry(s, d, p, r).id = r.id /\ Entry(s, d, p, r).qty = r.qty
           /\ Entry(s, d, p, r).symbol = s /\ Entry(s, d, p, r).side = d
           /\ Entry(s, d, p, r).px = p /\ IsAt(Entry(s, d, p, r), s, d, p)
BY DEF Entry, IsAt

\* The open orders of one place are those of its queue.
LEMMA OpenAtPlace ==
    ASSUME NEW all, NEW s \in DOMAIN all, NEW d \in Side, NEW p \in DOMAIN all[s][d],
           NEW o, IsAt(o, s, d, p)
    PROVE  IsOpen(o, all) <=> \E r : InQueue(r, all[s][d][p]) /\ o = Entry(s, d, p, r)
<1>1. ASSUME IsOpen(o, all)
      PROVE  \E r : InQueue(r, all[s][d][p]) /\ o = Entry(s, d, p, r)
  <2>1. PICK t \in DOMAIN all, e \in Side : \E q \in DOMAIN all[t][e] :
          \E r : InQueue(r, all[t][e][q]) /\ o = Entry(t, e, q, r)
    BY <1>1 DEF IsOpen
  <2>2. PICK q, r : q \in DOMAIN all[t][e] /\ InQueue(r, all[t][e][q]) /\ o = Entry(t, e, q, r)
    BY <2>1
  <2>3. t = s /\ e = d /\ q = p
    BY <2>2, EntryFields DEF IsAt
  <2> QED BY <2>2, <2>3
<1> QED BY <1>1 DEF IsOpen

SameElsewhere(new, all, s, d, p) ==
    \A t \in DOMAIN all, e \in Side : \A q :
        ~(t = s /\ e = d /\ q = p) =>
            /\ q \in DOMAIN new[t][e] <=> q \in DOMAIN all[t][e]
            /\ q \in DOMAIN all[t][e] => new[t][e][q] = all[t][e][q]

LevelIs(new, s, d, p, queue) ==
    /\ p \in DOMAIN new[s][d] => new[s][d][p] = queue
    /\ p \notin DOMAIN new[s][d] => \A r : ~InQueue(r, queue)

\* When one level changes, the open orders of that place do, and no others.
LEMMA OneLevelChanges ==
    ASSUME NEW all, NEW new, DOMAIN new = DOMAIN all,
           NEW s \in DOMAIN all, NEW d \in Side, NEW p, NEW queue,
           SameElsewhere(new, all, s, d, p), LevelIs(new, s, d, p, queue),
           NEW o
    PROVE  IsOpen(o, new) <=>
              \/ IsOpen(o, all) /\ ~IsAt(o, s, d, p)
              \/ \E r : InQueue(r, queue) /\ o = Entry(s, d, p, r)
<1>1. ASSUME IsOpen(o, new)
      PROVE  \/ IsOpen(o, all) /\ ~IsAt(o, s, d, p)
             \/ \E r : InQueue(r, queue) /\ o = Entry(s, d, p, r)
  <2>1. PICK t \in DOMAIN new, e \in Side : \E q \in DOMAIN new[t][e] :
          \E r : InQueue(r, new[t][e][q]) /\ o = Entry(t, e, q, r)
    BY <1>1 DEF IsOpen
  <2>2. PICK q, r : q \in DOMAIN new[t][e] /\ InQueue(r, new[t][e][q]) /\ o = Entry(t, e, q, r)
    BY <2>1
  <2>3. CASE t = s /\ e = d /\ q = p
    BY <2>2, <2>3 DEF LevelIs
  <2>4. CASE ~(t = s /\ e = d /\ q = p)
    <3>1. t \in DOMAIN all /\ q \in DOMAIN all[t][e] /\ new[t][e][q] = all[t][e][q]
      BY <2>2, <2>4 DEF SameElsewhere
    <3>2. IsOpen(o, all)
      BY <2>2, <3>1 DEF IsOpen
    <3>3. ~IsAt(o, s, d, p)
      BY <2>2, <2>4, EntryFields DEF IsAt
    <3> QED BY <3>2, <3>3
  <2> QED BY <2>3, <2>4
<1>2. ASSUME IsOpen(o, all), ~IsAt(o, s, d, p) PROVE IsOpen(o, new)
  <2>1. PICK t \in DOMAIN all, e \in Side : \E q \in DOMAIN all[t][e] :
          \E r : InQueue(r, all[t][e][q]) /\ o = Entry(t, e, q, r)
    BY <1>2 DEF IsOpen
  <2>2. PICK q, r : q \in DOMAIN all[t][e] /\ InQueue(r, all[t][e][q]) /\ o = Entry(t, e, q, r)
    BY <2>1
  <2>3. ~(t = s /\ e = d /\ q = p)
    BY <1>2, <2>2, EntryFields
  <2>4. t \in DOMAIN new /\ q \in DOMAIN new[t][e] /\ new[t][e][q] = all[t][e][q]
    BY <2>2, <2>3 DEF SameElsewhere
  <2> QED BY <2>2, <2>4 DEF IsOpen
<1>3. ASSUME NEW r, InQueue(r, queue), o = Entry(s, d, p, r) PROVE IsOpen(o, new)
  <2>1. p \in DOMAIN new[s][d] /\ new[s][d][p] = queue
    BY <1>3 DEF LevelIs
  <2> QED BY <1>3, <2>1 DEF IsOpen
<1> QED BY <1>1, <1>2, <1>3

\* The books with one level settled, and with one order pushed back
Settled(all, s, d, p, queue) == [all EXCEPT ![s][d] = SettleLevel(all[s][d], p, queue)]

Pushed(all, s, d, p, order) == [all EXCEPT ![s][d] = PushBack(all[s][d], p, order)]

\* A level that is settled holds the queue it was given, and no other changes.
LEMMA SettleOpens ==
    ASSUME NEW all, BooksOK(all), NEW s \in DOMAIN all, NEW d \in Side,
           NEW p \in Prices, NEW queue \in Seq(Resting), NEW o
    PROVE  IsOpen(o, Settled(all, s, d, p, queue)) <=>
              \/ IsOpen(o, all) /\ ~IsAt(o, s, d, p)
              \/ \E r : InQueue(r, queue) /\ o = Entry(s, d, p, r)
<1> DEFINE old == all[s][d]
           levels == SettleLevel(old, p, queue)
           new == [all EXCEPT ![s][d] = levels]
<1>1. LevelsOK(old)
  BY DEF BooksOK, BookOK
<1>2. /\ LevelsOK(levels)
      /\ DOMAIN levels = IF queue = <<>> THEN DOMAIN old \ {p} ELSE DOMAIN old \cup {p}
      /\ \A q \in DOMAIN levels : levels[q] = IF q = p THEN queue ELSE old[q]
  BY <1>1 DEF LevelsOK, SettleLevel, PutLevel
<1>3. queue = <<>> => \A r : ~InQueue(r, queue)
  BY DEF InQueue
<1> HIDE DEF levels
<1>4. /\ BooksOK(new) /\ DOMAIN new = DOMAIN all
      /\ \A t \in DOMAIN all, e \in Side :
            new[t][e] = IF t = s /\ e = d THEN levels ELSE all[t][e]
  BY ONLY BooksOK(all), s \in DOMAIN all, d \in Side, <1>2, ReplaceSide
<1> HIDE DEF new
<1>5. SameElsewhere(new, all, s, d, p)
  BY <1>2, <1>4 DEF SameElsewhere
<1>6. LevelIs(new, s, d, p, queue)
  BY <1>2, <1>3, <1>4 DEF LevelIs
<1>7. IsOpen(o, new) <=>
        \/ IsOpen(o, all) /\ ~IsAt(o, s, d, p)
        \/ \E r : InQueue(r, queue) /\ o = Entry(s, d, p, r)
  BY <1>4, <1>5, <1>6, OneLevelChanges
<1> QED BY <1>7 DEF new, levels, Settled

\* An order that is pushed back is open where it rests, and no other changes.
LEMMA PushBackOpens ==
    ASSUME NEW all, BooksOK(all), NEW s \in DOMAIN all, NEW d \in Side,
           NEW p \in Prices, NEW order \in Resting, NEW o
    PROVE  IsOpen(o, Pushed(all, s, d, p, order)) <=>
              IsOpen(o, all) \/ o = Entry(s, d, p, order)
<1> DEFINE old == all[s][d]
           levels == PushBack(old, p, order)
           new == [all EXCEPT ![s][d] = levels]
           queue == LevelAt(old, p)
<1>1. LevelsOK(old) /\ queue \in Seq(Resting)
  BY DEF BooksOK, BookOK, LevelsOK, LevelAt
<1>2. /\ LevelsOK(levels) /\ DOMAIN levels = DOMAIN old \cup {p}
      /\ \A q \in DOMAIN levels :
            levels[q] = IF q = p THEN Append(queue, order) ELSE old[q]
  BY <1>1, PushBackOK
<1> HIDE DEF levels
<1>3. /\ BooksOK(new) /\ DOMAIN new = DOMAIN all
      /\ \A t \in DOMAIN all, e \in Side :
            new[t][e] = IF t = s /\ e = d THEN levels ELSE all[t][e]
  BY ONLY BooksOK(all), s \in DOMAIN all, d \in Side, <1>2, ReplaceSide
<1> HIDE DEF new
<1>4. \A r : InQueue(r, Append(queue, order)) <=> InQueue(r, queue) \/ r = order
  <2> HIDE DEF queue
  <2> DEFINE more == Append(queue, order)
  <2>1. /\ Len(queue) \in Nat /\ DOMAIN queue = 1..Len(queue)
        /\ DOMAIN more = 1..(Len(queue) + 1) /\ more[Len(queue) + 1] = order
        /\ \A i \in 1..Len(queue) : more[i] = queue[i]
    BY <1>1
  <2> HIDE DEF more
  <2>2. ASSUME NEW r PROVE InQueue(r, more) <=> InQueue(r, queue) \/ r = order
    BY <2>1 DEF InQueue
  <2> QED BY <2>2 DEF more
<1>5. SameElsewhere(new, all, s, d, p)
  BY <1>2, <1>3 DEF SameElsewhere
<1>6. LevelIs(new, s, d, p, Append(queue, order))
  BY <1>2, <1>3 DEF LevelIs
<1>7. IsOpen(o, new) <=>
        \/ IsOpen(o, all) /\ ~IsAt(o, s, d, p)
        \/ \E r : InQueue(r, Append(queue, order)) /\ o = Entry(s, d, p, r)
  BY <1>3, <1>5, <1>6, OneLevelChanges
<1>8. (\E r : InQueue(r, queue) /\ o = Entry(s, d, p, r)) <=> IsOpen(o, all) /\ IsAt(o, s, d, p)
  <2>1. CASE p \in DOMAIN old
    BY <2>1, OpenAtPlace, EntryFields DEF LevelAt
  <2>2. CASE p \notin DOMAIN old
    <3>1. \A r : ~InQueue(r, queue)
      BY <2>2 DEF LevelAt, InQueue
    <3>2. ~(IsOpen(o, all) /\ IsAt(o, s, d, p))
      BY <2>2, EntryFields DEF IsOpen, IsAt
    <3> QED BY <3>1, <3>2
  <2> QED BY <2>1, <2>2
<1> HIDE DEF queue
<1>9. IsAt(Entry(s, d, p, order), s, d, p)
  BY EntryFields
<1>10. IsOpen(o, new) <=> IsOpen(o, all) \/ o = Entry(s, d, p, order)
  BY <1>4, <1>7, <1>8, <1>9
<1> QED BY <1>10 DEF new, levels, queue, Pushed

\* getOrCreateBook opens no order and closes none.
LEMMA CreateOpens ==
    ASSUME NEW s, NEW o
    PROVE  IsOpen(o, GetOrCreateBook(s)) <=> IsOpen(o, books)
<1> DEFINE all == GetOrCreateBook(s)
<1>1. CASE s \in DOMAIN books
  BY <1>1 DEF GetOrCreateBook
<1>2. CASE s \notin DOMAIN books
  <2>1. all = [t \in DOMAIN books \cup {s} |-> IF t = s THEN EmptyBook ELSE books[t]]
    BY <1>2 DEF GetOrCreateBook
  <2>2. \A d \in Side : DOMAIN EmptyBook[d] = {}
    BY DEF EmptyBook, NoLevels
  <2> HIDE DEF all
  <2>3. /\ \A t \in DOMAIN books : t \in DOMAIN all /\ all[t] = books[t]
        /\ \A t \in DOMAIN all, d \in Side :
              DOMAIN all[t][d] # {} => t \in DOMAIN books /\ all[t] = books[t]
    BY <1>2, <2>1, <2>2
  <2>4. IsOpen(o, all) <=> IsOpen(o, books)
    BY <2>3 DEF IsOpen
  <2> QED BY <2>4 DEF all
<1> QED BY <1>1, <1>2

\* What filling the head leaves: the head with less, or without it.
LEMMA FillHeadLeaves ==
    ASSUME NEW queue \in Seq(Resting), NEW bound \in Int, QueueSound(queue, bound),
           NEW traded \in Int, 0 < traded, traded <= queue[1].qty, NEW r
    PROVE  InQueue(r, FillHead(queue, traded)) <=>
              \/ InQueue(r, queue) /\ r # queue[1]
              \/ traded < queue[1].qty /\ r = [queue[1] EXCEPT !.qty = @ - traded]
<1> DEFINE left == queue[1].qty - traded
           rest == FillHead(queue, traded)
<1>1. /\ Len(queue) \in Nat /\ Len(queue) > 0 /\ Head(queue) = queue[1]
      /\ DOMAIN queue = 1..Len(queue)
      /\ \A i \in 1..Len(queue) : queue[i] \in Resting /\ queue[i].id \in Int
  BY EmptySeq, LenProperties, QueueElements DEF QueueSound
<1>2. \A i \in 2..Len(queue) : queue[i] # queue[1]
  BY <1>1 DEF QueueSound
<1>3. queue[1].qty \in Int /\ left \in Int
  BY <1>1, QueueElements
<1>4. CASE left <= 0
  <2>1. rest = Tail(queue)
    BY <1>1, <1>4 DEF FillHead
  <2>2. DOMAIN rest = 1..(Len(queue) - 1) /\ \A i \in 1..(Len(queue) - 1) : rest[i] = queue[i + 1]
    BY <1>1, <2>1
  <2> HIDE DEF rest
  <2>3. InQueue(r, rest) => InQueue(r, queue) /\ r # queue[1]
    <3> SUFFICES ASSUME NEW i \in 1..(Len(queue) - 1), r = rest[i]
                 PROVE  InQueue(r, queue) /\ r # queue[1]
      BY <2>2 DEF InQueue
    <3>1. r = queue[i + 1] /\ i + 1 \in 2..Len(queue)
      BY <1>1, <2>2
    <3> QED BY <1>1, <1>2, <3>1 DEF InQueue
  <2>4. InQueue(r, queue) /\ r # queue[1] => InQueue(r, rest)
    <3> SUFFICES ASSUME NEW i \in 1..Len(queue), r = queue[i], r # queue[1]
                 PROVE  InQueue(r, rest)
      BY <1>1 DEF InQueue
    <3>1. i - 1 \in 1..(Len(queue) - 1) /\ (i - 1) + 1 = i
      BY <1>1
    <3>2. rest[i - 1] = r
      BY <2>2, <3>1
    <3> QED BY <2>2, <3>1, <3>2 DEF InQueue
  <2>5. ~(traded < queue[1].qty)
    BY <1>3, <1>4
  <2> QED BY <2>3, <2>4, <2>5 DEF rest
<1>5. CASE ~(left <= 0)
  <2>1. rest = [queue EXCEPT ![1].qty = left]
    BY <1>1, <1>5 DEF FillHead
  <2> DEFINE head == [queue[1] EXCEPT !.qty = left]
  <2>2. rest = [i \in 1..Len(queue) |-> IF i = 1 THEN head ELSE queue[i]]
    BY <1>1, <2>1
  <2>3. traded < queue[1].qty /\ head = [queue[1] EXCEPT !.qty = @ - traded]
    BY <1>3, <1>5
  <2> HIDE DEF rest, head
  <2>4. InQueue(r, rest) <=> r = head \/ \E i \in 2..Len(queue) : r = queue[i]
    BY <1>1, <2>2 DEF InQueue
  <2>5. InQueue(r, queue) /\ r # queue[1] <=> \E i \in 2..Len(queue) : r = queue[i]
    BY <1>1, <1>2 DEF InQueue
  <2> QED BY <2>3, <2>4, <2>5 DEF rest
<1> QED BY <1>4, <1>5

\* What RemoveAt leaves: every order but the one with that id.
LEMMA RemoveAtLeaves ==
    ASSUME NEW queue \in Seq(Resting), NEW bound \in Int, QueueSound(queue, bound),
           NEW k \in DOMAIN queue, NEW r
    PROVE  InQueue(r, RemoveAt(queue, k)) <=> InQueue(r, queue) /\ r.id # queue[k].id
<1> DEFINE rest == RemoveAt(queue, k)
           from(i) == IF i < k THEN i ELSE i + 1
<1>1. /\ Len(queue) \in Nat /\ k \in 1..Len(queue) /\ DOMAIN queue = 1..Len(queue)
      /\ \A i \in 1..Len(queue) : queue[i] \in Resting /\ queue[i].id \in Int
  BY QueueElements
<1>2. /\ DOMAIN rest = 1..(Len(queue) - 1)
      /\ \A i \in 1..(Len(queue) - 1) : rest[i] = queue[from(i)]
  BY RemoveAtElements
<1> HIDE DEF rest
<1>3. \A i, j \in 1..Len(queue) : i # j => queue[i].id # queue[j].id
  BY <1>1 DEF QueueSound
<1>4. InQueue(r, rest) => InQueue(r, queue) /\ r.id # queue[k].id
  <2> SUFFICES ASSUME NEW i \in 1..(Len(queue) - 1), r = rest[i]
               PROVE  InQueue(r, queue) /\ r.id # queue[k].id
    BY <1>2 DEF InQueue
  <2>1. r = queue[from(i)] /\ from(i) \in 1..Len(queue) /\ from(i) # k
    BY <1>1, <1>2
  <2> QED BY <1>1, <1>3, <2>1 DEF InQueue
<1>5. InQueue(r, queue) /\ r.id # queue[k].id => InQueue(r, rest)
  <2> SUFFICES ASSUME NEW i \in 1..Len(queue), r = queue[i], r.id # queue[k].id
               PROVE  InQueue(r, rest)
    BY <1>1 DEF InQueue
  <2>1. CASE i < k
    <3>1. i \in 1..(Len(queue) - 1) /\ from(i) = i
      BY <1>1, <2>1
    <3> QED BY <1>2, <3>1 DEF InQueue
  <2>2. CASE ~(i < k)
    <3>1. i - 1 \in 1..(Len(queue) - 1) /\ from(i - 1) = i
      <4>1. i > k
        BY <1>1, <2>2
      <4> QED BY <1>1, <4>1
    <3>2. rest[i - 1] = queue[i]
      BY <1>2, <3>1
    <3> QED BY <1>2, <3>1, <3>2 DEF InQueue
  <2> QED BY <2>1, <2>2
<1> QED BY <1>4, <1>5 DEF rest

-----------------------------------------------------------------------------
(* Refinement of PriceTimeBook                                             *)

\* addOrder and checkOrder admit what the abstract book admits at the gate's
\* position.
LEMMA AcceptedIsAdmissible ==
    ASSUME NEW symbol \in Symbols, NEW side \in Side, NEW qty \in Int
    PROVE  Accepted(symbol, side, qty) <=> Abstract!Admissible(symbol, side, qty)
<1>1. Signed(side, qty) = IF side = "Bid" THEN qty ELSE -qty
  BY DEF Signed
<1>2. Abstract!After(symbol, side, qty) = netQty[symbol] + Signed(side, qty)
  BY <1>1 DEF Abstract!After
<1> QED BY <1>2 DEF Accepted, CheckOrder, Abstract!Admissible

\* The level the running call is to trade with
LEMMA MatchContext ==
    ASSUME IInv, MatchStep
    PROVE  LET s == call.symbol
               opp == Opposite(call.side)
               levels == books[s][opp]
               best == BestPrice(opp, levels)
               queue == levels[best]
               traded == TradedQty(Head(queue).qty, call.remaining)
           IN /\ s \in DOMAIN books /\ opp \in Side /\ best \in DOMAIN levels
              /\ call.remaining \in Nat /\ best \in Prices
              /\ DOMAIN levels \subseteq Prices
              /\ \A q \in DOMAIN levels : q = best \/ Precedes(opp, best, q)
              /\ queue \in Seq(Resting) /\ QueueSound(queue, Issued) /\ Issued \in Int
              /\ Head(queue) = queue[1] /\ 1 \in DOMAIN queue
              /\ traded \in Nat /\ traded > 0
              /\ traded <= queue[1].qty /\ traded <= call.remaining
              /\ traded = queue[1].qty \/ traded = call.remaining
              /\ queue[1].qty \in Nat
<1> DEFINE s == call.symbol
           opp == Opposite(call.side)
           levels == books[s][opp]
           best == BestPrice(opp, levels)
           queue == levels[best]
<1>1. /\ call \in Calls /\ s \in DOMAIN books
      /\ opp \in Side /\ call.remaining \in Nat /\ call.remaining > 0
  BY DEF IInv, MatchStep, CanMatch, TypeOK, Calls, IdsFresh, Opposite, Side
<1>2. LevelsOK(levels) /\ DOMAIN levels # {} /\ DOMAIN levels \subseteq Prices
  BY <1>1 DEF IInv, TypeOK, BooksOK, BookOK, LevelsOK, MatchStep, CanMatch
<1>3. best \in DOMAIN levels /\ \A q \in DOMAIN levels : q = best \/ Precedes(opp, best, q)
  BY <1>1, <1>2, BestPriceIsBest
<1>4. queue \in Seq(Resting) /\ QueueSound(queue, Issued)
  BY <1>1, <1>2, <1>3 DEF IInv, BookSound, LevelsOK
<1>5. Issued \in Int
  BY BookAssumption DEF IInv, TypeOK, Issued, Calls
<1> HIDE DEF queue
<1>6. Head(queue) = queue[1] /\ 1 \in DOMAIN queue
  BY <1>4, EmptySeq, LenProperties, QueueElements DEF QueueSound
<1>7. queue[1].qty \in Nat /\ queue[1].qty > 0
  BY <1>4, <1>6, QueueElements DEF QueueSound
<1> DEFINE traded == TradedQty(Head(queue).qty, call.remaining)
<1>8. /\ traded \in Nat /\ traded > 0 /\ traded <= queue[1].qty /\ traded <= call.remaining
      /\ traded = queue[1].qty \/ traded = call.remaining
  BY <1>1, <1>6, <1>7 DEF TradedQty, Least
<1> HIDE DEF traded
<1> QED BY <1>1, <1>2, <1>3, <1>4, <1>5, <1>6, <1>7, <1>8 DEF queue, traded

\* onTrade for both sides of a trade leaves the position where it was.
LEMMA NetStaysFlat ==
    ASSUME IInv, NetFlat, [Next]_vars
    PROVE  NetFlat'
<1>1. CASE MatchStep
  <2>1. PICK n : netQty' = netQty \/
                 (/\ n \in Int
                  /\ netQty' = [netQty EXCEPT ![call.symbol] =
                        OnTrade(OnTrade(netQty[call.symbol], call.side, n), Opposite(call.side), n)])
    <3> DEFINE levels == books[call.symbol][Opposite(call.side)]
               n == TradedQty(Head(levels[BestPrice(Opposite(call.side), levels)]).qty, call.remaining)
    <3>1. CASE ~RiskWired
      BY <1>1, <3>1 DEF MatchStep
    <3>2. CASE RiskWired
      <4>1. n \in Int
        BY <1>1, MatchContext
      <4>2. netQty' = [netQty EXCEPT ![call.symbol] =
                          OnTrade(OnTrade(netQty[call.symbol], call.side, n), Opposite(call.side), n)]
        BY <1>1, <3>2 DEF MatchStep
      <4> QED BY <4>1, <4>2
    <3> QED BY <3>1, <3>2
  <2>2. ASSUME n \in Int, call.side \in Side
        PROVE  OnTrade(OnTrade(0, call.side, n), Opposite(call.side), n) = 0
    BY <2>2 DEF OnTrade, Signed, Opposite, Side
  <2>3. call.side \in Side /\ call.symbol \in Symbols /\ netQty \in [Symbols -> Int]
    BY <1>1 DEF IInv, TypeOK, Calls, MatchStep
  <2> QED BY <2>1, <2>2, <2>3 DEF NetFlat
<1>2. CASE ~MatchStep
  <2>1. netQty' = netQty
    BY <1>2 DEF Next, AddOrder, RejectOrder, AcceptOrder, Rest, CancelOrder, CancelUnknown,
                CancelStale, CancelResting, vars
  <2> QED BY <2>1 DEF NetFlat
<1> QED BY <1>1, <1>2

LEMMA RejectRefuses ==
    ASSUME NEW symbol \in Symbols, NEW side \in Side, NEW px \in Prices,
           NEW qty \in OrderQtys, RejectOrder(symbol, side, px, qty)
    PROVE  Abstract!Refuse(symbol, side, qty)
<1>1. ~Abstract!Admissible(symbol, side, qty)
  BY AcceptedIsAdmissible, BookAssumption DEF RejectOrder
<1>2. OpenOrders' = OpenOrders
  BY DEF RejectOrder, OpenOrders, OpenAt, LevelPlaces
<1> QED BY <1>1, <1>2 DEF RejectOrder, Abstract!Refuse

LEMMA AcceptSubmits ==
    ASSUME IInv, IInv', NEW symbol \in Symbols, NEW side \in Side,
           NEW px \in Prices, NEW qty \in OrderQtys, AcceptOrder(symbol, side, px, qty)
    PROVE  Abstract!Submit(symbol, side, px, qty)
<1>1. Abstract!Admissible(symbol, side, qty)
  BY AcceptedIsAdmissible, BookAssumption DEF AcceptOrder
<1>2. OpenOrders' = OpenOrders
  <2>1. \A o : o \in OpenOrders' <=> o \in OpenOrders
    BY OpenMembers, OpenMembersNext, CreateOpens DEF AcceptOrder, IInv
  <2> QED BY <2>1
<1> QED BY <1>1, <1>2 DEF AcceptOrder, Abstract!Submit

\* What CanMatch asks of the best level is that some open order is a candidate.
LEMMA CandidatesAre ==
    ASSUME IInv, call # NoCall, NEW o
    PROVE  o \in Abstract!Candidates <=>
              \E p \in DOMAIN books[call.symbol][Opposite(call.side)] :
                 /\ Crosses(call.side, call.px, p)
                 /\ \E r : /\ InQueue(r, books[call.symbol][Opposite(call.side)][p])
                           /\ o = Entry(call.symbol, Opposite(call.side), p, r)
<1> DEFINE s == call.symbol
           opp == Opposite(call.side)
<1>1. call.side \in Side /\ opp \in Side /\ s \in DOMAIN books
  BY DEF IInv, TypeOK, Calls, IdsFresh, Opposite, Side
<1>2. \A d \in Side : d # call.side <=> d = opp
  BY <1>1 DEF Opposite, Side
<1>3. \A p : Crosses(call.side, call.px, p) <=>
               IF call.side = "Bid" THEN p <= call.px ELSE p >= call.px
  <2>1. \A p : (call.px >= p <=> p <= call.px) /\ (call.px <= p <=> p >= call.px)
    OBVIOUS
  <2> QED BY <2>1 DEF Crosses
<1>4. ASSUME o \in Abstract!Candidates
      PROVE  \E p \in DOMAIN books[s][opp] :
                 /\ Crosses(call.side, call.px, p)
                 /\ \E r : InQueue(r, books[s][opp][p]) /\ o = Entry(s, opp, p, r)
  <2>1. /\ IsOpen(o, books) /\ o.symbol = s /\ o.side # call.side
        /\ IF call.side = "Bid" THEN o.px <= call.px ELSE o.px >= call.px
    BY <1>4, OpenMembers DEF IInv, Abstract!Candidates
  <2>2. PICK t \in DOMAIN books, d \in Side : \E p \in DOMAIN books[t][d] :
          \E r : InQueue(r, books[t][d][p]) /\ o = Entry(t, d, p, r)
    BY <2>1 DEF IsOpen
  <2>3. PICK p, r : p \in DOMAIN books[t][d] /\ InQueue(r, books[t][d][p]) /\ o = Entry(t, d, p, r)
    BY <2>2
  <2>4. o.symbol = t /\ o.side = d /\ o.px = p
    BY <2>3, EntryFields
  <2>5. t = s /\ d = opp /\ Crosses(call.side, call.px, p)
    BY <1>2, <1>3, <2>1, <2>4
  <2> QED BY <2>3, <2>5
<1>5. ASSUME NEW p \in DOMAIN books[s][opp], Crosses(call.side, call.px, p),
             NEW r, InQueue(r, books[s][opp][p]), o = Entry(s, opp, p, r)
      PROVE  o \in Abstract!Candidates
  <2>1. o \in OpenOrders
    BY <1>1, <1>5, OpenMembers DEF IInv, IsOpen
  <2>2. o.symbol = s /\ o.side = opp /\ o.px = p
    BY <1>5, EntryFields
  <2> QED BY <1>1, <1>2, <1>3, <1>5, <2>1, <2>2 DEF Abstract!Candidates
<1> QED BY <1>4, <1>5

\* An iteration of matchBid or matchAsk trades with the best-priced, then
\* oldest, order the limit crosses, all that one of the two has.
LEMMA MatchTrades ==
    ASSUME IInv, IInv', MatchStep
    PROVE  Abstract!Trade
<1> DEFINE s == call.symbol
           opp == Opposite(call.side)
           levels == books[s][opp]
           best == BestPrice(opp, levels)
           queue == levels[best]
           traded == TradedQty(Head(queue).qty, call.remaining)
           less == FillHead(queue, traded)
           maker == Entry(s, opp, best, queue[1])
<1>1. /\ s \in DOMAIN books /\ opp \in Side /\ best \in DOMAIN levels
      /\ call.remaining \in Nat /\ best \in Prices /\ DOMAIN levels \subseteq Prices
      /\ \A q \in DOMAIN levels : q = best \/ Precedes(opp, best, q)
      /\ queue \in Seq(Resting) /\ QueueSound(queue, Issued) /\ Issued \in Int
      /\ Head(queue) = queue[1] /\ 1 \in DOMAIN queue
      /\ traded \in Nat /\ traded > 0
      /\ traded <= queue[1].qty /\ traded <= call.remaining
      /\ traded = queue[1].qty \/ traded = call.remaining
      /\ queue[1].qty \in Nat
  BY MatchContext
<1>2. /\ call # NoCall /\ call.remaining > 0 /\ Crosses(call.side, call.px, best)
      /\ books' = [books EXCEPT ![s][opp] = SettleLevel(levels, best, less)]
      /\ call' = [call EXCEPT !.remaining = @ - traded]
      /\ UNCHANGED <<nextId, ret>>
  BY DEF MatchStep, CanMatch
<1>3. less \in Seq(Resting)
  BY <1>1, FillHeadSound
<1>4. \A r : InQueue(r, less) <=>
               \/ InQueue(r, queue) /\ r # queue[1]
               \/ traded < queue[1].qty /\ r = [queue[1] EXCEPT !.qty = @ - traded]
  <2>1. /\ queue \in Seq(Resting) /\ Issued \in Int /\ QueueSound(queue, Issued)
        /\ traded \in Int /\ 0 < traded /\ traded <= queue[1].qty
    BY <1>1
  <2> HIDE DEF queue, traded
  <2> QED BY <2>1, FillHeadLeaves
<1>5. \A o : IsOpen(o, books') <=>
               \/ IsOpen(o, books) /\ ~IsAt(o, s, opp, best)
               \/ \E r : InQueue(r, less) /\ o = Entry(s, opp, best, r)
  <2>1. BooksOK(books)
    BY DEF IInv, TypeOK
  <2>2. /\ s \in DOMAIN books /\ opp \in Side /\ best \in Prices /\ less \in Seq(Resting)
        /\ books' = Settled(books, s, opp, best, less)
    BY <1>1, <1>2, <1>3 DEF Settled
  <2> HIDE DEF less, best, opp, s
  <2> QED BY <2>1, <2>2, SettleOpens
<1>6. \A o : IsAt(o, s, opp, best) =>
               (IsOpen(o, books) <=> \E r : InQueue(r, queue) /\ o = Entry(s, opp, best, r))
  BY <1>1, OpenAtPlace
<1>7. maker \in Abstract!Candidates
  <2>1. InQueue(queue[1], queue)
    BY <1>1 DEF InQueue
  <2> QED BY <1>1, <1>2, <2>1, CandidatesAre
<1>8. ASSUME NEW o \in Abstract!Candidates
      PROVE  o = maker \/ Abstract!Before(maker, o)
  <2>1. PICK p, r : p \in DOMAIN levels /\ InQueue(r, levels[p]) /\ o = Entry(s, opp, p, r)
    BY <1>2, CandidatesAre
  <2>2. o.px = p /\ maker.px = best /\ maker.side = opp /\ o.id = r.id /\ maker.id = queue[1].id
    BY <2>1, EntryFields
  <2>3. CASE p # best
    <3>1. Precedes(opp, best, p)
      BY <1>1, <2>1, <2>3
    <3> HIDE DEF maker, best
    <3>2. best \in Int /\ p \in Int
      BY <1>1, <2>1, PricesAssumption
    <3> QED BY <1>1, <2>2, <3>1, <3>2 DEF Precedes, Side, Abstract!Before
  <2>4. CASE p = best
    <3>1. PICK i \in DOMAIN queue : r = queue[i]
      BY <2>1, <2>4 DEF InQueue
    <3>2. i = 1 => o = maker
      BY <2>1, <2>4, <3>1
    <3>3. i # 1 => 1 < i
      BY <1>1, QueueElements
    <3>4. 1 < i => queue[1].id < queue[i].id
      BY <1>1 DEF QueueSound
    <3> HIDE DEF maker, queue, best
    <3> QED BY <2>2, <2>4, <3>1, <3>2, <3>3, <3>4 DEF Abstract!Before
  <2> QED BY <2>3, <2>4
<1>9. OpenOrders' = (OpenOrders \ {maker}) \cup
                      IF traded = maker.qty THEN {} ELSE {[maker EXCEPT !.qty = @ - traded]}
  <2>1. \A o : (o \in OpenOrders' <=> IsOpen(o, books')) /\ (o \in OpenOrders <=> IsOpen(o, books))
    BY OpenMembers, OpenMembersNext DEF IInv
  <2>2. queue[1] \in Resting
    BY <1>1, QueueElements
  <2>3. \A r \in Resting : Entry(s, opp, best, r) = maker <=> r = queue[1]
    BY <2>2 DEF Entry, Resting
  <2>4. \A r : InQueue(r, queue) => r \in Resting
    BY <1>1, QueueElements DEF InQueue
  <2>5. /\ maker.qty = queue[1].qty
        /\ [maker EXCEPT !.qty = @ - traded] =
             Entry(s, opp, best, [queue[1] EXCEPT !.qty = @ - traded])
    BY <2>2 DEF Entry, Resting
  <2>6. \A r : IsAt(Entry(s, opp, best, r), s, opp, best)
    BY EntryFields
  <2> DEFINE rest == [queue[1] EXCEPT !.qty = @ - traded]
  <2>7. traded < queue[1].qty <=> traded # queue[1].qty
    BY <1>1
  <2>8. InQueue(queue[1], queue)
    BY <1>1 DEF InQueue
  <2>9. \A r : InQueue(r, less) <=> \/ InQueue(r, queue) /\ r # queue[1]
                                    \/ traded # queue[1].qty /\ r = rest
    BY <1>4, <2>7
  <2> HIDE DEF maker, best, queue, less, traded, opp, s, rest
  <2>10. ASSUME NEW o
         PROVE  IsOpen(o, books') <=>
                  \/ IsOpen(o, books) /\ o # maker
                  \/ traded # queue[1].qty /\ o = Entry(s, opp, best, rest)
    <3>1. CASE ~IsAt(o, s, opp, best)
      <4>1. o # maker /\ o # Entry(s, opp, best, rest)
        BY <2>6, <3>1 DEF maker
      <4>2. \A r : o # Entry(s, opp, best, r)
        BY <2>6, <3>1
      <4> QED BY <1>5, <3>1, <4>1, <4>2
    <3>2. CASE IsAt(o, s, opp, best)
      <4>1. IsOpen(o, books') <=> \E r : InQueue(r, less) /\ o = Entry(s, opp, best, r)
        BY <1>5, <3>2
      <4>2. IsOpen(o, books) <=> \E r : InQueue(r, queue) /\ o = Entry(s, opp, best, r)
        BY <1>6, <3>2
      <4>3. (\E r : InQueue(r, queue) /\ r # queue[1] /\ o = Entry(s, opp, best, r))
              <=> IsOpen(o, books) /\ o # maker
        BY <2>3, <2>4, <4>2
      <4> QED BY <2>9, <4>1, <4>3
    <3> QED BY <3>1, <3>2
  <2>11. \A o : o \in OpenOrders' <=>
                  \/ o \in OpenOrders /\ o # maker
                  \/ traded # maker.qty /\ o = [maker EXCEPT !.qty = @ - traded]
    BY <2>1, <2>5, <2>10 DEF rest
  <2> QED BY <2>11
<1>10. traded \in {maker.qty, call.remaining} /\ traded <= maker.qty
  BY <1>1, EntryFields
<1>11. \A t \in Symbols : t # s => netQty'[t] = netQty[t]
  BY DEF MatchStep, IInv, TypeOK
<1> HIDE DEF traded, maker
<1> QED BY <1>1, <1>2, <1>7, <1>8, <1>9, <1>10, <1>11 DEF Abstract!Trade

\* The code after the loop runs when no candidate is left, or nothing of the
\* order, and what is left of it becomes an open order.
LEMMA RestSettles ==
    ASSUME IInv, IInv', Rest
    PROVE  Abstract!Settle
<1>1. /\ call \in Calls /\ call.symbol \in DOMAIN books /\ call.side \in Side
      /\ call.remaining \in Nat /\ call.px \in Prices /\ call.id \in 1..MaxOrders
      /\ call # NoCall /\ BooksOK(books)
  BY DEF IInv, Rest, TypeOK, Calls, IdsFresh
<1>2. /\ call' = NoCall /\ ret' = [op |-> "add", id |-> call.id, ok |-> TRUE]
      /\ nextId' = nextId /\ netQty' = netQty
  BY DEF Rest
<1>3. CASE call.remaining = 0
  <2>1. OpenOrders' = OpenOrders
    BY <1>3 DEF Rest, OpenOrders, OpenAt, LevelPlaces
  <2> QED BY <1>1, <1>2, <1>3, <2>1 DEF Abstract!Settle
<1>4. CASE call.remaining # 0
  <2> DEFINE opp == Opposite(call.side)
             order == [id |-> call.id, qty |-> call.remaining]
             settled == [id |-> call.id, symbol |-> call.symbol, side |-> call.side,
                         px |-> call.px, qty |-> call.remaining]
  <2>1. \A p \in DOMAIN books[call.symbol][opp] : ~Crosses(call.side, call.px, p)
    <3>1. LevelsOK(books[call.symbol][opp])
      BY <1>1 DEF BooksOK, BookOK, Opposite, Side
    <3>2. call.remaining > 0 /\ ~CanMatch
      BY <1>1, <1>4 DEF Rest
    <3>3. ~(/\ DOMAIN books[call.symbol][opp] # {}
            /\ Crosses(call.side, call.px, BestPrice(opp, books[call.symbol][opp])))
      BY <3>2 DEF CanMatch
    <3> QED BY <1>1, <3>1, <3>3, NoLevelCrosses DEF LevelsOK
  <2>2. Abstract!Candidates = {}
    BY <1>1, <2>1, CandidatesAre
  <2>3. order \in Resting /\ settled = Entry(call.symbol, call.side, call.px, order)
    BY <1>1 DEF Resting, Entry
  <2>4. books' = Pushed(books, call.symbol, call.side, call.px, order)
    BY <1>1, <1>4 DEF Rest, Pushed
  <2> HIDE DEF order, settled
  <2>5. \A o : IsOpen(o, books') <=>
                 IsOpen(o, books) \/ o = Entry(call.symbol, call.side, call.px, order)
    BY <1>1, <2>3, <2>4, PushBackOpens
  <2>6. \A o : (o \in OpenOrders' <=> IsOpen(o, books')) /\ (o \in OpenOrders <=> IsOpen(o, books))
    BY OpenMembers, OpenMembersNext DEF IInv
  <2>7. OpenOrders' = OpenOrders \cup {settled}
    BY <2>3, <2>5, <2>6
  <2> QED BY <1>1, <1>2, <1>4, <2>2, <2>7 DEF Abstract!Settle, settled
<1> QED BY <1>3, <1>4

\* An open order is found under its id.
LEMMA OpenIsIndexed ==
    ASSUME NEW all, NEW bound, NEW idx, Sound(all, bound, idx), NEW o, IsOpen(o, all)
    PROVE  o.id \in DOMAIN idx /\ idx[o.id] = Place(o.symbol, o.side, o.px)
<1>1. PICK s \in DOMAIN all, d \in Side : \E p \in DOMAIN all[s][d] :
        \E r : InQueue(r, all[s][d][p]) /\ o = Entry(s, d, p, r)
  BY DEF IsOpen
<1>2. PICK p, r : p \in DOMAIN all[s][d] /\ InQueue(r, all[s][d][p]) /\ o = Entry(s, d, p, r)
  BY <1>1
<1>3. o.id \in IdsOf(all[s][d][p])
  BY <1>2, EntryFields DEF InQueue, IdsOf
<1>4. o.symbol = s /\ o.side = d /\ o.px = p
  BY <1>2, EntryFields
<1> QED BY <1>2, <1>3, <1>4 DEF Sound

\* cancelOrder answers FALSE only for an id that no open order has.
LEMMA CancelMisses ==
    ASSUME IInv, IInv', NEW id \in 1..MaxOrders, CancelUnknown(id) \/ CancelStale(id)
    PROVE  Abstract!Cancel(id)
<1>1. \A o : (o \in OpenOrders' <=> IsOpen(o, books')) /\ (o \in OpenOrders <=> IsOpen(o, books))
  BY OpenMembers, OpenMembersNext DEF IInv
<1>2. /\ OpenOrders' = OpenOrders
      /\ \A o \in OpenOrders : o.id # id
  <2>1. CASE CancelUnknown(id)
    <3>1. OpenOrders' = OpenOrders
      BY <2>1 DEF CancelUnknown, OpenOrders, OpenAt, LevelPlaces
    <3>2. Sound(books, Issued, index)
      BY SoundIsInvariant DEF IInv
    <3> QED BY <1>1, <2>1, <3>1, <3>2, OpenIsIndexed DEF CancelUnknown
  <2>2. CASE CancelStale(id)
    <3> DEFINE at == index[id]
               all == GetOrCreateBook(at.symbol)
    <3>1. /\ id \in DOMAIN index /\ call = NoCall /\ books' = all
          /\ PlacesOf(LevelAt(all[at.symbol][at.side], at.px), id) = {}
      BY <2>2 DEF CancelStale
    <3>2. at \in Places /\ Sound(all, Issued, index) /\ at.symbol \in DOMAIN all
      BY <3>1, CancelContext
    <3>3. \A o : IsOpen(o, all) <=> IsOpen(o, books)
      BY CreateOpens
    <3> HIDE DEF all
    <3>4. ASSUME NEW o, IsOpen(o, all), o.id = id PROVE FALSE
      <4>1. at = Place(o.symbol, o.side, o.px)
        BY <3>2, <3>4, OpenIsIndexed
      <4>2. PICK s \in DOMAIN all, d \in Side : \E p \in DOMAIN all[s][d] :
              \E r : InQueue(r, all[s][d][p]) /\ o = Entry(s, d, p, r)
        BY <3>4 DEF IsOpen
      <4>3. PICK p, r : p \in DOMAIN all[s][d] /\ InQueue(r, all[s][d][p]) /\ o = Entry(s, d, p, r)
        BY <4>2
      <4>4. r.id = id /\ at.symbol = s /\ at.side = d /\ at.px = p
        BY <3>4, <4>1, <4>3, EntryFields DEF Place
      <4>5. PICK i \in DOMAIN all[s][d][p] : r = all[s][d][p][i]
        BY <4>3 DEF InQueue
      <4>6. i \in PlacesOf(LevelAt(all[at.symbol][at.side], at.px), id)
        BY <4>3, <4>4, <4>5 DEF PlacesOf, LevelAt
      <4> QED BY <3>1, <4>6
    <3> QED BY <1>1, <3>1, <3>3, <3>4
  <2> QED BY <2>1, <2>2
<1>3. {o \in OpenOrders : o.id = id} = {}
  BY <1>2
<1>4. /\ call = NoCall /\ call' = call /\ nextId' = nextId /\ netQty' = netQty
      /\ ret' = [op |-> "cancel", id |-> id, ok |-> FALSE]
  BY DEF CancelUnknown, CancelStale
<1> QED BY <1>2, <1>3, <1>4 DEF Abstract!Cancel

\* An order that cancelOrder takes out is the only open one with that id.
LEMMA CancelTakesOut ==
    ASSUME IInv, IInv', NEW id \in 1..MaxOrders, CancelResting(id)
    PROVE  Abstract!Cancel(id)
<1> DEFINE s == index[id].symbol
           d == index[id].side
           p == index[id].px
           all == GetOrCreateBook(s)
           queue == LevelAt(all[s][d], p)
<1>1. /\ id \in DOMAIN index /\ call = NoCall /\ call' = call /\ nextId' = nextId
      /\ netQty' = netQty /\ ret' = [op |-> "cancel", id |-> id, ok |-> TRUE]
  BY DEF CancelResting
<1>2. PICK k \in PlacesOf(queue, id) :
        books' = [all EXCEPT ![s][d] = SettleLevel(all[s][d], p, RemoveAt(queue, k))]
  BY DEF CancelResting
<1>3. /\ index[id] \in Places /\ BooksOK(all) /\ Sound(all, Issued, index)
      /\ s \in DOMAIN all /\ Issued \in Int
  BY <1>1, CancelContext
<1>4. d \in Side /\ index[id] = Place(s, d, p) /\ p \in Prices
  BY <1>3 DEF Places, Place
<1>5. \A o : IsOpen(o, all) <=> IsOpen(o, books)
  BY CreateOpens
<1> HIDE DEF all, s, d
<1>6. p \in DOMAIN all[s][d] /\ queue = all[s][d][p] /\ k \in DOMAIN queue
      /\ queue[k].id = id
  BY <1>2 DEF PlacesOf, LevelAt
<1> HIDE DEF p, queue
<1>7. queue \in Seq(Resting) /\ QueueSound(queue, Issued)
  BY <1>3, <1>4, <1>6 DEF BooksOK, BookOK, LevelsOK, Sound
<1> DEFINE less == RemoveAt(queue, k)
<1>8. less \in Seq(Resting)
  BY <1>3, <1>6, <1>7, RemoveAtSound
<1>9. \A r : InQueue(r, less) <=> InQueue(r, queue) /\ r.id # id
  BY <1>3, <1>6, <1>7, RemoveAtLeaves
<1>10. books' = Settled(all, s, d, p, less)
  BY <1>2 DEF Settled
<1> HIDE DEF less
<1>11. \A o : IsOpen(o, books') <=>
                \/ IsOpen(o, all) /\ ~IsAt(o, s, d, p)
                \/ \E r : InQueue(r, less) /\ o = Entry(s, d, p, r)
  BY <1>3, <1>4, <1>8, <1>10, SettleOpens
<1>12. ASSUME NEW o
       PROVE  IsOpen(o, books') <=> IsOpen(o, books) /\ o.id # id
  <2>1. CASE ~IsAt(o, s, d, p)
    <3>1. ASSUME IsOpen(o, all), o.id = id PROVE FALSE
      <4>1. index[id] = Place(o.symbol, o.side, o.px)
        BY <1>3, <3>1, OpenIsIndexed
      <4>2. o.symbol = s /\ o.side = d /\ o.px = p
        BY <1>4, <4>1 DEF Place
      <4> QED BY <2>1, <4>2 DEF IsAt
    <3>2. \A r : o # Entry(s, d, p, r)
      BY <2>1, EntryFields
    <3> QED BY <1>5, <1>11, <2>1, <3>1, <3>2
  <2>2. CASE IsAt(o, s, d, p)
    <3>1. IsOpen(o, all) <=> \E r : InQueue(r, queue) /\ o = Entry(s, d, p, r)
      BY <1>3, <1>4, <1>6, <2>2, OpenAtPlace
    <3>2. \A r : o = Entry(s, d, p, r) => o.id = r.id
      BY EntryFields
    <3> QED BY <1>5, <1>9, <1>11, <2>2, <3>1, <3>2
  <2> QED BY <2>1, <2>2
<1>13. \A o : (o \in OpenOrders' <=> IsOpen(o, books')) /\ (o \in OpenOrders <=> IsOpen(o, books))
  BY OpenMembers, OpenMembersNext DEF IInv
<1> DEFINE mine == {o \in OpenOrders : o.id = id}
<1>14. OpenOrders' = OpenOrders \ mine
  BY <1>12, <1>13
<1>15. mine # {}
  <2> DEFINE mark == Entry(s, d, p, queue[k])
  <2>1. mark.id = id
    BY <1>6, EntryFields
  <2>2. IsOpen(mark, all)
    BY <1>3, <1>4, <1>6 DEF IsOpen, InQueue
  <2> HIDE DEF mark
  <2> QED BY <1>5, <1>13, <2>1, <2>2
<1> QED BY <1>1, <1>14, <1>15 DEF Abstract!Cancel

LEMMA InitMaps == Init => Abstract!Init
<1> SUFFICES ASSUME Init PROVE Abstract!Init
  OBVIOUS
<1>1. LevelPlaces = {}
  BY DEF Init, LevelPlaces
<1> QED BY <1>1 DEF Init, Abstract!Init, OpenOrders

\* Every step of the engine is a step of the abstract book, or none.
LEMMA NextMaps ==
    IInv /\ IInv' /\ [Next]_vars => [Abstract!Next]_(Abstract!vars)
<1> SUFFICES ASSUME IInv, IInv', [Next]_vars
             PROVE  [Abstract!Next]_(Abstract!vars)
  OBVIOUS
<1>1. CASE AddOrder
  <2>1. PICK symbol \in Symbols, side \in Side, px \in Prices, qty \in OrderQtys :
          RejectOrder(symbol, side, px, qty) \/ AcceptOrder(symbol, side, px, qty)
    BY <1>1 DEF AddOrder
  <2>2. Abstract!Refuse(symbol, side, qty) \/ Abstract!Submit(symbol, side, px, qty)
    BY <2>1, RejectRefuses, AcceptSubmits
  <2> QED BY <2>2 DEF Abstract!Next, Side
<1>2. CASE MatchStep
  BY <1>2, MatchTrades DEF Abstract!Next
<1>3. CASE Rest
  BY <1>3, RestSettles DEF Abstract!Next
<1>4. CASE \E id \in 1..MaxOrders : CancelOrder(id)
  BY <1>4, CancelMisses, CancelTakesOut DEF CancelOrder, Abstract!Next
<1>5. CASE UNCHANGED vars
  <2>1. OpenOrders' = OpenOrders
    BY <1>5 DEF vars, OpenOrders, OpenAt, LevelPlaces
  <2> QED BY <1>5, <2>1 DEF vars, Abstract!vars
<1> QED BY <1>1, <1>2, <1>3, <1>4, <1>5 DEF Next

\* matchBid and matchAsk report every trade for both of its sides, so the risk
\* gate's positions never move: with any limits and quantities, an order that
\* passes the size limit passes the position limit too.  It is the defect
\* behind PositionLimited of GatedBook.
THEOREM PositionsStayFlat == Spec => []NetFlat
<1>1. Init => NetFlat
  BY DEF Init, NetFlat
<1>2. IInv /\ NetFlat /\ [Next]_vars => NetFlat'
  BY NetStaysFlat
<1> QED BY <1>1, <1>2, Invariance, PTL DEF Spec

\* src/OrderBook.cpp with its levels, queues, index and risk gate implements a
\* flat set of open orders that trade by price, then time: for any symbols,
\* prices, quantities and limits, wired to a gate or not.
THEOREM BookIsPriceTime == Spec => ImplementsPriceTime
BY InitMaps, NextMaps, Invariance, PTL
   DEF Spec, ImplementsPriceTime, Abstract!Spec

(***************************************************************************)
(* No iteration of addOrder's loops is idle: while a call runs, whatever   *)
(* step is taken ends the call or leaves it fewer shares to place, and     *)
(* never fewer than none.  With the fairness of Spec this is why addOrder  *)
(* returns, at whatever prices and quantities.                             *)
(***************************************************************************)
THEOREM EveryIterationUsesUp ==
    Spec => [][call # NoCall =>
                  \/ call' = NoCall
                  \/ call'.remaining \in Nat /\ call'.remaining < call.remaining]_vars
<1> DEFINE Progress == call # NoCall =>
                          \/ call' = NoCall
                          \/ /\ call'.remaining \in Nat
                             /\ call'.remaining < call.remaining
<1>1. ASSUME IInv, Next PROVE Progress
  <2>1. CASE AddOrder
    BY <2>1 DEF AddOrder, RejectOrder, AcceptOrder
  <2>2. CASE MatchStep
    <3> DEFINE queue == books[call.symbol][Opposite(call.side)]
                             [BestPrice(Opposite(call.side),
                                        books[call.symbol][Opposite(call.side)])]
               traded == TradedQty(Head(queue).qty, call.remaining)
    <3>1. /\ call.remaining \in Nat /\ traded \in Nat /\ traded > 0
          /\ traded <= call.remaining
      BY <1>1, <2>2, MatchContext, Zenon
    <3>2. call' = [call EXCEPT !.remaining = call.remaining - traded]
      BY <2>2 DEF MatchStep
    <3>3. call \in Calls
      BY <1>1, <2>2 DEF IInv, TypeOK, MatchStep
    <3> HIDE DEF traded
    <3>4. call'.remaining = call.remaining - traded
      BY <3>2, <3>3 DEF Calls
    <3> QED BY <3>1, <3>4
  <2>3. CASE Rest
    BY <2>3 DEF Rest
  <2>4. CASE \E id \in 1..MaxOrders : CancelOrder(id)
    BY <2>4 DEF CancelOrder, CancelUnknown, CancelStale, CancelResting
  <2> QED BY <1>1, <2>1, <2>2, <2>3, <2>4 DEF Next
<1>2. IInv /\ [Next]_vars => [Progress]_vars
  BY <1>1
<1> QED BY <1>2, Invariance, PTL DEF Spec
=============================================================================
