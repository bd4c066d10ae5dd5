-------------------------- MODULE BookViewsProofs ---------------------------
(***************************************************************************)
(* Theorems about what the order book tells its users: the best prices,    *)
(* depths and snapshots, the imbalance and the checksum are those of the   *)
(* open orders, on any number of symbols, levels and orders.               *)
(***************************************************************************)
EXTENDS BookViews, OrderBookProofs, DataInduction

\* A side quotes the best of its levels, or nothing when it has none.
LEMMA BestOfSide ==
    ASSUME TypeOK, NEW s \in Symbols, NEW d \in Side
    PROVE  LET best == BestOf(BookOf(s), d) IN
           \/ DOMAIN BookOf(s)[d] = {} /\ best = NoPrice
           \/ /\ s \in DOMAIN books /\ best \in DOMAIN books[s][d]
              /\ BookOf(s) = books[s] /\ best \in Prices /\ best \in Int
<1>1. CASE s \notin DOMAIN books
  <2>1. DOMAIN BookOf(s)[d] = {}
    BY <1>1 DEF BookOf, EmptyBook, NoLevels
  <2> QED BY <2>1 DEF BestOf
<1>2. CASE s \in DOMAIN books
  <2>1. BookOf(s) = books[s] /\ DOMAIN books[s][d] \subseteq Prices
    BY <1>2 DEF BookOf, TypeOK, BooksOK, BookOK, LevelsOK
  <2>2. CASE DOMAIN books[s][d] = {}
    BY <2>1, <2>2 DEF BestOf
  <2>3. CASE DOMAIN books[s][d] # {}
    <3>1. BestPrice(d, books[s][d]) \in DOMAIN books[s][d]
      BY <2>1, <2>3, BestPriceIsBest
    <3> QED BY <1>2, <2>1, <2>3, <3>1, PricesAssumption DEF BestOf
  <2> QED BY <2>2, <2>3
<1> QED BY <1>1, <1>2

\* The two quotes of a symbol, each of them a price or missing, and in order
\* when neither is missing.
LEMMA BestPricesInOrder ==
    ASSUME IInv, NEW s \in Symbols
    PROVE  LET bid == BestOf(BookOf(s), "Bid")
               ask == BestOf(BookOf(s), "Ask")
           IN /\ bid \in Prices \/ bid = NoPrice
              /\ ask \in Prices \/ ask = NoPrice
              /\ bid # NoPrice /\ ask # NoPrice => bid < ask
<1> DEFINE bid == BestOf(BookOf(s), "Bid")
           ask == BestOf(BookOf(s), "Ask")
<1>1. "Bid" \in Side /\ "Ask" \in Side /\ TypeOK
  BY DEF Side, IInv
<1>2. \/ bid = NoPrice
      \/ s \in DOMAIN books /\ bid \in DOMAIN books[s]["Bid"] /\ bid \in Prices
  BY <1>1, BestOfSide
<1>3. \/ ask = NoPrice
      \/ s \in DOMAIN books /\ ask \in DOMAIN books[s]["Ask"] /\ ask \in Prices
  BY <1>1, BestOfSide
<1> HIDE DEF bid, ask
<1>4. bid # NoPrice /\ ask # NoPrice => bid < ask
  BY <1>2, <1>3 DEF IInv, NotCrossed
<1> QED BY <1>2, <1>3, <1>4 DEF bid, ask

-----------------------------------------------------------------------------
(* Sums in an int                                                          *)

Ints == -IntLimit..(IntLimit - 1)

\* An integer is a multiple of a positive one and a remainder below it.
LEMMA Remainder ==
    ASSUME NEW a \in Int, NEW m \in Nat \ {0}
    PROVE  /\ a % m \in 0..(m - 1) /\ a \div m \in Int
           /\ a = m * (a \div m) + (a % m)
BY SMTT(60)

\* And in one way only.
LEMMA SameRemainder ==
    ASSUME NEW m \in Nat \ {0}, NEW q \in Int, NEW r \in 0..(m - 1),
           NEW k \in Int, NEW t \in 0..(m - 1), m * q + r = m * k + t
    PROVE  r = t
<1> DEFINE x == q - k
<1>1. x \in Int /\ m * x = t - r
  BY SMTT(30)
<1>2. t - r < m /\ r - t < m
  OBVIOUS
<1> HIDE DEF x
<1>3. CASE x >= 1
  <2>1. m * x >= m
    BY <1>1, <1>3, SMTT(30)
  <2> QED BY <1>1, <1>2, <2>1
<1>4. CASE x <= -1
  <2>1. m * x <= -m
    BY <1>1, <1>4, SMTT(30)
  <2> QED BY <1>1, <1>2, <2>1
<1>5. CASE x = 0
  <2>1. m * x = 0
    BY <1>5, SMTT(30)
  <2> QED BY <1>1, <2>1
<1> QED BY <1>1, <1>3, <1>4, <1>5

\* Wrapping around leaves an int that differs by whole turns.
LEMMA Int32Is ==
    ASSUME NEW n \in Int
    PROVE  Int32(n) \in Ints /\ \E q \in Int : n = (2 * IntLimit) * q + Int32(n)
<1> DEFINE m == 2 * IntLimit
           a == n + IntLimit
<1>1. m \in Nat \ {0} /\ a \in Int /\ IntLimit \in Nat
  BY WidthAssumption
<1>2. Int32(n) = (a % m) - IntLimit
  BY DEF Int32
<1>3. m = IntLimit + IntLimit
  BY <1>1
<1> HIDE DEF m
<1>4. a % m \in 0..(m - 1) /\ a \div m \in Int /\ a = m * (a \div m) + (a % m)
  BY <1>1, Remainder
<1>5. Int32(n) \in Ints
  BY <1>1, <1>2, <1>3, <1>4 DEF Ints
<1> DEFINE r == a % m
           q == a \div m
           x == m * q
<1>6. r \in Int /\ q \in Int /\ x \in Int /\ n + IntLimit = x + r /\ Int32(n) = r - IntLimit
  BY <1>1, <1>2, <1>4
<1> HIDE DEF r, q
<1>7. n = m * q + Int32(n)
  <2> HIDE DEF x
  <2>1. n = x + Int32(n)
    BY <1>1, <1>6
  <2> QED BY <2>1 DEF x
<1> QED BY <1>5, <1>6, <1>7 DEF m

\* There is only one such int.
LEMMA Int32Unique ==
    ASSUME NEW n \in Int, NEW v \in Ints, NEW q \in Int, n = (2 * IntLimit) * q + v
    PROVE  Int32(n) = v
<1> DEFINE m == 2 * IntLimit
           w == Int32(n)
<1>1. w \in Ints
  BY Int32Is
<1>2. PICK k \in Int : n = m * k + w
  BY Int32Is
<1>3. m \in Nat \ {0} /\ IntLimit \in Nat /\ m = IntLimit + IntLimit
  BY WidthAssumption
<1>4. n = m * q + v
  OBVIOUS
<1> HIDE DEF m, w
<1>5. m * q \in Int /\ m * k \in Int
  BY <1>3
<1>6. v + IntLimit \in 0..(m - 1) /\ w + IntLimit \in 0..(m - 1)
  BY <1>1, <1>3 DEF Ints
<1> DEFINE r == v + IntLimit
           t == w + IntLimit
<1>7. m * q + r = m * k + t
  <2> DEFINE x == m * q
             y == m * k
  <2>1. x \in Int /\ y \in Int /\ x + v = y + w /\ v \in Int /\ w \in Int
    BY <1>1, <1>2, <1>3, <1>4, <1>5 DEF Ints
  <2> HIDE DEF x, y
  <2>2. x + r = y + t
    BY <1>3, <2>1
  <2> QED BY <2>2 DEF x, y
<1>8. r \in 0..(m - 1) /\ t \in 0..(m - 1)
  BY <1>6
<1> HIDE DEF r, t
<1>9. r = t
  BY <1>3, <1>7, <1>8, SameRemainder
<1>10. v = w
  BY <1>1, <1>3, <1>9 DEF r, t, Ints
<1> QED BY <1>10 DEF w

\* An int is left as it is.
LEMMA Int32Fits ==
    ASSUME NEW v \in Ints
    PROVE  Int32(v) = v /\ v \in Int
<1>1. v \in Int /\ IntLimit \in Nat
  BY WidthAssumption DEF Ints
<1>2. v = (2 * IntLimit) * 0 + v
  BY <1>1
<1> QED BY <1>1, <1>2, Int32Unique

\* Whole turns leave no trace.
LEMMA Int32Turns ==
    ASSUME NEW n \in Int, NEW q \in Int
    PROVE  Int32(n + (2 * IntLimit) * q) = Int32(n)
<1> DEFINE m == 2 * IntLimit
           v == Int32(n)
<1>1. v \in Ints
  BY Int32Is
<1>2. PICK k \in Int : n = m * k + v
  BY Int32Is
<1>3. m \in Nat /\ IntLimit \in Nat
  BY WidthAssumption
<1>4. v \in Int
  BY <1>1, <1>3 DEF Ints
<1>5. n + m * q = m * (k + q) + v
  <2> HIDE DEF m, v
  <2>1. m * (k + q) = m * k + m * q
    BY <1>3, SMTT(30)
  <2> DEFINE x == m * k
             y == m * q
  <2>2. x \in Int /\ y \in Int /\ m * (k + q) = x + y /\ n = x + v
    BY <1>2, <1>3, <2>1
  <2> HIDE DEF x, y
  <2>3. n + y = (x + y) + v
    BY <1>4, <2>2
  <2> QED BY <2>2, <2>3 DEF y
<1>6. k + q \in Int /\ n + m * q \in Int
  BY <1>3
<1>7. Int32(n + m * q) = v
  BY <1>1, <1>5, <1>6, Int32Unique
<1> QED BY <1>7

\* Wrapping around early leaves no trace in a sum or a difference.
LEMMA Int32Sums ==
    ASSUME NEW a \in Int, NEW b \in Int
    PROVE  /\ Int32(Int32(a) + b) = Int32(a + b)
           /\ Int32(Int32(a) - Int32(b)) = Int32(a - b)
<1> DEFINE m == 2 * IntLimit
           u == Int32(a)
           v == Int32(b)
<1>1. PICK k \in Int : a = m * k + u
  BY Int32Is
<1>2. PICK l \in Int : b = m * l + v
  BY Int32Is
<1>3. m \in Nat /\ u \in Int /\ v \in Int
  <2>1. u \in Ints /\ v \in Ints /\ IntLimit \in Nat
    BY Int32Is, WidthAssumption
  <2> HIDE DEF u, v
  <2> QED BY <2>1 DEF Ints
<1> HIDE DEF u, v, m
<1> DEFINE x == m * k
           y == m * l
<1>4. x \in Int /\ y \in Int /\ a = x + u /\ b = y + v
  BY <1>1, <1>2, <1>3
<1>5. m * (-k) = -x /\ m * (l - k) = y - x
  BY <1>3, SMTT(30)
<1> HIDE DEF x, y
<1>6. u + b = (a + b) + m * (-k) /\ u - v = (a - b) + m * (l - k)
  <2>1. u + b = (a + b) + (-x) /\ u - v = (a - b) + (y - x)
    BY <1>3, <1>4
  <2> QED BY <1>5, <2>1
<1>7. a + b \in Int /\ a - b \in Int /\ -k \in Int /\ l - k \in Int
  OBVIOUS
<1>8. Int32(u + b) = Int32(a + b)
  BY <1>6, <1>7, Int32Turns DEF m
<1>9. Int32(u - v) = Int32(a - b)
  BY <1>6, <1>7, Int32Turns DEF m
<1> QED BY <1>8, <1>9 DEF u, v

-----------------------------------------------------------------------------
(* Quotes                                                                  *)

\* The conversion to an integer of prices that are not negative: it drops less
\* than a whole unit, keeps their order and fits an int.
LEMMA TruncatedIs ==
    ASSUME NEW p \in Prices, p >= 0
    PROVE  /\ Truncated(p) \in 0..(IntLimit - 1)
           /\ Truncated(p) * Whole \in Int
           /\ Truncated(p) * Whole <= p
           /\ p < Truncated(p) * Whole + Whole
           /\ (Truncated(p) + 1) * Whole = Truncated(p) * Whole + Whole
<1>1. /\ p \in Nat /\ Whole \in Nat \ {0} /\ IntLimit \in Nat \ {0}
      /\ p < IntLimit * Whole
  BY PricesAssumption, WidthAssumption
<1> DEFINE q == p \div Whole
           r == p % Whole
<1>2. Truncated(p) = q
  BY <1>1 DEF Truncated
<1>3. r \in 0..(Whole - 1) /\ q \in Int /\ p = Whole * q + r
  BY <1>1, Remainder
<1> HIDE DEF q, r
<1>4. Whole * q = q * Whole /\ (q + 1) * Whole = q * Whole + Whole /\ q * Whole \in Int
  BY <1>1, <1>3, SMTT(30)
<1> DEFINE x == q * Whole
<1>5. x \in Int /\ p = x + r
  BY <1>3, <1>4
<1>6. CASE q < 0
  <2>1. x <= -Whole
    BY <1>1, <1>3, <1>6, SMTT(30)
  <2> HIDE DEF x
  <2> QED BY <1>1, <1>3, <1>5, <2>1
<1>7. CASE q >= IntLimit
  <2>1. IntLimit * Whole <= x
    BY <1>1, <1>3, <1>7, SMTT(30)
  <2> DEFINE y == IntLimit * Whole
  <2>2. y \in Int /\ p < y /\ y <= x
    BY <1>1, <2>1
  <2> HIDE DEF x, y
  <2> QED BY <1>1, <1>3, <1>5, <2>2
<1>8. q \in 0..(IntLimit - 1)
  BY <1>1, <1>3, <1>6, <1>7
<1>9. x <= p /\ p < x + Whole
  <2> HIDE DEF x
  <2> QED BY <1>1, <1>3, <1>5
<1> QED BY <1>2, <1>4, <1>8, <1>9

\* Of two prices, the higher one is not converted to less.
LEMMA TruncatedInOrder ==
    ASSUME NEW p \in Prices, NEW q \in Prices, 0 <= p, p < q
    PROVE  Truncated(p) <= Truncated(q) /\ Truncated(p) * Whole <= Truncated(q) * Whole
<1> DEFINE b == Truncated(p)
           a == Truncated(q)
           x == b * Whole
           y == a * Whole
<1>1. p \in Int /\ q \in Int /\ Whole \in Nat \ {0} /\ q >= 0
  BY PricesAssumption, WidthAssumption
<1>2. b \in Int /\ x \in Int /\ x <= p
  BY <1>1, TruncatedIs, WidthAssumption
<1>3. a \in Int /\ y \in Int /\ q < y + Whole /\ (a + 1) * Whole = y + Whole
  BY <1>1, TruncatedIs, WidthAssumption
<1> HIDE DEF a, b
<1>4. CASE b > a
  <2>1. (a + 1) * Whole <= x
    BY <1>1, <1>2, <1>3, <1>4, SMTT(30)
  <2> HIDE DEF x, y
  <2> QED BY <1>1, <1>2, <1>3, <2>1
<1>5. CASE b <= a
  <2>1. x <= y
    BY <1>1, <1>2, <1>3, <1>5, SMTT(30)
  <2> QED BY <1>5, <2>1 DEF a, b
<1> QED BY <1>2, <1>3, <1>4, <1>5

\* A column shows its side less than a unit too low, or, when the converted
\* price is missing or 0, the bid or else the ask as it is.
LEMMA ColumnIs ==
    ASSUME NEW book, NEW d \in Side
    PROVE  LET own == BestOf(book, d)
               bid == BestOf(book, "Bid")
           IN BestPriceBranchless(book, d) =
                IF own # NoPrice /\ Truncated(own) # 0 THEN Truncated(own) * Whole
                ELSE IF bid # NoPrice THEN bid ELSE BestOf(book, "Ask")
BY Zenon DEF BestPriceBranchless

(***************************************************************************)
(* The average of two ints that are not negative needs no more than an     *)
(* int and lies from the lower to below the higher one.                    *)
(***************************************************************************)
LEMMA MidIs ==
    ASSUME NEW b \in 0..(IntLimit - 1), NEW a \in 0..(IntLimit - 1), b <= a
    PROVE  LET mid == Int32(b + (Int32(a - b) \div 2)) IN
           mid \in Int /\ b <= mid /\ mid <= a /\ (b < a => mid < a)
<1>1. IntLimit \in Nat /\ b \in Nat /\ a \in Nat
  BY WidthAssumption
<1>2. a - b \in Ints
  BY <1>1 DEF Ints
<1>3. Int32(a - b) = a - b
  BY <1>2, Int32Fits
<1> DEFINE half == (a - b) \div 2
<1>4. half \in Int /\ 0 <= half /\ half <= a - b /\ (b < a => half < a - b)
  BY <1>1
<1> HIDE DEF half
<1>5. b + half \in Ints
  BY <1>1, <1>4 DEF Ints
<1>6. Int32(b + half) = b + half
  BY <1>5, Int32Fits
<1>7. Int32(b + (Int32(a - b) \div 2)) = b + half
  BY <1>3, <1>6 DEF half
<1> QED BY <1>1, <1>4, <1>7

\* The columns that live_sim writes, and the mid between them, follow the best
\* prices to less than a unit after every call, at any prices that are not
\* negative.  addOrder takes negative ones too, and above one an ask between -1
\* and 1 is converted to 0 and shown as the bid, however far that is.
THEOREM QuotesStayInOrder ==
    ASSUME Prices \subseteq Nat
    PROVE  Spec => []QuotesInOrder
<1>1. IInv => QuotesInOrder
  <2> SUFFICES ASSUME IInv, NEW s \in Symbols
               PROVE  LET book      == BookOf(s)
                          column(d) == BestPriceBranchless(book, d)
                          bid       == BestOf(book, "Bid")
                          ask       == BestOf(book, "Ask")
                          mid       == MidBranchless(book)
                      IN /\ \A d \in Side :
                               IF Quoted(book, d) = NoPrice THEN column(d) = NoPrice
                               ELSE /\ column(d) <= Quoted(book, d)
                                    /\ Quoted(book, d) < column(d) + Whole
                         /\ IF bid = NoPrice \/ ask = NoPrice THEN mid = NoPrice
                            ELSE /\ column("Bid") <= column("Ask")
                                 /\ bid < mid + Whole
                                 /\ mid < ask
    BY DEF QuotesInOrder
  <2> DEFINE book == BookOf(s)
             column(d) == BestPriceBranchless(book, d)
             bid == BestOf(book, "Bid")
             ask == BestOf(book, "Ask")
             mid == MidBranchless(book)
  <2>1. /\ bid \in Prices \/ bid = NoPrice
        /\ ask \in Prices \/ ask = NoPrice
        /\ bid # NoPrice /\ ask # NoPrice => bid < ask
    BY BestPricesInOrder
  <2>2. /\ column("Bid") = IF bid # NoPrice /\ Truncated(bid) # 0 THEN Truncated(bid) * Whole
                           ELSE IF bid # NoPrice THEN bid ELSE ask
        /\ column("Ask") = IF ask # NoPrice /\ Truncated(ask) # 0 THEN Truncated(ask) * Whole
                           ELSE IF bid # NoPrice THEN bid ELSE ask
    BY ColumnIs DEF Side
  <2>3. /\ Quoted(book, "Bid") = IF bid # NoPrice THEN bid ELSE ask
        /\ Quoted(book, "Ask") = IF ask # NoPrice THEN ask ELSE bid
    BY DEF Quoted, Opposite, Side
  <2>4. mid = IF bid = NoPrice \/ ask = NoPrice THEN NoPrice
              ELSE Int32(Truncated(bid) +
                         (Int32(Truncated(ask) - Truncated(bid)) \div 2)) * Whole
    BY DEF MidBranchless
  <2> DEFINE b == Truncated(bid)
             a == Truncated(ask)
             x == b * Whole
             y == a * Whole
  <2>5. /\ bid # NoPrice => bid \in Prices /\ bid \in Nat /\ 0 <= bid
        /\ ask # NoPrice => ask \in Prices /\ ask \in Nat /\ 0 <= ask
    <3>1. \A p \in Prices : p \in Nat /\ 0 <= p
      OBVIOUS
    <3> HIDE DEF bid, ask
    <3> QED BY <2>1, <3>1
  <2>6. /\ bid # NoPrice => /\ bid \in Nat /\ b \in 0..(IntLimit - 1) /\ x \in Int
                            /\ x <= bid /\ bid < x + Whole
        /\ ask # NoPrice => /\ ask \in Nat /\ a \in 0..(IntLimit - 1) /\ y \in Int
                            /\ y <= ask /\ ask < y + Whole
    <3> HIDE DEF bid, ask
    <3> QED BY <2>5, TruncatedIs
  <2>7. bid # NoPrice /\ ask # NoPrice => b <= a /\ x <= y
    <3>1. bid # NoPrice /\ ask # NoPrice =>
            bid \in Prices /\ ask \in Prices /\ 0 <= bid /\ bid < ask
      BY <2>1, <2>5
    <3> HIDE DEF bid, ask
    <3> QED BY <3>1, TruncatedInOrder
  <2>8. Whole \in Nat \ {0} /\ IntLimit \in Nat \ {0}
    BY WidthAssumption
  <2>9. (b = 0 => x = 0) /\ (a = 0 => y = 0)
    BY <2>8
  <2> DEFINE cb == column("Bid")
             ca == column("Ask")
             qb == Quoted(book, "Bid")
             qa == Quoted(book, "Ask")
  <2>10. /\ cb = IF bid # NoPrice /\ b # 0 THEN x ELSE IF bid # NoPrice THEN bid ELSE ask
         /\ ca = IF ask # NoPrice /\ a # 0 THEN y ELSE IF bid # NoPrice THEN bid ELSE ask
         /\ qb = IF bid # NoPrice THEN bid ELSE ask
         /\ qa = IF ask # NoPrice THEN ask ELSE bid
    BY <2>2, <2>3
  <2>11. bid # NoPrice /\ ask # NoPrice =>
           \E m \in Int : m * Whole = mid /\ b <= m /\ m <= a /\ (b < a => m < a)
    BY <2>4, <2>6, <2>7, MidIs
  <2> HIDE DEF book, column, bid, ask, mid, b, a, x, y, cb, ca, qb, qa
  <2>12. /\ IF qb = NoPrice THEN cb = NoPrice ELSE cb <= qb /\ qb < cb + Whole
         /\ IF qa = NoPrice THEN ca = NoPrice ELSE ca <= qa /\ qa < ca + Whole
    <3>1. CASE bid = NoPrice /\ ask = NoPrice
      BY <2>10, <3>1
    <3>2. CASE bid # NoPrice /\ ask = NoPrice
      BY <2>6, <2>8, <2>10, <3>2
    <3>3. CASE bid = NoPrice /\ ask # NoPrice
      BY <2>6, <2>8, <2>10, <3>3
    <3>4. CASE bid # NoPrice /\ ask # NoPrice
      BY <2>1, <2>6, <2>8, <2>9, <2>10, <3>4
    <3> QED BY <3>1, <3>2, <3>3, <3>4
  <2>13. bid # NoPrice /\ ask # NoPrice => cb <= ca /\ bid < mid + Whole /\ mid < ask
    <3> SUFFICES ASSUME bid # NoPrice, ask # NoPrice
                 PROVE  cb <= ca /\ bid < mid + Whole /\ mid < ask
      OBVIOUS
    <3>1. /\ bid \in Nat /\ b \in Nat /\ x \in Int /\ x <= bid /\ bid < x + Whole
          /\ ask \in Nat /\ a \in Nat /\ y \in Int /\ y <= ask /\ ask < y + Whole
          /\ bid < ask /\ b <= a /\ x <= y
      BY <2>1, <2>6, <2>7
    <3>2. cb <= ca
      <4>1. CASE a = 0
        BY <2>9, <2>10, <3>1, <4>1
      <4>2. CASE a # 0 /\ b # 0
        BY <2>10, <3>1, <4>2
      <4>3. CASE a # 0 /\ b = 0
        <5>1. y >= Whole
          BY <2>8, <3>1, <4>3, SMTT(30) DEF y
        <5> QED BY <2>8, <2>9, <2>10, <3>1, <4>3, <5>1
      <4> QED BY <4>1, <4>2, <4>3
    <3>3. PICK m \in Int : m * Whole = mid /\ b <= m /\ m <= a /\ (b < a => m < a)
      BY <2>11
    <3> DEFINE z == m * Whole
    <3>4. z \in Int /\ x <= z /\ z <= y /\ (m < a => z < y)
      BY <2>8, <3>1, <3>3, SMTT(30) DEF x, y
    <3>5. bid < z + Whole
      <4> HIDE DEF z
      <4> QED BY <2>8, <3>1, <3>4
    <3>6. z < ask
      <4>1. CASE m < a
        <5> HIDE DEF z
        <5> QED BY <3>1, <3>4, <4>1
      <4>2. CASE ~(m < a)
        <5>1. b = a /\ x = y
          BY <3>1, <3>3, <4>2 DEF x, y
        <5> HIDE DEF z
        <5> QED BY <3>1, <3>4, <5>1
      <4> QED BY <4>1, <4>2
    <3> QED BY <3>2, <3>3, <3>5, <3>6
  <2>14. bid = NoPrice \/ ask = NoPrice => mid = NoPrice
    BY <2>4 DEF bid, ask, mid
  <2>15. \A d \in Side : IF Quoted(book, d) = NoPrice THEN column(d) = NoPrice
                         ELSE column(d) <= Quoted(book, d) /\ Quoted(book, d) < column(d) + Whole
    BY <2>12 DEF Side, cb, ca, qb, qa
  <2>16. IF bid = NoPrice \/ ask = NoPrice THEN mid = NoPrice
         ELSE column("Bid") <= column("Ask") /\ bid < mid + Whole /\ mid < ask
    BY <2>13, <2>14 DEF cb, ca
  <2> QED BY <2>15, <2>16 DEF book, column, bid, ask, mid
<1> QED BY <1>1, Invariance, PTL

-----------------------------------------------------------------------------
(* The order of the maps                                                   *)

\* A finite set with different keys has an ascending order.
LEMMA AscendingSorts ==
    ASSUME NEW S, IsFiniteSet(S), NEW key, \A s \in S : key[s] \in Int,
           \A s, t \in S : s # t => key[s] # key[t]
    PROVE  /\ Cardinality(S) \in Nat
           /\ Enumerates(Ascending(S, key), Cardinality(S), S)
           /\ Sorted(Ascending(S, key), Cardinality(S), key)
<1> DEFINE n == Cardinality(S)
           seq == Ascending(S, key)
<1>1. n \in Nat
  BY FS_CardinalityType
<1>2. \E s \in [1..n -> S] : Sorted(s, n, key)
  BY SortedExists
<1>3. seq \in [1..n -> S] /\ Sorted(seq, n, key)
  BY <1>2 DEF Ascending, Sorted
<1> HIDE DEF seq
<1>4. /\ \A i, j \in 1..n : i # j => seq[i] # seq[j]
      /\ \A x \in S : \E i \in 1..n : seq[i] = x
  BY <1>3, SortedIsOnto
<1> QED BY <1>1, <1>3, <1>4 DEF Enumerates, seq

\* Prices within a lowest and a highest one are finitely many.
LEMMA LevelsAreFinite ==
    ASSUME NEW levels, LevelsOK(levels)
    PROVE  IsFiniteSet(DOMAIN levels) /\ \A p \in DOMAIN levels : p \in Prices /\ p \in Int
<1>1. DOMAIN levels \subseteq Prices /\ Prices \subseteq Int
  BY PricesAssumption DEF LevelsOK
<1>2. CASE DOMAIN levels = {}
  BY <1>1, <1>2, FS_EmptySet
<1>3. CASE DOMAIN levels # {}
  <2>1. /\ \E low \in DOMAIN levels : \A p \in DOMAIN levels : low <= p
        /\ \E high \in DOMAIN levels : \A p \in DOMAIN levels : p <= high
    BY <1>1, <1>3, PricesAssumption
  <2>2. PICK low \in DOMAIN levels : \A p \in DOMAIN levels : low <= p
    BY <2>1
  <2>3. PICK high \in DOMAIN levels : \A p \in DOMAIN levels : p <= high
    BY <2>1
  <2>4. low \in Int /\ high \in Int
    BY <1>1
  <2>5. DOMAIN levels \subseteq low..high
    <3> SUFFICES ASSUME NEW p \in DOMAIN levels PROVE p \in low..high
      OBVIOUS
    <3>1. p \in Int /\ low <= p /\ p <= high
      BY <1>1, <2>2, <2>3
    <3> QED BY <2>4, <3>1
  <2>6. IsFiniteSet(low..high)
    BY <2>4, FS_Interval
  <2> QED BY <1>1, <2>5, <2>6, FS_Subset
<1> QED BY <1>2, <1>3

(***************************************************************************)
(* The levels of a side, each of them once and the better price first.     *)
(***************************************************************************)
LEMMA BestFirstOrders ==
    ASSUME NEW book, NEW d \in Side, LevelsOK(book[d])
    PROVE  LET n == Cardinality(DOMAIN book[d])
               prices == BestFirst(book, d)
           IN /\ n \in Nat /\ Enumerates(prices, n, DOMAIN book[d])
              /\ \A i, j \in 1..n : i < j => Precedes(d, prices[i], prices[j])
<1> DEFINE S == DOMAIN book[d]
           n == Cardinality(S)
           key == [p \in S |-> IF d = "Bid" THEN -p ELSE p]
           prices == BestFirst(book, d)
<1>1. IsFiniteSet(S) /\ \A p \in S : p \in Int
  BY LevelsAreFinite
<1>2. \A p \in S : key[p] = IF d = "Bid" THEN -p ELSE p
  OBVIOUS
<1>3. prices = Ascending(S, key)
  BY DEF BestFirst
<1> HIDE DEF key, S, prices
<1>4. (\A p \in S : key[p] \in Int) /\ \A p, q \in S : p # q => key[p] # key[q]
  BY <1>1, <1>2
<1>5. n \in Nat /\ Enumerates(prices, n, S) /\ Sorted(prices, n, key)
  BY <1>1, <1>3, <1>4, AscendingSorts
<1>6. ASSUME NEW i \in 1..n, NEW j \in 1..n, i < j
      PROVE  Precedes(d, prices[i], prices[j])
  <2>1. prices[i] \in S /\ prices[j] \in S
    BY <1>5 DEF Enumerates
  <2>2. key[prices[i]] < key[prices[j]]
    BY <1>5, <1>6 DEF Sorted
  <2>3. prices[i] \in Int /\ prices[j] \in Int
    BY <1>1, <2>1
  <2> QED BY <1>2, <2>1, <2>2, <2>3 DEF Precedes
<1> QED BY <1>5, <1>6 DEF S, prices

\* The iterator over the books meets every symbol once.
LEMMA RankOrders ==
    ASSUME NEW all, IsFiniteSet(DOMAIN all), DOMAIN all \subseteq Symbols
    PROVE  /\ Cardinality(DOMAIN all) \in Nat
           /\ Enumerates(InRankOrder(all), Cardinality(DOMAIN all), DOMAIN all)
<1>1. /\ \A s \in DOMAIN all : Rank[s] \in Int
      /\ \A s, t \in DOMAIN all : s # t => Rank[s] # Rank[t]
  BY RankAssumption
<1> QED BY <1>1, AscendingSorts DEF InRankOrder

-----------------------------------------------------------------------------
(* Depth                                                                   *)

\* One side of a symbol, whether it has a book or not: its levels are sound,
\* and its open orders are those in their queues.
LEMMA SideOfBook ==
    ASSUME IInv, NEW s \in Symbols, NEW d \in Side
    PROVE  LET levels == BookOf(s)[d] IN
           /\ LevelsOK(levels) /\ Issued \in Int
           /\ \A p \in DOMAIN levels :
                levels[p] \in Seq(Resting) /\ QueueSound(levels[p], Issued)
           /\ \A o : (o \in OpenOrders /\ o.symbol = s /\ o.side = d) <=>
                \E p \in DOMAIN levels : \E j \in DOMAIN levels[p] :
                    o = Entry(s, d, p, levels[p][j])
<1> DEFINE levels == BookOf(s)[d]
<1>1. TypeOK /\ BookSound
  BY DEF IInv
<1>2. Issued \in Int
  BY <1>1, BookAssumption DEF TypeOK, Issued, Calls
<1>3. \A o : o \in OpenOrders <=> IsOpen(o, books)
  BY <1>1, OpenMembers
<1>4. CASE s \notin DOMAIN books
  <2>1. DOMAIN levels = {}
    BY <1>4 DEF BookOf, EmptyBook, NoLevels
  <2>2. LevelsOK(levels)
    BY <1>4 DEF LevelsOK, BookOf, EmptyBook, NoLevels
  <2>3. \A o : o \in OpenOrders => o.symbol # s
    BY <1>3, <1>4, EntryFields DEF IsOpen
  <2> QED BY <1>2, <2>1, <2>2, <2>3
<1>5. CASE s \in DOMAIN books
  <2>1. levels = books[s][d]
    BY <1>5 DEF BookOf
  <2>2. LevelsOK(levels)
    BY <1>1, <1>5, <2>1 DEF TypeOK, BooksOK, BookOK
  <2>3. \A p \in DOMAIN levels :
          levels[p] \in Seq(Resting) /\ QueueSound(levels[p], Issued)
    BY <1>1, <1>5, <2>1, <2>2 DEF LevelsOK, BookSound
  <2>4. ASSUME NEW o
        PROVE  (o \in OpenOrders /\ o.symbol = s /\ o.side = d) <=>
                 \E p \in DOMAIN levels : \E j \in DOMAIN levels[p] :
                     o = Entry(s, d, p, levels[p][j])
    <3>1. ASSUME o \in OpenOrders, o.symbol = s, o.side = d
          PROVE  \E p \in DOMAIN levels : \E j \in DOMAIN levels[p] :
                     o = Entry(s, d, p, levels[p][j])
      <4>1. PICK t \in DOMAIN books, e \in Side : \E p \in DOMAIN books[t][e] :
              \E r : InQueue(r, books[t][e][p]) /\ o = Entry(t, e, p, r)
        BY <1>3, <3>1 DEF IsOpen
      <4>2. t = s /\ e = d
        BY <3>1, <4>1, EntryFields
      <4> QED BY <2>1, <4>1, <4>2 DEF InQueue
    <3>2. ASSUME NEW p \in DOMAIN levels, NEW j \in DOMAIN levels[p],
                 o = Entry(s, d, p, levels[p][j])
          PROVE  o \in OpenOrders /\ o.symbol = s /\ o.side = d
      <4>1. InQueue(levels[p][j], books[s][d][p])
        BY <2>1 DEF InQueue
      <4>2. IsOpen(o, books)
        BY <1>5, <2>1, <3>2, <4>1 DEF IsOpen
      <4> QED BY <1>3, <3>2, <4>2, EntryFields
    <3> QED BY <3>1, <3>2
  <2> QED BY <1>2, <2>2, <2>3, <2>4, Zenon
<1> QED BY <1>4, <1>5

\* The quantities of one queue, added without a limit
LevelSum(queue) == Total(Qtys(queue))

\* The shares of one queue
LevelShares(s, d, p, queue) ==
    UNION {{Entry(s, d, p, queue[j])} \X (1..queue[j].qty) : j \in DOMAIN queue}

\* The total of a level is the number of shares that rest there.
LEMMA LevelSumCounts ==
    ASSUME NEW s, NEW d, NEW p, NEW queue \in Seq(Resting),
           NEW bound \in Int, QueueSound(queue, bound)
    PROVE  /\ IsFiniteSet(LevelShares(s, d, p, queue))
           /\ LevelSum(queue) = Cardinality(LevelShares(s, d, p, queue))
           /\ LevelSum(queue) \in Nat
<1> DEFINE n == Len(queue)
           B == [j \in 1..n |-> {Entry(s, d, p, queue[j])} \X (1..queue[j].qty)]
<1>1. /\ n \in Nat /\ DOMAIN queue = 1..n
      /\ \A i \in 1..n : queue[i].id \in Int /\ queue[i].qty \in Int
  BY QueueElements
<1>2. \A i \in 1..n : queue[i].qty > 0
  BY <1>1 DEF QueueSound
<1>3. \A i \in 1..n : queue[i].qty \in Nat
  BY <1>1, <1>2
<1>4. \A i, j \in 1..n : i < j => queue[i].id < queue[j].id
  BY <1>1 DEF QueueSound
<1>5. \A i, j \in 1..n : i # j => queue[i].id # queue[j].id
  <2> TAKE i \in 1..n, j \in 1..n
  <2>1. i < j \/ j < i \/ i = j
    BY <1>1
  <2>2. queue[i].id \in Int /\ queue[j].id \in Int
    BY <1>1
  <2>3. i < j => queue[i].id < queue[j].id
    BY <1>4
  <2>4. j < i => queue[j].id < queue[i].id
    BY <1>4
  <2> QED BY <2>1, <2>2, <2>3, <2>4
<1> HIDE DEF n
<1>6. \A i \in 1..n : B[i] = {Entry(s, d, p, queue[i])} \X (1..queue[i].qty)
  OBVIOUS
<1> HIDE DEF B
<1>7. \A i \in 1..n : IsFiniteSet(B[i]) /\ Cardinality(B[i]) = queue[i].qty
  <2> TAKE i \in 1..n
  <2> DEFINE x == Entry(s, d, p, queue[i])
             k == queue[i].qty
  <2>1. k \in Nat
    BY <1>3
  <2> HIDE DEF x, k
  <2>2. IsFiniteSet({x} \X (1..k)) /\ Cardinality({x} \X (1..k)) = k
    BY <2>1, CopiesOfOne
  <2> QED BY <1>6, <2>2 DEF x, k
<1>8. \A i, j \in 1..n : i # j => B[i] \cap B[j] = {}
  <2> SUFFICES ASSUME NEW i \in 1..n, NEW j \in 1..n, i # j PROVE B[i] \cap B[j] = {}
    OBVIOUS
  <2>1. Entry(s, d, p, queue[i]) # Entry(s, d, p, queue[j])
    BY <1>5, EntryFields
  <2> QED BY <1>6, <2>1
<1>9. Apart(n, B)
  BY <1>7, <1>8 DEF Apart
<1>10. LET all == UNION {B[i] : i \in 1..n} IN
       /\ IsFiniteSet(all) /\ Cardinality(all) \in Nat
       /\ Total([i \in 1..n |-> Cardinality(B[i])]) = Cardinality(all)
  BY <1>1, <1>9, TotalOfSizes, Zenon DEF n
<1>11. [i \in 1..n |-> Cardinality(B[i])] = [i \in DOMAIN queue |-> queue[i].qty]
  BY <1>1, <1>7
<1>12. UNION {B[i] : i \in 1..n} = LevelShares(s, d, p, queue)
  BY <1>1, <1>6 DEF LevelShares
<1> QED BY <1>10, <1>11, <1>12, Zenon DEF LevelSum, Qtys

\* With the best level first, i - 1 levels are better than the i-th.
LEMMA BetterLevels ==
    ASSUME NEW n \in Nat, NEW S, NEW prices, Enumerates(prices, n, S), NEW d \in Side,
           \A p \in S : p \in Int,
           \A i, j \in 1..n : i < j => Precedes(d, prices[i], prices[j]),
           NEW i \in 1..n
    PROVE  Cardinality({p \in S : Precedes(d, p, prices[i])}) = i - 1
<1> DEFINE T == {p \in S : Precedes(d, p, prices[i])}
           g == [j \in 1..(i - 1) |-> prices[j]]
<1>1. \A j \in 1..n : prices[j] \in S /\ prices[j] \in Int
  BY DEF Enumerates
<1>2. ASSUME NEW j \in 1..n PROVE prices[j] \in T <=> j < i
  <2>1. j < i => Precedes(d, prices[j], prices[i])
    OBVIOUS
  <2>2. i < j => Precedes(d, prices[i], prices[j])
    OBVIOUS
  <2>3. prices[i] \in Int /\ prices[j] \in Int /\ prices[j] \in S
    BY <1>1
  <2>4. CASE j < i
    BY <2>1, <2>3, <2>4
  <2>5. CASE j = i
    BY <2>3, <2>5 DEF Precedes
  <2>6. CASE i < j
    BY <2>2, <2>3, <2>6 DEF Precedes
  <2>7. j < i \/ j = i \/ i < j
    OBVIOUS
  <2> QED BY <2>4, <2>5, <2>6, <2>7
<1>3. \A j \in 1..(i - 1) : j \in 1..n /\ j < i /\ g[j] = prices[j] /\ prices[j] \in T
  BY <1>2
<1>4. ASSUME NEW p \in T PROVE \E j \in 1..(i - 1) : g[j] = p
  <2>1. PICK j \in 1..n : prices[j] = p
    BY DEF Enumerates
  <2>2. j < i
    BY <1>2, <2>1
  <2>3. j \in 1..(i - 1)
    BY <2>2
  <2> QED BY <2>1, <2>3
<1>5. g \in [1..(i - 1) -> T]
  BY <1>3
<1>6. \A j, l \in 1..(i - 1) : j # l => g[j] # g[l]
  BY <1>3 DEF Enumerates
<1> HIDE DEF g, T
<1>7. g \in Injection(1..(i - 1), T)
  BY <1>5, <1>6 DEF Injection, IsInjective
<1>8. g \in Surjection(1..(i - 1), T)
  BY <1>4, <1>5 DEF Surjection
<1>9. ExistsBijection(1..(i - 1), T) /\ i - 1 \in Nat
  BY <1>7, <1>8 DEF ExistsBijection, Bijection
<1>10. Cardinality(T) = i - 1
  BY <1>9, FS_CountingElements
<1> QED BY <1>10 DEF T

\* A query for k levels visits those with fewer than k better ones.
LEMMA ReachedIs ==
    ASSUME NEW n \in Nat, NEW k \in Int
    PROVE  /\ Reached(n, k) \in Nat /\ Reached(n, k) <= n
           /\ \A i \in 1..n : i \in 1..Reached(n, k) <=> (k <= 0 \/ i - 1 < k)
BY DEF Reached, Least

\* The levels that a sum of depths reaches.
LEMMA DepthIs ==
    ASSUME NEW book, NEW d \in Side, LevelsOK(book[d]), NEW k \in Int
    PROVE  DepthSum(book, d, k) =
             Total([i \in 1..Reached(Cardinality(DOMAIN book[d]), k) |->
                       LevelSum(book[d][BestFirst(book, d)[i]])])
<1>1. /\ Cardinality(DOMAIN book[d]) \in Nat
      /\ BestFirst(book, d) \in [1..Cardinality(DOMAIN book[d]) -> DOMAIN book[d]]
  BY BestFirstOrders DEF Enumerates
<1>2. Len(BestFirst(book, d)) = Cardinality(DOMAIN book[d])
  BY <1>1, FunctionIsSeqOf
<1> QED BY <1>2, Zenon DEF DepthSum, LevelSum

(***************************************************************************)
(* A loop that adds one by one, in an int, leaves the int of the total.    *)
(***************************************************************************)
LEMMA AddedIs ==
    ASSUME NEW n \in Nat, NEW s \in [1..n -> Int], NEW a \in Ints
    PROVE  Added(a, s) \in Ints /\ Added(a, s) = Int32(a + Total(s))
<1> DEFINE step == [i \in 1..n |-> [v \in Ints |-> Int32(v + s[i])]]
<1>0. \A v \in Ints : v \in Int
  BY WidthAssumption DEF Ints
<1>1. step \in [1..n -> [Ints -> Ints]]
  <2>1. \A i \in 1..n, v \in Ints : Int32(v + s[i]) \in Ints
    BY <1>0, Int32Is
  <2> QED BY <2>1
<1>2. PICK f \in [0..n -> Ints] : Folding(f, n, a, step)
  <2> HIDE DEF step
  <2> QED BY <1>1, FoldingExists
<1>3. f = [i \in 0..n |-> IF i = 0 THEN a ELSE Int32(f[i - 1] + s[i])]
  <2>1. f = [i \in 0..n |-> IF i = 0 THEN a ELSE step[i][f[i - 1]]]
    BY <1>2 DEF Folding
  <2> HIDE DEF step
  <2>2. ASSUME NEW i \in 0..n PROVE f[i] = IF i = 0 THEN a ELSE Int32(f[i - 1] + s[i])
    <3>1. CASE i = 0
      BY <2>1, <3>1
    <3>2. CASE i # 0
      <4>1. f[i] = step[i][f[i - 1]]
        BY <2>1, <3>2
      <4>2. i \in 1..n /\ f[i - 1] \in Ints
        BY <3>2, <1>2
      <4> QED BY <4>1, <4>2, <3>2 DEF step
    <3> QED BY <3>1, <3>2
  <2>3. f = [i \in 0..n |-> f[i]]
    BY <1>2
  <2> QED BY <2>2, <2>3
<1> HIDE DEF step
<1> DEFINE R(g) == g = [i \in 0..Len(s) |-> IF i = 0 THEN a ELSE Int32(g[i - 1] + s[i])]
           u == CHOOSE g : R(g)
<1>4. Len(s) = n
  BY FunctionIsSeq
<1>5. R(u)
  BY <1>3, <1>4, Zenon
<1>6. Added(a, s) = u[n]
  BY <1>4, Zenon DEF Added
<1>7. u = [i \in 0..n |-> IF i = 0 THEN a ELSE Int32(u[i - 1] + s[i])]
  BY <1>4, <1>5
<1> HIDE DEF u
<1>8. PICK t \in [0..n -> Int] :
         t[0] = 0 /\ (\A i \in 1..n : t[i] = t[i - 1] + s[i]) /\ Total(s) = t[n]
  BY TotalUpto
<1> DEFINE g == [i \in 0..n |-> Int32(a + t[i])]
<1>9. InStep(u, g, n)
  <2>1. u[0] = a /\ g[0] = Int32(a + 0) /\ a + 0 = a
    BY <1>0, <1>7, <1>8
  <2>2. u[0] = g[0]
    BY <2>1, Int32Fits
  <2>3. ASSUME NEW i \in 1..n, u[i - 1] = g[i - 1] PROVE u[i] = g[i]
    <3>1. i \in 0..n /\ i # 0 /\ i - 1 \in 0..n
      OBVIOUS
    <3>2. u[i] = Int32(u[i - 1] + s[i])
      BY <1>7, <3>1
    <3> DEFINE x == a + t[i - 1]
               y == s[i]
    <3>3. x \in Int /\ y \in Int /\ a + t[i] = x + y
      BY <1>0, <1>8, <3>1
    <3>4. u[i] = Int32(Int32(x) + y) /\ g[i] = Int32(a + t[i])
      BY <2>3, <3>1, <3>2
    <3> HIDE DEF x, y
    <3>5. Int32(Int32(x) + y) = Int32(x + y)
      BY <3>3, Int32Sums
    <3> QED BY <3>3, <3>4, <3>5
  <2> QED BY <2>2, <2>3 DEF InStep
<1>10. u[n] = g[n] /\ g[n] = Int32(a + t[n])
  <2>1. g[n] = Int32(a + t[n])
    OBVIOUS
  <2> HIDE DEF g
  <2>2. \A i \in 0..n : u[i] = g[i]
    BY <1>9, StepwiseEqual
  <2> QED BY <2>1, <2>2
<1>11. a + t[n] \in Int
  BY <1>0, <1>8
<1>12. Int32(a + t[n]) \in Ints
  BY <1>11, Int32Is
<1> QED BY <1>6, <1>8, <1>10, <1>12

\* 0 is an int.
LEMMA ZeroIsInt == 0 \in Ints
BY WidthAssumption DEF Ints

\* The total of a level in snapshot
LEMMA LevelTotalIs ==
    ASSUME NEW queue \in Seq(Resting)
    PROVE  /\ LevelTotal(queue) = Int32(LevelSum(queue))
           /\ Qtys(queue) \in [1..Len(queue) -> Int]
           /\ Len(queue) \in Nat /\ LevelSum(queue) \in Int
<1> DEFINE n == Len(queue)
           qtys == Qtys(queue)
<1>1. n \in Nat /\ qtys \in [1..n -> Int]
  BY QueueElements DEF Qtys
<1>2. LevelTotal(queue) = Added(0, qtys) /\ LevelSum(queue) = Total(qtys)
  BY DEF LevelTotal, LevelSum
<1> HIDE DEF n, qtys
<1>3. Total(qtys) \in Int
  BY <1>1, TotalType
<1>4. Added(0, qtys) = Int32(0 + Total(qtys))
  BY <1>1, ZeroIsInt, AddedIs
<1>5. 0 + Total(qtys) = Total(qtys)
  BY <1>3
<1> QED BY <1>1, <1>2, <1>3, <1>4, <1>5 DEF n, qtys

(***************************************************************************)
(* totalDepth, which goes on adding in one int from level to level, leaves *)
(* the int of the sum of the depths.                                       *)
(***************************************************************************)
LEMMA TotalDepthIs ==
    ASSUME NEW book, NEW d \in Side, LevelsOK(book[d]), NEW k \in Int
    PROVE  /\ DepthSum(book, d, k) \in Int
           /\ TotalDepth(book, d, k) = Int32(DepthSum(book, d, k))
<1> DEFINE levels == book[d]
           n == Cardinality(DOMAIN levels)
           prices == BestFirst(book, d)
           qtys(i) == Qtys(levels[prices[i]])
           last == Reached(n, k)
           step == [i \in 1..n |-> [v \in Ints |-> Added(v, qtys(i))]]
           sums == [i \in 1..last |-> Total(qtys(i))]
<1>1. n \in Nat /\ prices \in [1..n -> DOMAIN levels] /\ Len(prices) = n
  <2>1. n \in Nat /\ prices \in [1..n -> DOMAIN levels]
    BY BestFirstOrders DEF Enumerates
  <2> HIDE DEF n, prices
  <2> QED BY <2>1, FunctionIsSeqOf
<1>2. ASSUME NEW i \in 1..n
      PROVE  /\ Total(qtys(i)) \in Int
             /\ \A v \in Ints : /\ Added(v, qtys(i)) \in Ints
                                /\ Added(v, qtys(i)) = Int32(v + Total(qtys(i)))
  <2> DEFINE queue == levels[prices[i]]
  <2>1. queue \in Seq(Resting)
    BY <1>1 DEF LevelsOK
  <2> HIDE DEF queue
  <2>2. Qtys(queue) \in [1..Len(queue) -> Int] /\ Len(queue) \in Nat
    BY <2>1, LevelTotalIs
  <2>3. Total(Qtys(queue)) \in Int
    BY <2>2, TotalType
  <2>4. \A v \in Ints : /\ Added(v, Qtys(queue)) \in Ints
                        /\ Added(v, Qtys(queue)) = Int32(v + Total(Qtys(queue)))
    BY <2>2, AddedIs
  <2> QED BY <2>3, <2>4 DEF queue
<1>3. last \in Nat /\ last <= n /\ last \in 0..n
  <2>1. n \in Nat
    BY <1>1
  <2> HIDE DEF n
  <2>2. last \in Nat /\ last <= n
    BY <2>1, ReachedIs
  <2> HIDE DEF last
  <2> QED BY <2>1, <2>2
<1>4. DepthSum(book, d, k) = Total(sums)
  BY <1>1, Zenon DEF DepthSum
<1>5. TotalDepth(book, d, k) = DepthUpto(book, d)[last]
  BY <1>1, Zenon DEF TotalDepth
<1> DEFINE R(g) == g = [i \in 0..Len(prices) |-> IF i = 0 THEN 0 ELSE Added(g[i - 1], qtys(i))]
           u == CHOOSE g : R(g)
<1>6. DepthUpto(book, d) = u
  BY Zenon DEF DepthUpto
<1> HIDE DEF n, prices, qtys, last, levels
<1>7. step \in [1..n -> [Ints -> Ints]]
  BY <1>2
<1>8. PICK f \in [0..n -> Ints] : Folding(f, n, 0, step)
  <2> HIDE DEF step
  <2> QED BY <1>1, <1>7, ZeroIsInt, FoldingExists
<1>9. f = [i \in 0..n |-> IF i = 0 THEN 0 ELSE Added(f[i - 1], qtys(i))]
  <2>1. f = [i \in 0..n |-> IF i = 0 THEN 0 ELSE step[i][f[i - 1]]]
    BY <1>8 DEF Folding
  <2> HIDE DEF step
  <2>2. ASSUME NEW i \in 0..n PROVE f[i] = IF i = 0 THEN 0 ELSE Added(f[i - 1], qtys(i))
    <3>1. CASE i = 0
      BY <2>1, <3>1
    <3>2. CASE i # 0
      <4>1. f[i] = step[i][f[i - 1]]
        BY <2>1, <3>2
      <4>2. i \in 1..n /\ f[i - 1] \in Ints
        BY <3>2, <1>1, <1>8
      <4> QED BY <4>1, <4>2, <3>2 DEF step
    <3> QED BY <3>1, <3>2
  <2>3. f = [i \in 0..n |-> f[i]]
    BY <1>8
  <2> QED BY <2>2, <2>3
<1>10. R(u)
  BY <1>1, <1>9, Zenon
<1>11. u = [i \in 0..n |-> IF i = 0 THEN 0 ELSE Added(u[i - 1], qtys(i))]
  BY <1>1, <1>10
<1> HIDE DEF u, step
<1>12. sums \in [1..last -> Int]
  BY <1>1, <1>2, <1>3
<1>13. PICK t \in [0..last -> Int] :
         t[0] = 0 /\ (\A i \in 1..last : t[i] = t[i - 1] + sums[i]) /\ Total(sums) = t[last]
  <2> HIDE DEF sums
  <2> QED BY <1>3, <1>12, TotalUpto
<1> DEFINE g == [i \in 0..last |-> Int32(t[i])]
<1>14. InStep(u, g, last)
  <2>1. u[0] = 0 /\ g[0] = Int32(0)
    BY <1>1, <1>3, <1>11, <1>13
  <2>2. u[0] = g[0]
    BY <2>1, ZeroIsInt, Int32Fits
  <2>3. ASSUME NEW i \in 1..last, u[i - 1] = g[i - 1] PROVE u[i] = g[i]
    <3>1. i \in 0..last /\ i \in 0..n /\ i \in 1..n /\ i # 0 /\ i - 1 \in 0..last
      BY <1>1, <1>3
    <3>2. u[i] = Added(u[i - 1], qtys(i))
      BY <1>11, <3>1
    <3> DEFINE x == t[i - 1]
               y == Total(qtys(i))
    <3>3. x \in Int /\ y \in Int /\ t[i] = x + y
      BY <1>2, <1>13, <3>1
    <3>4. u[i - 1] = Int32(x) /\ g[i] = Int32(x + y)
      BY <2>3, <3>1, <3>3
    <3>5. Int32(x) \in Ints
      BY <3>3, Int32Is
    <3>6. u[i] = Int32(Int32(x) + y)
      BY <1>2, <3>1, <3>2, <3>4, <3>5
    <3> HIDE DEF x, y
    <3>7. Int32(Int32(x) + y) = Int32(x + y)
      BY <3>3, Int32Sums
    <3> QED BY <3>4, <3>6, <3>7
  <2> QED BY <2>2, <2>3 DEF InStep
<1>15. u[last] = g[last] /\ g[last] = Int32(t[last])
  <2>1. g[last] = Int32(t[last])
    BY <1>3
  <2> HIDE DEF g
  <2>2. \A i \in 0..last : u[i] = g[i]
    BY <1>3, <1>14, StepwiseEqual
  <2> QED BY <1>3, <2>1, <2>2
<1> QED BY <1>3, <1>4, <1>5, <1>6, <1>13, <1>15

(***************************************************************************)
(* The sum of the depths counts the shares of the crowd: the orders at the *)
(* best levels, as many of them as were asked for.                         *)
(***************************************************************************)
LEMMA DepthCounts ==
    ASSUME IInv, NEW s \in Symbols, NEW d \in Side, NEW k \in Int
    PROVE  /\ IsFiniteSet(Shares(Crowd(s, d, k)))
           /\ DepthSum(BookOf(s), d, k) = Cardinality(Shares(Crowd(s, d, k)))
           /\ DepthSum(BookOf(s), d, k) \in Nat
<1> DEFINE levels == BookOf(s)[d]
           S == DOMAIN levels
           n == Cardinality(S)
           prices == BestFirst(BookOf(s), d)
           last == Reached(n, k)
           B == [i \in 1..last |-> LevelShares(s, d, prices[i], levels[prices[i]])]
           in(o) == o \in OpenOrders /\ o.symbol = s /\ o.side = d
<1>1. LevelsOK(levels) /\ Issued \in Int
  BY SideOfBook
<1>2. \A p \in S : levels[p] \in Seq(Resting) /\ QueueSound(levels[p], Issued)
  BY SideOfBook
<1>3. \A o : in(o) <=> \E p \in S : \E j \in DOMAIN levels[p] : o = Entry(s, d, p, levels[p][j])
  BY SideOfBook
<1>4. /\ n \in Nat /\ Enumerates(prices, n, S)
      /\ \A i, j \in 1..n : i < j => Precedes(d, prices[i], prices[j])
  BY <1>1, BestFirstOrders
<1>5. \A p \in S : p \in Int
  BY <1>1, LevelsAreFinite
<1>6. DepthSum(BookOf(s), d, k) = Total([i \in 1..last |-> LevelSum(levels[prices[i]])])
  BY <1>1, DepthIs
<1>7. \A o : o \in Crowd(s, d, k) <=>
         in(o) /\ (k <= 0 \/ Cardinality({p \in S : Precedes(d, p, o.px)}) < k)
  BY DEF Crowd
<1> HIDE DEF levels, S, prices, n, in
<1>8. /\ last \in Nat /\ last <= n
      /\ \A i \in 1..n : i \in 1..last <=> (k <= 0 \/ i - 1 < k)
  BY <1>4, ReachedIs
<1>9. \A i \in 1..n : prices[i] \in S /\ Cardinality({p \in S : Precedes(d, p, prices[i])}) = i - 1
  <2> TAKE i \in 1..n
  <2>1. prices[i] \in S
    BY <1>4 DEF Enumerates
  <2> QED BY <1>4, <1>5, <2>1, BetterLevels
<1>10. \A i \in 1..last : i \in 1..n /\ B[i] = LevelShares(s, d, prices[i], levels[prices[i]])
  BY <1>4, <1>8
<1> HIDE DEF last, B
<1>11. \A i \in 1..last : IsFiniteSet(B[i]) /\ Cardinality(B[i]) = LevelSum(levels[prices[i]])
  <2> TAKE i \in 1..last
  <2> DEFINE p == prices[i]
             queue == levels[p]
  <2>1. queue \in Seq(Resting) /\ QueueSound(queue, Issued)
    BY <1>2, <1>9, <1>10
  <2>2. B[i] = LevelShares(s, d, p, queue)
    BY <1>10
  <2> HIDE DEF p, queue
  <2>3. /\ IsFiniteSet(LevelShares(s, d, p, queue))
        /\ LevelSum(queue) = Cardinality(LevelShares(s, d, p, queue))
    BY <1>1, <2>1, LevelSumCounts
  <2> QED BY <2>2, <2>3 DEF p, queue
<1>12. \A i, j \in 1..last : i # j => B[i] \cap B[j] = {}
  <2> SUFFICES ASSUME NEW i \in 1..last, NEW j \in 1..last, i # j PROVE B[i] \cap B[j] = {}
    OBVIOUS
  <2>1. prices[i] # prices[j]
    BY <1>4, <1>10 DEF Enumerates
  <2>2. ASSUME NEW x \in B[i] PROVE x[1].px = prices[i]
    BY <1>10, EntryFields DEF LevelShares
  <2>3. ASSUME NEW x \in B[j] PROVE x[1].px = prices[j]
    BY <1>10, EntryFields DEF LevelShares
  <2> QED BY <2>1, <2>2, <2>3
<1>13. UNION {B[i] : i \in 1..last} = Shares(Crowd(s, d, k))
  <2>1. ASSUME NEW i \in 1..last, NEW x \in B[i] PROVE x \in Shares(Crowd(s, d, k))
    <3>1. PICK j \in DOMAIN levels[prices[i]] :
             x \in {Entry(s, d, prices[i], levels[prices[i]][j])}
                     \X (1..levels[prices[i]][j].qty)
      BY <1>10 DEF LevelShares
    <3> DEFINE o == Entry(s, d, prices[i], levels[prices[i]][j])
    <3>2. o.px = prices[i] /\ o.qty = levels[prices[i]][j].qty
      BY EntryFields
    <3>3. in(o)
      BY <1>3, <1>9, <1>10
    <3>4. x \in {o} \X (1..o.qty)
      BY <3>1, <3>2
    <3> HIDE DEF o
    <3>5. k <= 0 \/ Cardinality({p \in S : Precedes(d, p, o.px)}) < k
      BY <1>8, <1>9, <1>10, <3>2
    <3>6. o \in Crowd(s, d, k)
      BY <1>7, <3>3, <3>5
    <3> QED BY <3>4, <3>6 DEF Shares
  <2>2. ASSUME NEW o \in Crowd(s, d, k), NEW x \in {o} \X (1..o.qty)
        PROVE  \E i \in 1..last : x \in B[i]
    <3>1. in(o) /\ (k <= 0 \/ Cardinality({p \in S : Precedes(d, p, o.px)}) < k)
      BY <1>7
    <3>2. PICK p \in S : \E j \in DOMAIN levels[p] : o = Entry(s, d, p, levels[p][j])
      BY <1>3, <3>1
    <3>3. PICK j \in DOMAIN levels[p] : o = Entry(s, d, p, levels[p][j])
      BY <3>2
    <3>4. o.px = p /\ o.qty = levels[p][j].qty
      BY <3>3, EntryFields
    <3>5. PICK i \in 1..n : prices[i] = p
      BY <1>4 DEF Enumerates
    <3>6. i \in 1..last
      BY <1>8, <1>9, <3>1, <3>4, <3>5
    <3>7. x \in LevelShares(s, d, p, levels[p])
      BY <3>3, <3>4 DEF LevelShares
    <3> QED BY <1>10, <3>5, <3>6, <3>7
  <2> QED BY <2>1, <2>2 DEF Shares
<1>14. Apart(last, B)
  BY <1>11, <1>12 DEF Apart
<1>15. LET all == UNION {B[i] : i \in 1..last} IN
       /\ IsFiniteSet(all) /\ Cardinality(all) \in Nat
       /\ Total([i \in 1..last |-> Cardinality(B[i])]) = Cardinality(all)
  BY <1>8, <1>14, TotalOfSizes, Zenon
<1>16. [i \in 1..last |-> Cardinality(B[i])] = [i \in 1..last |-> LevelSum(levels[prices[i]])]
  BY <1>11
<1> QED BY <1>6, <1>13, <1>15, <1>16, Zenon

\* totalDepth in terms of open shares
LEMMA DepthIsCounted ==
    ASSUME IInv, NEW s \in Symbols, NEW d \in Side, NEW k \in Int
    PROVE  /\ TotalDepth(BookOf(s), d, k) = Int32(Cardinality(Shares(Crowd(s, d, k))))
           /\ Cardinality(Shares(Crowd(s, d, k))) \in Nat
<1>1. LevelsOK(BookOf(s)[d])
  BY SideOfBook
<1>2. TotalDepth(BookOf(s), d, k) = Int32(DepthSum(BookOf(s), d, k))
  BY <1>1, TotalDepthIs
<1>3. /\ DepthSum(BookOf(s), d, k) = Cardinality(Shares(Crowd(s, d, k)))
      /\ DepthSum(BookOf(s), d, k) \in Nat
  BY DepthCounts
<1> QED BY <1>2, <1>3, Zenon

(***************************************************************************)
(* However many levels are asked for, and also while an order is being     *)
(* matched, totalDepth is the int of the number of open shares at that     *)
(* many best prices (asked for none or fewer, of all of them): that number *)
(* itself as long as an int can hold it.                                   *)
(***************************************************************************)
THEOREM DepthsCountShares ==
    Spec => [](\A s \in Symbols, d \in Side, k \in Int :
                  LET shares == Cardinality(Shares(Crowd(s, d, k))) IN
                  /\ TotalDepth(BookOf(s), d, k) = Int32(shares)
                  /\ shares < IntLimit => TotalDepth(BookOf(s), d, k) = shares)
<1> DEFINE Counted == \A s \in Symbols, d \in Side, k \in Int :
               LET shares == Cardinality(Shares(Crowd(s, d, k))) IN
               /\ TotalDepth(BookOf(s), d, k) = Int32(shares)
               /\ shares < IntLimit => TotalDepth(BookOf(s), d, k) = shares
<1>1. IInv => Counted
  <2> SUFFICES ASSUME IInv, NEW s \in Symbols, NEW d \in Side, NEW k \in Int
               PROVE  LET shares == Cardinality(Shares(Crowd(s, d, k))) IN
                      /\ TotalDepth(BookOf(s), d, k) = Int32(shares)
                      /\ shares < IntLimit => TotalDepth(BookOf(s), d, k) = shares
    OBVIOUS
  <2> DEFINE shares == Cardinality(Shares(Crowd(s, d, k)))
             depth == TotalDepth(BookOf(s), d, k)
  <2>1. depth = Int32(shares) /\ shares \in Nat
    BY DepthIsCounted
  <2> HIDE DEF shares, depth
  <2>2. ASSUME shares < IntLimit PROVE depth = shares
    <3>1. shares \in Ints
      BY <2>1, <2>2, WidthAssumption DEF Ints
    <3> QED BY <2>1, <3>1, Int32Fits
  <2> QED BY <2>1, <2>2 DEF shares, depth
<1> HIDE DEF Counted
<1>2. Spec => []Counted
  BY <1>1, Invariance, PTL
<1> QED BY <1>2 DEF Counted

-----------------------------------------------------------------------------
(* Imbalance                                                               *)

\* A side that is quoted has depth at every number of levels, the other none.
LEMMA DepthShows ==
    ASSUME IInv, NEW s \in Symbols, NEW d \in Side, NEW k \in Int
    PROVE  /\ DepthSum(BookOf(s), d, k) \in Nat
           /\ DepthSum(BookOf(s), d, k) > 0
                <=> \E o \in OpenOrders : o.symbol = s /\ o.side = d
<1> DEFINE levels == BookOf(s)[d]
           S == DOMAIN levels
           n == Cardinality(S)
           prices == BestFirst(BookOf(s), d)
           crowd == Crowd(s, d, k)
           depth == DepthSum(BookOf(s), d, k)
           has == \E o \in OpenOrders : o.symbol = s /\ o.side = d
<1>1. /\ IsFiniteSet(Shares(crowd)) /\ depth = Cardinality(Shares(crowd))
      /\ depth \in Nat
  BY DepthCounts
<1>2. depth = 0 <=> Shares(crowd) = {}
  BY <1>1, FS_EmptySet
<1>3. Shares(crowd) # {} => has
  BY DEF Shares, Crowd
<1>4. ASSUME has PROVE Shares(crowd) # {}
  <2>1. LevelsOK(levels) /\ Issued \in Int
    BY SideOfBook
  <2>2. \A p \in S : levels[p] \in Seq(Resting) /\ QueueSound(levels[p], Issued)
    BY SideOfBook
  <2>3. \A o : (o \in OpenOrders /\ o.symbol = s /\ o.side = d)
                 <=> \E p \in S : \E j \in DOMAIN levels[p] : o = Entry(s, d, p, levels[p][j])
    BY SideOfBook
  <2>4. /\ n \in Nat /\ Enumerates(prices, n, S)
        /\ \A i, j \in 1..n : i < j => Precedes(d, prices[i], prices[j])
    BY <2>1, BestFirstOrders
  <2>5. \A p \in S : p \in Int
    BY <2>1, LevelsAreFinite
  <2>6. S # {}
    BY <1>4, <2>3
  <2>7. \A o : o \in crowd <=>
           /\ o \in OpenOrders /\ o.symbol = s /\ o.side = d
           /\ k <= 0 \/ Cardinality({p \in S : Precedes(d, p, o.px)}) < k
    BY DEF Crowd
  <2> HIDE DEF levels, S, n, prices, crowd
  <2>8. 1 \in 1..n
    <3>1. \E i \in 1..n : TRUE
      BY <2>4, <2>6 DEF Enumerates
    <3> QED BY <2>4, <3>1
  <2> DEFINE best == prices[1]
             queue == levels[best]
             o == Entry(s, d, best, queue[1])
  <2>9. best \in S
    BY <2>4, <2>8 DEF Enumerates
  <2>10. queue \in Seq(Resting) /\ QueueSound(queue, Issued)
    BY <2>2, <2>9
  <2>11. Cardinality({p \in S : Precedes(d, p, best)}) = 0
    <3>1. Cardinality({p \in S : Precedes(d, p, prices[1])}) = 1 - 1
      BY <2>4, <2>5, <2>8, BetterLevels
    <3> QED BY <3>1
  <2>12. 1 \in DOMAIN queue /\ queue[1].qty \in Int /\ queue[1].qty > 0
    <3> HIDE DEF queue
    <3>1. queue # <<>>
      BY <2>10 DEF QueueSound
    <3>2. 1 \in DOMAIN queue
      BY <2>10, <3>1
    <3> QED BY <2>10, <3>2, QueueElements DEF QueueSound
  <2>13. o.px = best /\ o.qty = queue[1].qty
    BY EntryFields
  <2>14. o \in OpenOrders /\ o.symbol = s /\ o.side = d
    BY <2>3, <2>9, <2>12
  <2> HIDE DEF o, queue, best
  <2>15. o \in crowd
    BY <2>7, <2>11, <2>13, <2>14
  <2>16. <<o, 1>> \in {o} \X (1..o.qty)
    BY <2>12, <2>13
  <2>17. <<o, 1>> \in Shares(crowd)
    BY <2>15, <2>16 DEF Shares
  <2> QED BY <2>17
<1> HIDE DEF crowd, depth, has
<1>5. depth > 0 <=> has
  BY <1>1, <1>2, <1>3, <1>4
<1> QED BY <1>1, <1>5 DEF depth, has

(***************************************************************************)
(* The imbalance the strategy reads is within [-1, 1], always a quotient   *)
(* by a positive number, and at its ends exactly when one side alone is    *)
(* quoted, for every symbol and after every call.                          *)
(***************************************************************************)
THEOREM ImbalanceStaysSound == Spec => []ImbalanceSound
<1>1. IInv => ImbalanceSound
  <2> DEFINE has(s, d) == \E o \in OpenOrders : o.symbol = s /\ o.side = d
  <2> SUFFICES ASSUME IInv, NEW s \in Symbols, NEW k \in 0..3
               PROVE  LET imb == OrderImbalance(BookOf(s), k)
                      IN /\ imb.den > 0
                         /\ -imb.den <= imb.num /\ imb.num <= imb.den
                         /\ imb.num = imb.den <=> has(s, "Bid") /\ ~has(s, "Ask")
                         /\ imb.num = -imb.den <=> has(s, "Ask") /\ ~has(s, "Bid")
    BY Zenon DEF ImbalanceSound
  <2> DEFINE bid == DepthSum(BookOf(s), "Bid", k)
             ask == DepthSum(BookOf(s), "Ask", k)
             imb == OrderImbalance(BookOf(s), k)
  <2>1. k \in Int /\ "Bid" \in Side /\ "Ask" \in Side
    BY DEF Side
  <2>2. bid \in Nat /\ (bid > 0 <=> has(s, "Bid"))
    BY <2>1, DepthShows
  <2>3. ask \in Nat /\ (ask > 0 <=> has(s, "Ask"))
    BY <2>1, DepthShows
  <2>4. imb = IF bid + ask <= 0 THEN [num |-> 0, den |-> 1]
                                ELSE [num |-> bid - ask, den |-> bid + ask]
    BY Zenon DEF OrderImbalance
  <2> HIDE DEF bid, ask, imb, has
  <2>5. /\ imb.den = IF bid + ask <= 0 THEN 1 ELSE bid + ask
        /\ imb.num = IF bid + ask <= 0 THEN 0 ELSE bid - ask
    BY <2>4
  <2>6. imb.den > 0 /\ -imb.den <= imb.num /\ imb.num <= imb.den
    BY <2>2, <2>3, <2>5
  <2>7. imb.num = imb.den <=> bid > 0 /\ ~(ask > 0)
    BY <2>2, <2>3, <2>5
  <2>8. imb.num = -imb.den <=> ask > 0 /\ ~(bid > 0)
    BY <2>2, <2>3, <2>5
  <2> QED BY <2>2, <2>3, <2>6, <2>7, <2>8, Zenon DEF imb
<1> QED BY <1>1, Invariance, PTL

-----------------------------------------------------------------------------
(* The books at any time are finitely many                                 *)

BooksFinite == IsFiniteSet(DOMAIN books)

\* getOrCreateBook adds at most one book.
LEMMA OneMoreBook ==
    ASSUME BooksFinite, NEW s, NEW all, DOMAIN all = DOMAIN GetOrCreateBook(s)
    PROVE  IsFiniteSet(DOMAIN all)
<1>1. DOMAIN all = DOMAIN books \/ DOMAIN all = DOMAIN books \cup {s}
  BY DEF GetOrCreateBook
<1> QED BY <1>1, FS_AddElement DEF BooksFinite

\* No call makes the map of books infinite: what its order rests on.
LEMMA BooksStayFinite == Spec => []BooksFinite
<1>1. Init => BooksFinite
  BY FS_EmptySet DEF Init, BooksFinite
<1>2. ASSUME BooksFinite, [Next]_vars PROVE BooksFinite'
  <2>1. CASE AddOrder
    <3>1. \/ books' = books
          \/ \E symbol \in Symbols : books' = GetOrCreateBook(symbol)
      BY <2>1 DEF AddOrder, RejectOrder, AcceptOrder
    <3> QED BY <1>2, <3>1, OneMoreBook DEF BooksFinite
  <2>2. CASE MatchStep
    <3>1. DOMAIN books' = DOMAIN books
      BY <2>2 DEF MatchStep
    <3> QED BY <1>2, <3>1 DEF BooksFinite
  <2>3. CASE Rest
    <3>1. DOMAIN books' = DOMAIN books
      BY <2>3 DEF Rest
    <3> QED BY <1>2, <3>1 DEF BooksFinite
  <2>4. ASSUME NEW id \in 1..MaxOrders, CancelOrder(id) PROVE BooksFinite'
    <3>1. CASE CancelUnknown(id)
      BY <1>2, <3>1 DEF CancelUnknown, BooksFinite
    <3>2. CASE CancelStale(id)
      <4>1. books' = GetOrCreateBook(index[id].symbol)
        BY <3>2 DEF CancelStale
      <4> QED BY <1>2, <4>1, OneMoreBook DEF BooksFinite
    <3>3. CASE CancelResting(id)
      <4>1. DOMAIN books' = DOMAIN GetOrCreateBook(index[id].symbol)
        BY <3>3 DEF CancelResting
      <4> QED BY <1>2, <4>1, OneMoreBook DEF BooksFinite
    <3> QED BY <2>4, <3>1, <3>2, <3>3 DEF CancelOrder
  <2>5. CASE UNCHANGED vars
    BY <1>2, <2>5 DEF vars, BooksFinite
  <2> QED BY <1>2, <2>1, <2>2, <2>3, <2>4, <2>5 DEF Next
<1> QED BY <1>1, <1>2, PTL DEF Spec

-----------------------------------------------------------------------------
(* The snapshot                                                            *)

\* The queries without a symbol find a sound side.
LEMMA FirstBookIs ==
    ASSUME IInv, BooksFinite, NEW d \in Side
    PROVE  /\ LevelsOK(FirstBook[d])
           /\ \A p \in DOMAIN FirstBook[d] : LevelSum(FirstBook[d][p]) \in Nat
<1>1. CASE DOMAIN books = {}
  <2>1. FirstBook[d] = NoLevels
    BY <1>1 DEF FirstBook, EmptyBook
  <2>2. DOMAIN FirstBook[d] = {} /\ LevelsOK(FirstBook[d])
    BY <2>1 DEF NoLevels, LevelsOK
  <2> QED BY <2>2
<1>2. CASE DOMAIN books # {}
  <2> DEFINE n == Cardinality(DOMAIN books)
             order == InRankOrder(books)
  <2>1. DOMAIN books \subseteq Symbols
    BY DEF IInv, TypeOK, BooksOK
  <2>2. n \in Nat /\ Enumerates(order, n, DOMAIN books)
    BY <2>1, RankOrders DEF BooksFinite
  <2>3. n # 0
    BY <1>2, FS_EmptySet DEF BooksFinite
  <2> HIDE DEF n, order
  <2>4. order[1] \in DOMAIN books
    BY <2>2, <2>3 DEF Enumerates
  <2> DEFINE s == order[1]
             levels == BookOf(s)[d]
  <2>5. s \in Symbols /\ FirstBook = BookOf(s)
    BY <1>2, <2>1, <2>4 DEF FirstBook, BookOf, order
  <2> HIDE DEF s
  <2>6. LevelsOK(levels) /\ Issued \in Int
    BY <2>5, SideOfBook
  <2>7. \A p \in DOMAIN levels : levels[p] \in Seq(Resting) /\ QueueSound(levels[p], Issued)
    BY <2>5, SideOfBook
  <2>8. ASSUME NEW p \in DOMAIN levels PROVE LevelSum(levels[p]) \in Nat
    <3> DEFINE queue == levels[p]
    <3>1. queue \in Seq(Resting) /\ QueueSound(queue, Issued)
      BY <2>7
    <3> HIDE DEF queue
    <3>2. LevelSum(queue) \in Nat
      BY <2>6, <3>1, LevelSumCounts
    <3> QED BY <3>2 DEF queue
  <2> QED BY <2>5, <2>6, <2>8
<1> QED BY <1>1, <1>2

\* A row of the snapshot is a level, in the order of the map.
LEMMA SnapshotIs ==
    ASSUME NEW book, NEW d \in Side, LevelsOK(book[d])
    PROVE  LET n == Cardinality(DOMAIN book[d])
               rows == Snapshot(book, d)
           IN /\ DOMAIN rows = 1..n /\ Len(rows) = n
              /\ \A i \in 1..n :
                    /\ rows[i].price = BestFirst(book, d)[i]
                    /\ rows[i].totalQty = LevelTotal(book[d][BestFirst(book, d)[i]])
<1> DEFINE prices == BestFirst(book, d)
           n == Cardinality(DOMAIN book[d])
           rows == Snapshot(book, d)
<1>1. n \in Nat /\ prices \in [1..n -> DOMAIN book[d]]
  BY BestFirstOrders DEF Enumerates
<1>2. rows = [i \in DOMAIN prices |->
                 [price |-> prices[i], totalQty |-> LevelTotal(book[d][prices[i]])]]
  BY DEF Snapshot
<1> HIDE DEF prices, n, rows
<1>3. DOMAIN rows = 1..n
  BY <1>1, <1>2
<1>4. Len(rows) = n
  BY <1>1, <1>2
<1>5. \A i \in 1..n : rows[i] = [price |-> prices[i], totalQty |-> LevelTotal(book[d][prices[i]])]
  BY <1>1, <1>2
<1>6. \A i \in 1..n : rows[i].price = prices[i] /\ rows[i].totalQty = LevelTotal(book[d][prices[i]])
  <2> TAKE i \in 1..n
  <2> DEFINE total == LevelTotal(book[d][prices[i]])
  <2>1. rows[i] = [price |-> prices[i], totalQty |-> total]
    BY <1>5
  <2> HIDE DEF total
  <2>2. rows[i].price = prices[i] /\ rows[i].totalQty = total
    BY <2>1
  <2> QED BY <2>2 DEF total
<1> QED BY <1>3, <1>4, <1>6, Zenon DEF prices, n, rows

\* The level that begin() returns is the best one.
LEMMA FirstIsBest ==
    ASSUME NEW book, NEW d \in Side, LevelsOK(book[d]), DOMAIN book[d] # {}
    PROVE  BestFirst(book, d)[1] = BestOf(book, d)
<1> DEFINE S == DOMAIN book[d]
           n == Cardinality(S)
           prices == BestFirst(book, d)
           best == BestPrice(d, book[d])
<1>1. /\ n \in Nat /\ Enumerates(prices, n, S)
      /\ \A i, j \in 1..n : i < j => Precedes(d, prices[i], prices[j])
  BY BestFirstOrders
<1>2. \A p \in S : p \in Prices /\ p \in Int
  BY LevelsAreFinite
<1>3. best \in S /\ \A q \in S : q = best \/ Precedes(d, best, q)
  BY BestPriceIsBest DEF LevelsOK
<1>4. BestOf(book, d) = best
  BY DEF BestOf
<1> HIDE DEF S, n, prices, best
<1>5. PICK j \in 1..n : prices[j] = best
  BY <1>1, <1>3 DEF Enumerates
<1>6. 1 \in 1..n /\ prices[1] \in S
  <2>1. 1 \in 1..n
    BY <1>1, <1>5
  <2> QED BY <1>1, <2>1 DEF Enumerates
<1>7. ASSUME prices[1] # best PROVE FALSE
  <2>1. 1 < j
    BY <1>1, <1>5, <1>7
  <2>2. Precedes(d, prices[1], best)
    BY <1>1, <1>5, <1>6, <2>1
  <2>3. Precedes(d, best, prices[1])
    BY <1>3, <1>6, <1>7
  <2>4. prices[1] \in Int /\ best \in Int
    BY <1>2, <1>3, <1>6
  <2> QED BY <2>2, <2>3, <2>4 DEF Precedes
<1> QED BY <1>4, <1>7 DEF prices

\* The depth of i levels exceeds that of one level less by the i-th level.
LEMMA DepthGrows ==
    ASSUME NEW book, NEW d \in Side, LevelsOK(book[d]),
           \A p \in DOMAIN book[d] : LevelSum(book[d][p]) \in Nat,
           NEW i \in 1..Cardinality(DOMAIN book[d])
    PROVE  LevelSum(book[d][BestFirst(book, d)[i]]) =
             DepthSum(book, d, i) - (IF i = 1 THEN 0 ELSE DepthSum(book, d, i - 1))
<1> DEFINE S == DOMAIN book[d]
           n == Cardinality(S)
           prices == BestFirst(book, d)
           term == [j \in 1..n |-> LevelSum(book[d][prices[j]])]
           first(m) == [j \in 1..m |-> LevelSum(book[d][prices[j]])]
<1>1. n \in Nat /\ Enumerates(prices, n, S)
  BY BestFirstOrders
<1>2. \A j \in 1..n : term[j] \in Int
  BY <1>1 DEF Enumerates
<1>3. \A m \in 0..n : first(m) = [j \in 1..m |-> term[j]]
  BY <1>1
<1>4. DepthSum(book, d, i) = Total(first(Reached(n, i)))
  BY DepthIs
<1>5. i # 1 => DepthSum(book, d, i - 1) = Total(first(Reached(n, i - 1)))
  BY DepthIs
<1>6. term[i] = LevelSum(book[d][prices[i]])
  OBVIOUS
<1> HIDE DEF S, n, prices, term, first
<1>7. i \in 1..n /\ i \in Int /\ i - 1 \in 0..n /\ i \in 0..n
  BY <1>1 DEF n, S
<1>8. Reached(n, i) = i /\ (i # 1 => Reached(n, i - 1) = i - 1)
  BY <1>1, <1>7 DEF Reached, Least
<1>9. \A m \in 0..n : first(m) \in [1..m -> Int] /\ \A j \in 1..m : first(m)[j] = term[j]
  BY <1>1, <1>2, <1>3
<1>10. Total(first(i)) = Total(first(i - 1)) + first(i)[(i - 1) + 1]
  <2>1. i - 1 \in Nat /\ (i - 1) + 1 = i
    BY <1>7
  <2>2. first(i - 1) \in [1..(i - 1) -> Int]
    BY <1>7, <1>9
  <2>3. first(i) \in [1..((i - 1) + 1) -> Int]
    BY <1>7, <1>9, <2>1
  <2>4. \A j \in 1..(i - 1) : first(i)[j] = first(i - 1)[j]
    BY <1>7, <1>9
  <2> DEFINE r == first(i - 1)
             s == first(i)
             m == i - 1
  <2>5. m \in Nat /\ r \in [1..m -> Int] /\ s \in [1..(m + 1) -> Int]
        /\ \A j \in 1..m : s[j] = r[j]
    BY <2>1, <2>2, <2>3, <2>4
  <2> HIDE DEF r, s, m
  <2>6. Total(s) = Total(r) + s[m + 1]
    BY <2>5, TotalLast
  <2> QED BY <2>6 DEF r, s, m
<1>11. first(i)[(i - 1) + 1] = term[i] /\ term[i] \in Int
  <2>1. (i - 1) + 1 = i /\ i \in 1..i
    BY <1>7
  <2> QED BY <1>2, <1>7, <1>9, <2>1
<1>12. Total(first(i - 1)) \in Int /\ (i = 1 => Total(first(i - 1)) = 0)
  <2>1. first(i - 1) \in [1..(i - 1) -> Int] /\ i - 1 \in Nat /\ (i = 1 => i - 1 = 0)
    BY <1>7, <1>9
  <2> DEFINE r == first(i - 1)
             m == i - 1
  <2> HIDE DEF r, m
  <2>2. r \in [1..m -> Int] /\ m \in Nat /\ (i = 1 => m = 0)
    BY <2>1 DEF r, m
  <2>3. Total(r) \in Int /\ (m = 0 => Total(r) = 0)
    BY <2>2, TotalType
  <2> QED BY <2>2, <2>3 DEF r
<1>13. DepthSum(book, d, i) = Total(first(i))
  BY <1>4, <1>8
<1>14. i # 1 => DepthSum(book, d, i - 1) = Total(first(i - 1))
  BY <1>5, <1>8
<1>15. term[i] = DepthSum(book, d, i) - (IF i = 1 THEN 0 ELSE DepthSum(book, d, i - 1))
  BY <1>10, <1>11, <1>12, <1>13, <1>14
<1> QED BY <1>6, <1>15 DEF prices

\* Also in ints: a row of the snapshot is what the level adds to totalDepth.
LEMMA RowIs ==
    ASSUME NEW book, NEW d \in Side, LevelsOK(book[d]),
           \A p \in DOMAIN book[d] : LevelSum(book[d][p]) \in Nat,
           NEW i \in 1..Cardinality(DOMAIN book[d])
    PROVE  LevelTotal(book[d][BestFirst(book, d)[i]]) =
             Int32(TotalDepth(book, d, i)
                     - (IF i = 1 THEN 0 ELSE TotalDepth(book, d, i - 1)))
<1> DEFINE n == Cardinality(DOMAIN book[d])
           queue == book[d][BestFirst(book, d)[i]]
           now == DepthSum(book, d, i)
           before == DepthSum(book, d, i - 1)
<1>1. n \in Nat /\ BestFirst(book, d) \in [1..n -> DOMAIN book[d]]
  BY BestFirstOrders DEF Enumerates
<1>2. i \in Int /\ i - 1 \in Int
  <2>1. i \in 1..n
    OBVIOUS
  <2> HIDE DEF n
  <2> QED BY <1>1, <2>1
<1>3. queue \in Seq(Resting)
  BY <1>1 DEF LevelsOK
<1>4. LevelSum(queue) = now - (IF i = 1 THEN 0 ELSE before)
  BY DepthGrows
<1>5. now \in Int /\ TotalDepth(book, d, i) = Int32(now)
  BY <1>2, TotalDepthIs
<1>6. before \in Int /\ TotalDepth(book, d, i - 1) = Int32(before)
  BY <1>2, TotalDepthIs
<1> HIDE DEF queue, now, before
<1>7. LevelTotal(queue) = Int32(LevelSum(queue))
  BY <1>3, LevelTotalIs
<1>8. CASE i = 1
  <2>1. LevelSum(queue) = now
    BY <1>4, <1>5, <1>8
  <2>2. Int32(now) \in Ints
    BY <1>5, Int32Is
  <2>3. Int32(Int32(now)) = Int32(now) /\ Int32(now) - 0 = Int32(now)
    BY <2>2, Int32Fits
  <2> QED BY <1>5, <1>7, <1>8, <2>1, <2>3 DEF queue
<1>9. CASE i # 1
  <2>1. LevelSum(queue) = now - before
    BY <1>4, <1>9
  <2>2. Int32(Int32(now) - Int32(before)) = Int32(now - before)
    BY <1>5, <1>6, Int32Sums
  <2> QED BY <1>5, <1>6, <1>7, <1>9, <2>1, <2>2 DEF queue
<1> QED BY <1>8, <1>9

(***************************************************************************)
(* Depth and snapshot agree with each other and with the open orders, for  *)
(* every symbol, side and number of levels, after every call.              *)
(***************************************************************************)
THEOREM DepthsAlwaysAgree == Spec => []DepthsAgree
<1>1. IInv /\ BooksFinite => DepthsAgree
  <2> SUFFICES ASSUME IInv, BooksFinite PROVE DepthsAgree
    OBVIOUS
  <2>1. ASSUME NEW s \in Symbols, NEW d \in Side, NEW k \in 0..3
        PROVE  TotalDepth(BookOf(s), d, k) = Int32(Cardinality(Shares(Crowd(s, d, k))))
    <3>1. k \in Int
      OBVIOUS
    <3> QED BY <3>1, DepthIsCounted
  <2>2. ASSUME NEW d \in Side
        PROVE  LET rows == Snapshot(FirstBook, d) IN
               /\ 1 \in DOMAIN rows => rows[1].price = BestOf(FirstBook, d)
               /\ \A i \in 1..(Len(rows) - 1) :
                     Precedes(d, rows[i].price, rows[i + 1].price)
               /\ \A i \in DOMAIN rows :
                     rows[i].totalQty = Int32(TotalDepth(FirstBook, d, i)
                         - (IF i = 1 THEN 0 ELSE TotalDepth(FirstBook, d, i - 1)))
    <3> DEFINE rows == Snapshot(FirstBook, d)
               n == Cardinality(DOMAIN FirstBook[d])
               prices == BestFirst(FirstBook, d)
    <3>1. /\ LevelsOK(FirstBook[d])
          /\ \A p \in DOMAIN FirstBook[d] : LevelSum(FirstBook[d][p]) \in Nat
      BY FirstBookIs
    <3>2. /\ DOMAIN rows = 1..n /\ Len(rows) = n
          /\ \A i \in 1..n : /\ rows[i].price = prices[i]
                             /\ rows[i].totalQty = LevelTotal(FirstBook[d][prices[i]])
      BY <3>1, SnapshotIs, Zenon
    <3>3. /\ n \in Nat
          /\ \A i, j \in 1..n : i < j => Precedes(d, prices[i], prices[j])
      BY <3>1, BestFirstOrders, Zenon
    <3>4. 1 \in DOMAIN rows => rows[1].price = BestOf(FirstBook, d)
      <4> SUFFICES ASSUME 1 \in DOMAIN rows PROVE rows[1].price = BestOf(FirstBook, d)
        OBVIOUS
      <4>1. 1 \in 1..n
        BY <3>2
      <4>2. DOMAIN FirstBook[d] # {}
        <5> SUFFICES ASSUME DOMAIN FirstBook[d] = {} PROVE FALSE
          OBVIOUS
        <5>1. n = 0
          BY FS_EmptySet
        <5> HIDE DEF n
        <5> QED BY <4>1, <5>1
      <4>3. prices[1] = BestOf(FirstBook, d)
        BY <3>1, <4>2, FirstIsBest
      <4> HIDE DEF rows, prices, n
      <4> QED BY <3>2, <4>1, <4>3
    <3>5. ASSUME NEW i \in 1..(Len(rows) - 1)
          PROVE  Precedes(d, rows[i].price, rows[i + 1].price)
      <4> HIDE DEF rows, prices, n
      <4>1. i \in 1..n /\ i + 1 \in 1..n /\ i < i + 1
        BY <3>2, <3>3
      <4>2. Precedes(d, prices[i], prices[i + 1])
        BY <3>3, <4>1
      <4> QED BY <3>2, <4>1, <4>2
    <3>6. ASSUME NEW i \in DOMAIN rows
          PROVE  rows[i].totalQty = Int32(TotalDepth(FirstBook, d, i)
                   - (IF i = 1 THEN 0 ELSE TotalDepth(FirstBook, d, i - 1)))
      <4>1. i \in 1..n
        BY <3>2
      <4>2. LevelTotal(FirstBook[d][prices[i]]) = Int32(TotalDepth(FirstBook, d, i)
                   - (IF i = 1 THEN 0 ELSE TotalDepth(FirstBook, d, i - 1)))
        BY <3>1, <4>1, RowIs
      <4>3. rows[i].totalQty = LevelTotal(FirstBook[d][prices[i]])
        BY <3>2, <4>1, Zenon
      <4> QED BY <4>2, <4>3, Zenon
    <3> QED BY <3>4, <3>5, <3>6, Zenon
  <2> QED BY <2>1, <2>2, Zenon DEF DepthsAgree
<1> QED BY <1>1, Invariance, BooksStayFinite, PTL

-----------------------------------------------------------------------------
(* The words of the checksum                                               *)

Words == Int \cup Symbols

\* n orders have 2n words.
LEMMA TwoEach ==
    ASSUME NEW n \in Nat
    PROVE  Total([i \in 1..n |-> 2]) = 2 * n
<1> DEFINE s == [i \in 1..n |-> 2]
           g == [i \in 0..n |-> 2 * i]
<1>1. s \in [1..n -> Int] /\ \A i \in 1..n : s[i] = 2
  OBVIOUS
<1> HIDE DEF s
<1>2. PICK f \in [0..n -> Int] :
         f[0] = 0 /\ (\A i \in 1..n : f[i] = f[i - 1] + s[i]) /\ Total(s) = f[n]
  BY <1>1, TotalUpto
<1>3. g[0] = 0 /\ \A i \in 1..n : g[i] = g[i - 1] + 2
  OBVIOUS
<1>4. g[n] = 2 * n
  OBVIOUS
<1> HIDE DEF g
<1>5. InStep(f, g, n)
  BY <1>1, <1>2, <1>3 DEF InStep
<1>6. f[n] = g[n]
  <2>1. \A i \in 0..n : f[i] = g[i]
    BY <1>5, StepwiseEqual
  <2> QED BY <2>1
<1> QED BY <1>2, <1>4, <1>6 DEF s

\* The words of a queue: two for each order
QueueWords(queue) == [i \in DOMAIN queue |-> OrderWords(queue[i])]

\* The words of an order are its id and its quantity.
LEMMA QueueWordsAre ==
    ASSUME NEW queue \in Seq(Resting)
    PROVE  /\ QueueWords(queue) \in [1..Len(queue) -> Seq(Words)]
           /\ Len(queue) \in Nat
           /\ \A i \in 1..Len(queue) :
                /\ QueueWords(queue)[i] = <<queue[i].id, queue[i].qty>>
                /\ Len(QueueWords(queue)[i]) = 2
<1>1. /\ Len(queue) \in Nat /\ DOMAIN queue = 1..Len(queue)
      /\ \A i \in 1..Len(queue) : queue[i].id \in Int /\ queue[i].qty \in Int
  BY QueueElements
<1>2. \A i \in 1..Len(queue) : QueueWords(queue)[i] = <<queue[i].id, queue[i].qty>>
  BY <1>1 DEF QueueWords, OrderWords
<1>3. \A x \in Int, y \in Int : <<x, y>> \in Seq(Words) /\ Len(<<x, y>>) = 2
  BY DEF Words
<1>4. \A i \in 1..Len(queue) :
         QueueWords(queue)[i] \in Seq(Words) /\ Len(QueueWords(queue)[i]) = 2
  BY <1>1, <1>2, <1>3
<1>5. QueueWords(queue) = [i \in 1..Len(queue) |-> QueueWords(queue)[i]]
  BY <1>1 DEF QueueWords
<1>6. QueueWords(queue) \in [1..Len(queue) -> Seq(Words)]
  BY <1>4, <1>5
<1> QED BY <1>1, <1>2, <1>4, <1>6

\* The conversion to an integer yields one.
LEMMA TruncatedType ==
    ASSUME NEW p \in Int
    PROVE  Truncated(p) \in Int
BY WidthAssumption DEF Truncated

\* A level has its converted price and two words for each order.
LEMMA LevelWordsAre ==
    ASSUME NEW queue \in Seq(Resting), NEW p \in Int
    PROVE  /\ FlattenSeq(QueueWords(queue)) \in Seq(Words)
           /\ LevelWords(p, queue) = <<Truncated(p)>> \o FlattenSeq(QueueWords(queue))
           /\ LevelWords(p, queue) \in Seq(Words)
           /\ Len(LevelWords(p, queue)) = 1 + 2 * Len(queue)
<1> DEFINE parts == QueueWords(queue)
           n == Len(queue)
<1>1. /\ parts \in [1..n -> Seq(Words)] /\ n \in Nat
      /\ \A i \in 1..n : Len(parts[i]) = 2
  BY QueueWordsAre
<1>2. LevelWords(p, queue) = <<Truncated(p)>> \o FlattenSeq(parts)
  BY Zenon DEF LevelWords, QueueWords
<1> HIDE DEF parts, n
<1>3. FlattenSeq(parts) \in Seq(Words) /\ Len(FlattenSeq(parts)) = Total([i \in 1..n |-> Len(parts[i])])
  BY <1>1, FlattenLength
<1>4. [i \in 1..n |-> Len(parts[i])] = [i \in 1..n |-> 2]
  BY <1>1
<1>5. Len(FlattenSeq(parts)) = 2 * n
  BY <1>1, <1>3, <1>4, TwoEach
<1> DEFINE x == FlattenSeq(parts)
<1>6. x \in Seq(Words) /\ Len(x) = 2 * n
  BY <1>3, <1>5
<1>7. <<Truncated(p)>> \in Seq(Words) /\ Len(<<Truncated(p)>>) = 1
  BY TruncatedType DEF Words
<1> HIDE DEF x
<1>8. <<Truncated(p)>> \o x \in Seq(Words) /\ Len(<<Truncated(p)>> \o x) = 1 + 2 * n
  BY <1>6, <1>7
<1> QED BY <1>2, <1>6, <1>8 DEF x, n, parts

\* A level of so many orders can be read off its words.
LEMMA LevelWordsTell ==
    ASSUME NEW q \in Seq(Resting), NEW r \in Seq(Resting), NEW p \in Int,
           Len(q) = Len(r), LevelWords(p, q) = LevelWords(p, r)
    PROVE  q = r
<1> DEFINE n == Len(q)
           x == FlattenSeq(QueueWords(q))
           y == FlattenSeq(QueueWords(r))
<1>1. x \in Seq(Words) /\ LevelWords(p, q) = <<Truncated(p)>> \o x /\ Len(<<Truncated(p)>> \o x) = 1 + 2 * n
  BY LevelWordsAre
<1>2. y \in Seq(Words) /\ LevelWords(p, r) = <<Truncated(p)>> \o y /\ Len(<<Truncated(p)>> \o y) = 1 + 2 * n
  BY LevelWordsAre
<1>3. /\ QueueWords(q) \in [1..n -> Seq(Words)] /\ n \in Nat
      /\ \A i \in 1..n : /\ QueueWords(q)[i] = <<q[i].id, q[i].qty>>
                         /\ Len(QueueWords(q)[i]) = 2
  BY QueueWordsAre
<1>4. /\ QueueWords(r) \in [1..n -> Seq(Words)]
      /\ \A i \in 1..n : /\ QueueWords(r)[i] = <<r[i].id, r[i].qty>>
                         /\ Len(QueueWords(r)[i]) = 2
  BY QueueWordsAre
<1> HIDE DEF x, y, n
<1>5. x = y
  <2>1. <<Truncated(p)>> \in Seq(Words) /\ Len(<<Truncated(p)>>) = 1
    BY TruncatedType DEF Words
  <2> DEFINE a == <<Truncated(p)>>
  <2>2. /\ a \in Seq(Words) /\ Len(a) = 1
        /\ Len(a \o x) = 1 + 2 * n /\ Len(a \o y) = 1 + 2 * n /\ a \o x = a \o y
    BY <1>1, <1>2, <2>1
  <2> HIDE DEF a
  <2>3. Len(a \o x) = Len(a) + Len(x) /\ Len(a \o y) = Len(a) + Len(y)
    BY <1>1, <1>2, <2>2
  <2>4. Len(x) = Len(y)
    BY <1>1, <1>2, <2>2, <2>3
  <2>5. /\ a \in Seq(Words) /\ x \in Seq(Words) /\ y \in Seq(Words)
        /\ Len(x) = Len(y) /\ a \o x = a \o y
    BY <1>1, <1>2, <2>2, <2>4
  <2> QED BY ONLY <2>5, ConcatParts
<1>6. QueueWords(q) = QueueWords(r)
  <2>1. \A i \in 1..n : Len(QueueWords(q)[i]) = Len(QueueWords(r)[i])
    BY <1>3, <1>4
  <2> QED BY <1>3, <1>4, <1>5, <2>1, FlattenInjective DEF x, y
<1>7. /\ DOMAIN q = 1..n /\ DOMAIN r = 1..n
      /\ \A i \in 1..n : q[i] \in Resting /\ r[i] \in Resting
  BY QueueElements DEF n
<1>8. \A i \in 1..n : q[i] = r[i]
  <2> TAKE i \in 1..n
  <2>1. q[i].id = r[i].id /\ q[i].qty = r[i].qty
    <3>1. <<q[i].id, q[i].qty>> = <<r[i].id, r[i].qty>>
      BY <1>3, <1>4, <1>6
    <3> QED BY <3>1
  <2>2. q[i] \in Resting /\ r[i] \in Resting
    BY <1>7
  <2>3. \A o \in Resting : o = [id |-> o.id, qty |-> o.qty]
    BY DEF Resting
  <2> QED BY <2>1, <2>2, <2>3
<1> QED BY <1>8, SeqEqual DEF n

\* The words of a side are those of its levels, the best first.
LEMMA SideWordsAre ==
    ASSUME NEW book, NEW d \in Side, LevelsOK(book[d])
    PROVE  LET n == Cardinality(DOMAIN book[d])
               prices == BestFirst(book, d)
               parts == [i \in 1..n |-> LevelWords(prices[i], book[d][prices[i]])]
           IN /\ parts \in [1..n -> Seq(Words)]
              /\ \A i \in 1..n : Len(parts[i]) = 1 + 2 * Len(book[d][prices[i]])
              /\ SideWords(book, d) = FlattenSeq(parts)
              /\ SideWords(book, d) \in Seq(Words)
              /\ Len(SideWords(book, d)) =
                   Total([i \in 1..n |-> 1 + 2 * Len(book[d][prices[i]])])
<1> DEFINE levels == book[d]
           n == Cardinality(DOMAIN levels)
           prices == BestFirst(book, d)
           parts == [i \in 1..n |-> LevelWords(prices[i], levels[prices[i]])]
<1>1. n \in Nat /\ prices \in [1..n -> DOMAIN levels]
  BY BestFirstOrders DEF Enumerates
<1>2. \A p \in DOMAIN levels : p \in Int /\ levels[p] \in Seq(Resting)
  BY LevelsAreFinite DEF LevelsOK
<1>3. \A p \in DOMAIN levels : /\ LevelWords(p, levels[p]) \in Seq(Words)
                               /\ Len(LevelWords(p, levels[p])) = 1 + 2 * Len(levels[p])
  <2> TAKE p \in DOMAIN levels
  <2> DEFINE queue == levels[p]
  <2>1. p \in Int /\ queue \in Seq(Resting)
    BY <1>2
  <2> HIDE DEF queue
  <2>2. LevelWords(p, queue) \in Seq(Words) /\ Len(LevelWords(p, queue)) = 1 + 2 * Len(queue)
    BY <2>1, LevelWordsAre
  <2> QED BY <2>2 DEF queue
<1>4. SideWords(book, d) = FlattenSeq([i \in DOMAIN prices |->
                                          LevelWords(prices[i], levels[prices[i]])])
  BY Zenon DEF SideWords
<1> HIDE DEF levels, n, prices
<1>5. \A i \in 1..n : parts[i] = LevelWords(prices[i], levels[prices[i]])
  OBVIOUS
<1>6. parts = [i \in DOMAIN prices |-> LevelWords(prices[i], levels[prices[i]])]
  BY <1>1
<1>7. parts \in [1..n -> Seq(Words)]
  BY <1>1, <1>3
<1> HIDE DEF parts
<1>8. \A i \in 1..n : Len(parts[i]) = 1 + 2 * Len(levels[prices[i]])
  BY <1>1, <1>3, <1>5
<1>9. SideWords(book, d) = FlattenSeq(parts)
  BY <1>4, <1>6
<1>10. /\ FlattenSeq(parts) \in Seq(Words)
       /\ Len(FlattenSeq(parts)) = Total([i \in 1..n |-> Len(parts[i])])
  BY <1>1, <1>7, FlattenLength
<1>11. [i \in 1..n |-> Len(parts[i])] = [i \in 1..n |-> 1 + 2 * Len(levels[prices[i]])]
  BY <1>8
<1> QED BY <1>7, <1>8, <1>9, <1>10, <1>11, Zenon DEF parts, levels, n, prices

\* Two sides with as many orders at the same prices
SameShape(levels, other) ==
    /\ DOMAIN levels = DOMAIN other
    /\ \A p \in DOMAIN levels : Len(levels[p]) = Len(other[p])

\* The queues of a side of known shape can be read off its words.
LEMMA SideWordsTell ==
    ASSUME NEW book, NEW other, NEW d \in Side, LevelsOK(book[d]), LevelsOK(other[d]),
           SameShape(book[d], other[d])
    PROVE  /\ Len(SideWords(book, d)) = Len(SideWords(other, d))
           /\ SideWords(book, d) = SideWords(other, d)
                => \A p \in DOMAIN book[d] : book[d][p] = other[d][p]
<1> DEFINE S == DOMAIN book[d]
           n == Cardinality(S)
           prices == BestFirst(book, d)
           parts == [i \in 1..n |-> LevelWords(prices[i], book[d][prices[i]])]
           others == [i \in 1..n |-> LevelWords(prices[i], other[d][prices[i]])]
<1>1. DOMAIN other[d] = S /\ BestFirst(other, d) = prices
  BY DEF SameShape, BestFirst
<1>2. n \in Nat /\ Enumerates(prices, n, S)
  BY BestFirstOrders
<1>3. /\ parts \in [1..n -> Seq(Words)]
      /\ \A i \in 1..n : Len(parts[i]) = 1 + 2 * Len(book[d][prices[i]])
      /\ SideWords(book, d) = FlattenSeq(parts)
      /\ Len(SideWords(book, d)) = Total([i \in 1..n |-> 1 + 2 * Len(book[d][prices[i]])])
  BY SideWordsAre, Zenon
<1>4. /\ others \in [1..n -> Seq(Words)]
      /\ \A i \in 1..n : Len(others[i]) = 1 + 2 * Len(other[d][prices[i]])
      /\ SideWords(other, d) = FlattenSeq(others)
      /\ Len(SideWords(other, d)) = Total([i \in 1..n |-> 1 + 2 * Len(other[d][prices[i]])])
  <2>1. LET m == Cardinality(DOMAIN other[d])
            ps == BestFirst(other, d)
            qs == [i \in 1..m |-> LevelWords(ps[i], other[d][ps[i]])]
        IN /\ qs \in [1..m -> Seq(Words)]
           /\ \A i \in 1..m : Len(qs[i]) = 1 + 2 * Len(other[d][ps[i]])
           /\ SideWords(other, d) = FlattenSeq(qs)
           /\ Len(SideWords(other, d)) = Total([i \in 1..m |-> 1 + 2 * Len(other[d][ps[i]])])
    BY SideWordsAre, Zenon
  <2> QED BY <1>1, <2>1, Zenon
<1>5. \A i \in 1..n : parts[i] = LevelWords(prices[i], book[d][prices[i]])
                      /\ others[i] = LevelWords(prices[i], other[d][prices[i]])
  OBVIOUS
<1>6. \A p \in S : p \in Int /\ book[d][p] \in Seq(Resting) /\ other[d][p] \in Seq(Resting)
  BY <1>1, LevelsAreFinite DEF LevelsOK
<1>7. \A p \in S : Len(book[d][p]) = Len(other[d][p])
  BY DEF SameShape
<1> HIDE DEF S, n, prices, parts, others
<1>8. \A i \in 1..n : prices[i] \in S /\ Len(book[d][prices[i]]) = Len(other[d][prices[i]])
  BY <1>2, <1>7 DEF Enumerates
<1>9. Len(SideWords(book, d)) = Len(SideWords(other, d))
  <2>1. [i \in 1..n |-> 1 + 2 * Len(book[d][prices[i]])]
          = [i \in 1..n |-> 1 + 2 * Len(other[d][prices[i]])]
    BY <1>8
  <2> QED BY <1>3, <1>4, <2>1
<1>10. ASSUME SideWords(book, d) = SideWords(other, d), NEW p \in S
       PROVE  book[d][p] = other[d][p]
  <2>1. \A i \in 1..n : Len(parts[i]) = Len(others[i])
    BY <1>3, <1>4, <1>8
  <2>2. FlattenSeq(parts) = FlattenSeq(others)
    BY <1>3, <1>4, <1>10, Zenon
  <2>3. parts = others
    BY <1>2, <1>3, <1>4, <2>1, <2>2, FlattenInjective
  <2>4. PICK i \in 1..n : prices[i] = p
    BY <1>2 DEF Enumerates
  <2>5. LevelWords(p, book[d][p]) = LevelWords(p, other[d][p])
    BY <1>5, <2>3, <2>4
  <2> DEFINE q == book[d][p]
             r == other[d][p]
  <2>6. q \in Seq(Resting) /\ r \in Seq(Resting) /\ p \in Int /\ Len(q) = Len(r)
    BY <1>6, <1>7
  <2>7. LevelWords(p, q) = LevelWords(p, r)
    BY <2>5
  <2> HIDE DEF q, r
  <2>8. q = r
    BY <2>6, <2>7, LevelWordsTell
  <2> QED BY <2>8 DEF q, r
<1> QED BY <1>9, <1>10 DEF S

\* A side that lacks an order of another has fewer words.
LEMMA SideWordsFewer ==
    ASSUME NEW book, NEW other, NEW d \in Side, LevelsOK(book[d]), LevelsOK(other[d]),
           DOMAIN book[d] \subseteq DOMAIN other[d],
           \A p \in DOMAIN book[d] : Len(book[d][p]) <= Len(other[d][p]),
           NEW p \in DOMAIN other[d],
           p \in DOMAIN book[d] => Len(book[d][p]) < Len(other[d][p])
    PROVE  /\ Len(SideWords(book, d)) \in Nat /\ Len(SideWords(other, d)) \in Nat
           /\ Len(SideWords(book, d)) < Len(SideWords(other, d))
<1> DEFINE S == DOMAIN book[d]
           T == DOMAIN other[d]
           m == Cardinality(S)
           n == Cardinality(T)
           a == BestFirst(book, d)
           b == BestFirst(other, d)
           u == [x \in S |-> 1 + 2 * Len(book[d][x])]
           w == [x \in T |-> 1 + 2 * Len(other[d][x])]
<1>1. m \in Nat /\ Enumerates(a, m, S)
  BY BestFirstOrders
<1>2. n \in Nat /\ Enumerates(b, n, T)
  BY BestFirstOrders
<1>3. Len(SideWords(book, d)) = Total([i \in 1..m |-> 1 + 2 * Len(book[d][a[i]])])
  BY SideWordsAre, Zenon
<1>4. Len(SideWords(other, d)) = Total([i \in 1..n |-> 1 + 2 * Len(other[d][b[i]])])
  BY SideWordsAre, Zenon
<1>5. /\ \A x \in S : Len(book[d][x]) \in Nat
      /\ \A x \in T : Len(other[d][x]) \in Nat
  BY DEF LevelsOK
<1>6. S \subseteq T /\ p \in T /\ (p \in S => Len(book[d][p]) < Len(other[d][p]))
      /\ \A x \in S : Len(book[d][x]) <= Len(other[d][x])
  OBVIOUS
<1> HIDE DEF S, T, m, n, a, b
<1>7. /\ \A x \in S : u[x] = 1 + 2 * Len(book[d][x])
      /\ \A x \in T : w[x] = 1 + 2 * Len(other[d][x])
  OBVIOUS
<1>8. u \in [S -> Nat] /\ w \in [T -> Nat]
  BY <1>5
<1> HIDE DEF u, w
<1>9. \A x \in S : u[x] <= w[x]
  BY <1>5, <1>6, <1>7
<1>10. w[p] > 0 /\ (p \in S => u[p] < w[p])
  BY <1>5, <1>6, <1>7
<1>11. Fewer(S, u, T, w, p)
  BY <1>6, <1>8, <1>9, <1>10 DEF Fewer
<1>12. /\ Weighed(a, m, u) \in Nat /\ Weighed(b, n, w) \in Nat
       /\ Weighed(a, m, u) < Weighed(b, n, w)
  BY <1>1, <1>2, <1>11, LessInTotal
<1>13. /\ [i \in 1..m |-> u[a[i]]] = [i \in 1..m |-> 1 + 2 * Len(book[d][a[i]])]
       /\ [i \in 1..n |-> w[b[i]]] = [i \in 1..n |-> 1 + 2 * Len(other[d][b[i]])]
  BY <1>1, <1>2, <1>7 DEF Enumerates
<1> QED BY <1>3, <1>4, <1>12, <1>13 DEF Weighed

\* The words of a book are its symbol and those of its two sides.
LEMMA BookWordsAre ==
    ASSUME NEW s \in Symbols, NEW book, \A d \in Side : LevelsOK(book[d])
    PROVE  LET bid == SideWords(book, "Bid")
               ask == SideWords(book, "Ask")
           IN /\ bid \in Seq(Words) /\ ask \in Seq(Words)
              /\ <<s>> \o bid \in Seq(Words)
              /\ <<s>> \in Seq(Words) /\ Len(<<s>>) = 1
              /\ BookWords(s, book) = (<<s>> \o bid) \o ask
              /\ BookWords(s, book) \in Seq(Words)
              /\ Len(BookWords(s, book)) = 1 + Len(bid) + Len(ask)
<1> DEFINE bid == SideWords(book, "Bid")
           ask == SideWords(book, "Ask")
           head == <<s>>
<1>1. "Bid" \in Side /\ "Ask" \in Side
  BY DEF Side
<1>2. bid \in Seq(Words)
  BY <1>1, SideWordsAre
<1>3. ask \in Seq(Words)
  BY <1>1, SideWordsAre
<1>4. head \in Seq(Words) /\ Len(head) = 1
  BY DEF Words
<1>5. BookWords(s, book) = (head \o bid) \o ask
  BY Zenon DEF BookWords
<1> HIDE DEF bid, ask, head
<1>6. head \o bid \in Seq(Words) /\ Len(head \o bid) = 1 + Len(bid)
  <2>1. \A x, y \in Seq(Words) : x \o y \in Seq(Words) /\ Len(x \o y) = Len(x) + Len(y)
    OBVIOUS
  <2> QED BY ONLY <1>2, <1>4, <2>1
<1> DEFINE front == head \o bid
<1>7. front \in Seq(Words) /\ Len(front) = 1 + Len(bid)
  BY <1>6
<1> HIDE DEF front
<1>8. front \o ask \in Seq(Words) /\ Len(front \o ask) = Len(front) + Len(ask)
  BY <1>3, <1>7
<1>9. BookWords(s, book) \in Seq(Words) /\ Len(BookWords(s, book)) = 1 + Len(bid) + Len(ask)
  BY <1>5, <1>7, <1>8 DEF front
<1> QED BY <1>2, <1>3, <1>4, <1>5, <1>6, <1>9 DEF bid, ask, head

\* Books of one shape have as many words, and the same words only when they
\* are the same.
LEMMA BookWordsTell ==
    ASSUME NEW s \in Symbols, NEW book, NEW other,
           \A d \in Side : LevelsOK(book[d]) /\ LevelsOK(other[d]),
           \A d \in Side : SameShape(book[d], other[d])
    PROVE  /\ Len(BookWords(s, book)) = Len(BookWords(s, other))
           /\ BookWords(s, book) = BookWords(s, other)
                => \A d \in Side : \A p \in DOMAIN book[d] : book[d][p] = other[d][p]
<1> DEFINE a == SideWords(book, "Bid")
           b == SideWords(book, "Ask")
           c == SideWords(other, "Bid")
           e == SideWords(other, "Ask")
           head == <<s>>
<1>1. "Bid" \in Side /\ "Ask" \in Side /\ \A d \in Side : d = "Bid" \/ d = "Ask"
  BY DEF Side
<1>2. /\ a \in Seq(Words) /\ b \in Seq(Words) /\ head \o a \in Seq(Words)
      /\ head \in Seq(Words)
      /\ BookWords(s, book) = (head \o a) \o b
      /\ Len(BookWords(s, book)) = 1 + Len(a) + Len(b)
  BY BookWordsAre, Zenon
<1>3. /\ c \in Seq(Words) /\ e \in Seq(Words) /\ head \o c \in Seq(Words)
      /\ BookWords(s, other) = (head \o c) \o e
      /\ Len(BookWords(s, other)) = 1 + Len(c) + Len(e)
  BY BookWordsAre, Zenon
<1>4. /\ Len(a) = Len(c)
      /\ a = c => \A p \in DOMAIN book["Bid"] : book["Bid"][p] = other["Bid"][p]
  BY <1>1, SideWordsTell
<1>5. /\ Len(b) = Len(e)
      /\ b = e => \A p \in DOMAIN book["Ask"] : book["Ask"][p] = other["Ask"][p]
  BY <1>1, SideWordsTell
<1> HIDE DEF a, b, c, e, head
<1>6. ASSUME BookWords(s, book) = BookWords(s, other)
      PROVE  a = c /\ b = e
  <2> DEFINE x == head \o a
             y == head \o c
  <2>1. /\ x \in Seq(Words) /\ y \in Seq(Words) /\ b \in Seq(Words) /\ e \in Seq(Words)
        /\ Len(b) = Len(e) /\ x \o b = y \o e
    BY <1>2, <1>3, <1>5, <1>6
  <2> HIDE DEF x, y
  <2>2. x = y /\ b = e
    <3>1. x = y
      BY ONLY <2>1, ConcatParts
    <3>2. x \in Seq(Words) /\ b \in Seq(Words) /\ e \in Seq(Words)
          /\ Len(b) = Len(e) /\ x \o b = x \o e
      BY <2>1, <3>1
    <3>3. b = e
      BY ONLY <3>2, ConcatParts
    <3> QED BY <3>1, <3>3
  <2>3. head \in Seq(Words) /\ a \in Seq(Words) /\ c \in Seq(Words)
        /\ Len(a) = Len(c) /\ head \o a = head \o c
    BY <1>2, <1>3, <1>4, <2>2 DEF x, y
  <2>4. a = c
    BY ONLY <2>3, ConcatParts
  <2> QED BY <2>2, <2>4
<1>7. Len(BookWords(s, book)) = Len(BookWords(s, other))
  BY <1>2, <1>3, <1>4, <1>5
<1> QED BY <1>1, <1>4, <1>5, <1>6, <1>7

\* The words hashed are those of the books in the order of their symbols.
LEMMA ChecksumWordsAre ==
    ASSUME NEW all, BooksOK(all), IsFiniteSet(DOMAIN all)
    PROVE  LET n == Cardinality(DOMAIN all)
               symbols == InRankOrder(all)
               parts == [i \in 1..n |-> BookWords(symbols[i], all[symbols[i]])]
           IN /\ n \in Nat /\ Enumerates(symbols, n, DOMAIN all)
              /\ parts \in [1..n -> Seq(Words)]
              /\ ChecksumWords(all) = FlattenSeq(parts)
              /\ Len(ChecksumWords(all)) = Total([i \in 1..n |-> Len(parts[i])])
<1> DEFINE S == DOMAIN all
           n == Cardinality(S)
           symbols == InRankOrder(all)
           parts == [i \in 1..n |-> BookWords(symbols[i], all[symbols[i]])]
<1>1. S \subseteq Symbols /\ \A s \in S, d \in Side : LevelsOK(all[s][d])
  BY DEF BooksOK, BookOK
<1>2. n \in Nat /\ Enumerates(symbols, n, S)
  BY <1>1, RankOrders
<1>3. ChecksumWords(all) = FlattenSeq([i \in DOMAIN symbols |->
                                          BookWords(symbols[i], all[symbols[i]])])
  BY Zenon DEF ChecksumWords
<1> HIDE DEF S, n, symbols
<1>4. symbols \in [1..n -> S]
  BY <1>2 DEF Enumerates
<1>5. \A s \in S : BookWords(s, all[s]) \in Seq(Words)
  <2> TAKE s \in S
  <2> DEFINE book == all[s]
  <2>1. s \in Symbols /\ \A d \in Side : LevelsOK(book[d])
    BY <1>1
  <2> HIDE DEF book
  <2>2. BookWords(s, book) \in Seq(Words)
    BY <2>1, BookWordsAre
  <2> QED BY <2>2 DEF book
<1>6. parts \in [1..n -> Seq(Words)]
  BY <1>4, <1>5
<1>7. parts = [i \in DOMAIN symbols |-> BookWords(symbols[i], all[symbols[i]])]
  BY <1>4
<1> HIDE DEF parts
<1>8. ChecksumWords(all) = FlattenSeq(parts)
  BY <1>3, <1>7
<1>9. Len(FlattenSeq(parts)) = Total([i \in 1..n |-> Len(parts[i])])
  BY <1>2, <1>6, FlattenLength
<1> QED BY <1>2, <1>6, <1>8, <1>9, Zenon DEF S, n, symbols, parts

\* The queues of books of known shape can be read off the words of them all.
LEMMA ChecksumTells ==
    ASSUME NEW all, BooksOK(all), IsFiniteSet(DOMAIN all),
           NEW other, BooksOK(other), DOMAIN other = DOMAIN all,
           \A s \in DOMAIN all, d \in Side : SameShape(all[s][d], other[s][d]),
           ChecksumWords(all) = ChecksumWords(other)
    PROVE  \A s \in DOMAIN all, d \in Side :
              \A p \in DOMAIN all[s][d] : all[s][d][p] = other[s][d][p]
<1> DEFINE S == DOMAIN all
           n == Cardinality(S)
           symbols == InRankOrder(all)
           parts == [i \in 1..n |-> BookWords(symbols[i], all[symbols[i]])]
           others == [i \in 1..n |-> BookWords(symbols[i], other[symbols[i]])]
<1>1. /\ n \in Nat /\ Enumerates(symbols, n, S)
      /\ parts \in [1..n -> Seq(Words)] /\ ChecksumWords(all) = FlattenSeq(parts)
  BY ChecksumWordsAre, Zenon
<1>2. /\ others \in [1..n -> Seq(Words)] /\ ChecksumWords(other) = FlattenSeq(others)
  <2>1. InRankOrder(other) = symbols
    BY DEF InRankOrder
  <2>2. IsFiniteSet(DOMAIN other)
    OBVIOUS
  <2>3. LET m == Cardinality(DOMAIN other)
            ss == InRankOrder(other)
            qs == [i \in 1..m |-> BookWords(ss[i], other[ss[i]])]
        IN qs \in [1..m -> Seq(Words)] /\ ChecksumWords(other) = FlattenSeq(qs)
    BY <2>2, ChecksumWordsAre, Zenon
  <2> QED BY <2>1, <2>3, Zenon
<1>3. \A s \in S, d \in Side : LevelsOK(all[s][d]) /\ LevelsOK(other[s][d])
  BY DEF BooksOK, BookOK
<1>4. S \subseteq Symbols
  BY DEF BooksOK
<1>5. \A i \in 1..n : /\ parts[i] = BookWords(symbols[i], all[symbols[i]])
                      /\ others[i] = BookWords(symbols[i], other[symbols[i]])
  OBVIOUS
<1>6. \A s \in S, d \in Side : SameShape(all[s][d], other[s][d])
  OBVIOUS
<1>7. FlattenSeq(parts) = FlattenSeq(others)
  BY <1>1, <1>2, Zenon
<1> HIDE DEF S, n, symbols, parts, others
<1>8. ASSUME NEW s \in S
      PROVE  /\ Len(BookWords(s, all[s])) = Len(BookWords(s, other[s]))
             /\ BookWords(s, all[s]) = BookWords(s, other[s])
                  => \A d \in Side : \A p \in DOMAIN all[s][d] : all[s][d][p] = other[s][d][p]
  <2> DEFINE b == all[s]
             c == other[s]
  <2>1. /\ s \in Symbols /\ \A d \in Side : LevelsOK(b[d]) /\ LevelsOK(c[d])
        /\ \A d \in Side : SameShape(b[d], c[d])
    BY <1>3, <1>4, <1>6
  <2> HIDE DEF b, c
  <2>2. /\ Len(BookWords(s, b)) = Len(BookWords(s, c))
        /\ BookWords(s, b) = BookWords(s, c)
             => \A d \in Side : \A p \in DOMAIN b[d] : b[d][p] = c[d][p]
    BY <2>1, BookWordsTell
  <2> QED BY <2>2 DEF b, c
<1>9. \A i \in 1..n : Len(parts[i]) = Len(others[i])
  BY <1>1, <1>5, <1>8 DEF Enumerates
<1>10. parts = others
  BY <1>1, <1>2, <1>7, <1>9, FlattenInjective
<1>11. ASSUME NEW s \in S, NEW d \in Side, NEW p \in DOMAIN all[s][d]
       PROVE  all[s][d][p] = other[s][d][p]
  <2>1. PICK i \in 1..n : symbols[i] = s
    BY <1>1 DEF Enumerates
  <2>2. BookWords(s, all[s]) = BookWords(s, other[s])
    BY <1>5, <1>10, <2>1
  <2> QED BY <1>8, <2>2
<1> QED BY <1>11 DEF S

\* Fewer words of one book and no more of any other are fewer in all.
LEMMA ChecksumFewer ==
    ASSUME NEW all, BooksOK(all), IsFiniteSet(DOMAIN all),
           NEW other, BooksOK(other), DOMAIN other = DOMAIN all,
           \A t \in DOMAIN all : Len(BookWords(t, all[t])) <= Len(BookWords(t, other[t])),
           NEW s \in DOMAIN all, Len(BookWords(s, all[s])) < Len(BookWords(s, other[s]))
    PROVE  ChecksumWords(all) # ChecksumWords(other)
<1> DEFINE S == DOMAIN all
           n == Cardinality(S)
           symbols == InRankOrder(all)
           parts == [i \in 1..n |-> BookWords(symbols[i], all[symbols[i]])]
           others == [i \in 1..n |-> BookWords(symbols[i], other[symbols[i]])]
           u == [t \in S |-> Len(BookWords(t, all[t]))]
           w == [t \in S |-> Len(BookWords(t, other[t]))]
<1>1. /\ n \in Nat /\ Enumerates(symbols, n, S)
      /\ Len(ChecksumWords(all)) = Total([i \in 1..n |-> Len(parts[i])])
  BY ChecksumWordsAre, Zenon
<1>2. Len(ChecksumWords(other)) = Total([i \in 1..n |-> Len(others[i])])
  <2>1. InRankOrder(other) = symbols
    BY DEF InRankOrder
  <2>2. IsFiniteSet(DOMAIN other)
    OBVIOUS
  <2>3. LET m == Cardinality(DOMAIN other)
            ss == InRankOrder(other)
            qs == [i \in 1..m |-> BookWords(ss[i], other[ss[i]])]
        IN Len(ChecksumWords(other)) = Total([i \in 1..m |-> Len(qs[i])])
    BY <2>2, ChecksumWordsAre, Zenon
  <2> QED BY <2>1, <2>3, Zenon
<1>3. /\ S \subseteq Symbols
      /\ \A t \in S, d \in Side : LevelsOK(all[t][d]) /\ LevelsOK(other[t][d])
  BY DEF BooksOK, BookOK
<1>4. /\ \A i \in 1..n : /\ parts[i] = BookWords(symbols[i], all[symbols[i]])
                         /\ others[i] = BookWords(symbols[i], other[symbols[i]])
      /\ \A t \in S : /\ u[t] = Len(BookWords(t, all[t]))
                      /\ w[t] = Len(BookWords(t, other[t]))
      /\ u = [t \in S |-> u[t]] /\ w = [t \in S |-> w[t]]
  OBVIOUS
<1>5. /\ \A t \in S : Len(BookWords(t, all[t])) <= Len(BookWords(t, other[t]))
      /\ s \in S /\ Len(BookWords(s, all[s])) < Len(BookWords(s, other[s]))
  OBVIOUS
<1> HIDE DEF S, n, symbols, parts, others, u, w
<1>6. ASSUME NEW t \in S
      PROVE  Len(BookWords(t, all[t])) \in Nat /\ Len(BookWords(t, other[t])) \in Nat
  <2> DEFINE b == all[t]
             c == other[t]
  <2>1. t \in Symbols /\ (\A d \in Side : LevelsOK(b[d])) /\ (\A d \in Side : LevelsOK(c[d]))
    BY <1>3
  <2> HIDE DEF b, c
  <2>2. BookWords(t, b) \in Seq(Words)
    BY <2>1, BookWordsAre
  <2>3. BookWords(t, c) \in Seq(Words)
    BY <2>1, BookWordsAre
  <2> DEFINE x == BookWords(t, b)
             y == BookWords(t, c)
  <2>4. x \in Seq(Words) /\ y \in Seq(Words)
    BY <2>2, <2>3
  <2> HIDE DEF x, y
  <2>5. Len(x) \in Nat /\ Len(y) \in Nat
    BY <2>4
  <2> QED BY <2>5 DEF x, y, b, c
<1>7. u \in [S -> Nat] /\ w \in [S -> Nat]
  BY <1>4, <1>6
<1>8. \A t \in S : u[t] <= w[t]
  BY <1>4, <1>5
<1>9. u[s] < w[s] /\ w[s] > 0
  <2>1. u[s] < w[s]
    BY <1>4, <1>5
  <2>2. u[s] \in Nat /\ w[s] \in Nat
    BY <1>5, <1>7
  <2> QED BY <2>1, <2>2
<1>10. Fewer(S, u, S, w, s)
  BY <1>5, <1>7, <1>8, <1>9 DEF Fewer
<1>11. /\ Weighed(symbols, n, u) \in Nat /\ Weighed(symbols, n, w) \in Nat
       /\ Weighed(symbols, n, u) < Weighed(symbols, n, w)
  BY <1>1, <1>10, LessInTotal
<1>12. /\ [i \in 1..n |-> u[symbols[i]]] = [i \in 1..n |-> Len(parts[i])]
       /\ [i \in 1..n |-> w[symbols[i]]] = [i \in 1..n |-> Len(others[i])]
  <2>1. \A i \in 1..n : symbols[i] \in S
    BY <1>1 DEF Enumerates
  <2>2. \A i \in 1..n : u[symbols[i]] = Len(parts[i]) /\ w[symbols[i]] = Len(others[i])
    BY <1>4, <2>1
  <2> QED BY <2>2
<1>13. Len(ChecksumWords(all)) < Len(ChecksumWords(other)) /\ Len(ChecksumWords(all)) \in Nat
  BY <1>1, <1>2, <1>11, <1>12 DEF Weighed
<1> QED BY <1>13

\* An alteration takes an order away, or leaves as many and changes one.
LEMMA AlterationsAre ==
    ASSUME NEW old \in Seq(Resting), NEW bound \in Int, QueueSound(old, bound),
           NEW queue \in Alterations(old)
    PROVE  /\ queue \in Seq(Resting)
           /\ \/ Len(queue) = Len(old) - 1
              \/ Len(queue) = Len(old) /\ queue # old
<1>1. /\ Len(old) \in Nat /\ DOMAIN old = 1..Len(old)
      /\ \A i \in 1..Len(old) : old[i] \in Resting /\ old[i].id \in Int /\ old[i].qty \in Int
  BY QueueElements
<1>2. CASE \E i \in DOMAIN old : queue = RemoveAt(old, i)
  <2>1. PICK i \in DOMAIN old : queue = RemoveAt(old, i)
    BY <1>2
  <2> QED BY <2>1, RemoveAtElements
<1>3. CASE \E i \in DOMAIN old : queue = [old EXCEPT ![i].qty = @ + 1]
  <2>1. PICK i \in DOMAIN old : queue = [old EXCEPT ![i].qty = @ + 1]
    BY <1>3
  <2> DEFINE more == [old[i] EXCEPT !.qty = old[i].qty + 1]
  <2>2. more \in Resting /\ more.qty = old[i].qty + 1
    BY <1>1, <2>1 DEF Resting
  <2>3. queue = [old EXCEPT ![i] = more]
    BY <2>1
  <2> HIDE DEF more
  <2>4. queue \in Seq(Resting) /\ Len(queue) = Len(old) /\ queue[i] = more
    <3>1. old \in Seq(Resting) /\ i \in DOMAIN old /\ more \in Resting
      BY <2>1, <2>2
    <3> QED BY ONLY <3>1, <2>3
  <2>5. queue[i].qty # old[i].qty
    BY <1>1, <2>1, <2>2, <2>4
  <2> QED BY <2>4, <2>5
<1>4. CASE \E i \in 1..(Len(old) - 1) :
              queue = [old EXCEPT ![i] = old[i + 1], ![i + 1] = old[i]]
  <2>1. PICK i \in 1..(Len(old) - 1) :
                queue = [old EXCEPT ![i] = old[i + 1], ![i + 1] = old[i]]
    BY <1>4
  <2>2. i \in DOMAIN old /\ i + 1 \in DOMAIN old /\ i < i + 1
    BY <1>1
  <2>3. queue \in Seq(Resting) /\ Len(queue) = Len(old) /\ queue[i] = old[i + 1]
    BY <1>1, <2>1, <2>2
  <2>4. old[i].id < old[i + 1].id
    BY <2>2 DEF QueueSound
  <2>5. queue[i].id # old[i].id
    BY <1>1, <2>2, <2>3, <2>4
  <2> QED BY <2>3, <2>5
<1> QED BY <1>2, <1>3, <1>4 DEF Alterations

\* The books before and after one level is settled
OneSettled(new, all, s, d, p, queue) ==
    /\ BooksOK(new) /\ DOMAIN new = DOMAIN all
    /\ \A t \in DOMAIN all, e \in Side : t # s \/ e # d => new[t][e] = all[t][e]
    /\ DOMAIN new[s][d] = IF queue = <<>> THEN DOMAIN all[s][d] \ {p}
                                          ELSE DOMAIN all[s][d]
    /\ \A q \in DOMAIN new[s][d] :
          new[s][d][q] = IF q = p THEN queue ELSE all[s][d][q]

\* One level is settled and no other changes.
LEMMA SettledIs ==
    ASSUME NEW all, BooksOK(all), NEW s \in DOMAIN all, NEW d \in Side,
           NEW p \in DOMAIN all[s][d], NEW queue \in Seq(Resting)
    PROVE  OneSettled(Settled(all, s, d, p, queue), all, s, d, p, queue)
<1> DEFINE old == all[s][d]
           levels == SettleLevel(old, p, queue)
           new == [all EXCEPT ![s][d] = levels]
<1>1. LevelsOK(old) /\ p \in DOMAIN old
  BY DEF BooksOK, BookOK
<1>2. /\ LevelsOK(levels)
      /\ DOMAIN levels = IF queue = <<>> THEN DOMAIN old \ {p} ELSE DOMAIN old
      /\ \A q \in DOMAIN levels : levels[q] = IF q = p THEN queue ELSE old[q]
  BY <1>1 DEF LevelsOK, SettleLevel, PutLevel
<1> HIDE DEF levels
<1>3. /\ BooksOK(new) /\ DOMAIN new = DOMAIN all
      /\ \A t \in DOMAIN all, e \in Side :
            new[t][e] = IF t = s /\ e = d THEN levels ELSE all[t][e]
  BY ONLY BooksOK(all), s \in DOMAIN all, d \in Side, <1>2, ReplaceSide
<1> HIDE DEF new
<1>4. /\ \A t \in DOMAIN all, e \in Side : t # s \/ e # d => new[t][e] = all[t][e]
      /\ new[s][d] = levels
  BY <1>3
<1>5. /\ BooksOK(new) /\ DOMAIN new = DOMAIN all
      /\ \A t \in DOMAIN all, e \in Side : t # s \/ e # d => new[t][e] = all[t][e]
      /\ DOMAIN new[s][d] = IF queue = <<>> THEN DOMAIN old \ {p} ELSE DOMAIN old
      /\ \A q \in DOMAIN new[s][d] : new[s][d][q] = IF q = p THEN queue ELSE old[q]
  BY <1>2, <1>3, <1>4
<1> QED BY <1>5 DEF new, levels, Settled, OneSettled

\* As many orders as before, and not the same: the words differ.
LEMMA ChangeShows ==
    ASSUME NEW all, BooksOK(all), IsFiniteSet(DOMAIN all),
           NEW s \in DOMAIN all, NEW d \in Side, NEW p \in DOMAIN all[s][d],
           all[s][d][p] # <<>>,
           NEW queue \in Seq(Resting), Len(queue) = Len(all[s][d][p]),
           queue # all[s][d][p]
    PROVE  ChecksumWords(Settled(all, s, d, p, queue)) # ChecksumWords(all)
<1> DEFINE new == Settled(all, s, d, p, queue)
<1>1. LevelsOK(all[s][d])
  BY DEF BooksOK, BookOK
<1>2. all[s][d][p] \in Seq(Resting) /\ queue # <<>>
  BY <1>1 DEF LevelsOK
<1>0. OneSettled(new, all, s, d, p, queue)
  BY SettledIs
<1> HIDE DEF new
<1>3. /\ BooksOK(new) /\ DOMAIN new = DOMAIN all
      /\ \A t \in DOMAIN all, e \in Side : t # s \/ e # d => new[t][e] = all[t][e]
      /\ DOMAIN new[s][d] = IF queue = <<>> THEN DOMAIN all[s][d] \ {p}
                                            ELSE DOMAIN all[s][d]
      /\ \A q \in DOMAIN new[s][d] :
            new[s][d][q] = IF q = p THEN queue ELSE all[s][d][q]
  BY <1>0 DEF OneSettled
<1>4. \A t \in DOMAIN all, e \in Side : SameShape(all[t][e], new[t][e])
  <2> TAKE t \in DOMAIN all, e \in Side
  <2>1. CASE t = s /\ e = d
    BY <1>2, <1>3, <2>1 DEF SameShape
  <2>2. CASE t # s \/ e # d
    BY <1>3, <2>2 DEF SameShape
  <2> QED BY <2>1, <2>2
<1>5. ASSUME ChecksumWords(all) = ChecksumWords(new) PROVE FALSE
  <2>1. \A t \in DOMAIN all, e \in Side :
            \A q \in DOMAIN all[t][e] : all[t][e][q] = new[t][e][q]
    <3>1. /\ BooksOK(all) /\ IsFiniteSet(DOMAIN all) /\ BooksOK(new)
          /\ DOMAIN new = DOMAIN all
          /\ \A t \in DOMAIN all, e \in Side : SameShape(all[t][e], new[t][e])
          /\ ChecksumWords(all) = ChecksumWords(new)
      BY <1>3, <1>4, <1>5
    <3> QED BY ONLY <3>1, ChecksumTells
  <2>2. all[s][d][p] = new[s][d][p]
    BY <2>1
  <2>3. new[s][d][p] = queue
    BY <1>2, <1>3
  <2> QED BY <2>2, <2>3
<1> QED BY <1>5 DEF new

\* One order fewer: there are fewer words.
LEMMA RemovalShows ==
    ASSUME NEW all, BooksOK(all), IsFiniteSet(DOMAIN all),
           NEW s \in DOMAIN all, NEW d \in Side, NEW p \in DOMAIN all[s][d],
           NEW queue \in Seq(Resting), Len(queue) = Len(all[s][d][p]) - 1
    PROVE  ChecksumWords(Settled(all, s, d, p, queue)) # ChecksumWords(all)
<1> DEFINE new == Settled(all, s, d, p, queue)
<1>0. OneSettled(new, all, s, d, p, queue)
  BY SettledIs
<1> HIDE DEF new
<1>1. /\ BooksOK(new) /\ DOMAIN new = DOMAIN all
      /\ \A t \in DOMAIN all, e \in Side : t # s \/ e # d => new[t][e] = all[t][e]
      /\ DOMAIN new[s][d] = IF queue = <<>> THEN DOMAIN all[s][d] \ {p}
                                            ELSE DOMAIN all[s][d]
      /\ \A q \in DOMAIN new[s][d] :
            new[s][d][q] = IF q = p THEN queue ELSE all[s][d][q]
  BY <1>0 DEF OneSettled
<1>2. \A t \in DOMAIN all, e \in Side : LevelsOK(all[t][e]) /\ LevelsOK(new[t][e])
  BY <1>1 DEF BooksOK, BookOK
<1>3. \A t \in DOMAIN all : t \in Symbols
  BY DEF BooksOK
<1>4. \A t \in DOMAIN all, e \in Side : \A q \in DOMAIN all[t][e] : Len(all[t][e][q]) \in Nat
  BY <1>2 DEF LevelsOK
<1>5. ASSUME NEW t \in DOMAIN all
      PROVE  LET words(b) == Len(BookWords(t, b))
                 side(b, e) == Len(SideWords(b, e))
             IN /\ words(all[t]) = 1 + side(all[t], "Bid") + side(all[t], "Ask")
                /\ words(new[t]) = 1 + side(new[t], "Bid") + side(new[t], "Ask")
                /\ \A e \in Side : side(all[t], e) \in Nat /\ side(new[t], e) \in Nat
  <2> DEFINE b == all[t]
             c == new[t]
  <2>1. t \in Symbols /\ (\A e \in Side : LevelsOK(b[e])) /\ (\A e \in Side : LevelsOK(c[e]))
    BY <1>2, <1>3
  <2> HIDE DEF b, c
  <2>2. ASSUME NEW book, \A e \in Side : LevelsOK(book[e])
        PROVE  /\ Len(BookWords(t, book)) = 1 + Len(SideWords(book, "Bid"))
                                              + Len(SideWords(book, "Ask"))
               /\ \A e \in Side : Len(SideWords(book, e)) \in Nat
    <3> DEFINE bid == SideWords(book, "Bid")
               ask == SideWords(book, "Ask")
    <3>1. /\ bid \in Seq(Words) /\ ask \in Seq(Words)
          /\ Len(BookWords(t, book)) = 1 + Len(bid) + Len(ask)
      BY <2>1, <2>2, BookWordsAre, Zenon
    <3> HIDE DEF bid, ask
    <3>2. Len(bid) \in Nat /\ Len(ask) \in Nat
      BY <3>1
    <3> QED BY <3>1, <3>2 DEF bid, ask, Side
  <2>3. /\ Len(BookWords(t, b)) = 1 + Len(SideWords(b, "Bid")) + Len(SideWords(b, "Ask"))
        /\ \A e \in Side : Len(SideWords(b, e)) \in Nat
    BY <2>1, <2>2
  <2>4. /\ Len(BookWords(t, c)) = 1 + Len(SideWords(c, "Bid")) + Len(SideWords(c, "Ask"))
        /\ \A e \in Side : Len(SideWords(c, e)) \in Nat
    BY <2>1, <2>2
  <2> QED BY <2>3, <2>4, Zenon DEF b, c
<1>6. ASSUME NEW t \in DOMAIN all, NEW e \in Side, t # s \/ e # d
      PROVE  Len(SideWords(new[t], e)) = Len(SideWords(all[t], e))
  <2> DEFINE b == new[t]
             c == all[t]
  <2>1. LevelsOK(b[e]) /\ LevelsOK(c[e]) /\ SameShape(b[e], c[e])
    BY <1>1, <1>2, <1>6 DEF SameShape
  <2> HIDE DEF b, c
  <2>2. Len(SideWords(b, e)) = Len(SideWords(c, e))
    BY <2>1, SideWordsTell
  <2> QED BY <2>2 DEF b, c
<1>7. Len(SideWords(new[s], d)) < Len(SideWords(all[s], d))
  <2> DEFINE b == new[s]
             c == all[s]
  <2>1. /\ DOMAIN b[d] \subseteq DOMAIN c[d]
        /\ \A q \in DOMAIN b[d] : Len(b[d][q]) <= Len(c[d][q])
        /\ p \in DOMAIN c[d]
        /\ p \in DOMAIN b[d] => Len(b[d][p]) < Len(c[d][p])
    <3>1. \A q \in DOMAIN new[s][d] : q \in DOMAIN all[s][d]
      BY <1>1
    <3>2. Len(all[s][d][p]) \in Nat /\ Len(queue) < Len(all[s][d][p])
      BY <1>4
    <3>3. \A q \in DOMAIN new[s][d] : Len(new[s][d][q]) <= Len(all[s][d][q])
      BY <1>1, <1>4, <3>1, <3>2
    <3> QED BY <1>1, <3>1, <3>2, <3>3
  <2>2. LevelsOK(b[d]) /\ LevelsOK(c[d])
    BY <1>1, <1>2
  <2> HIDE DEF b, c
  <2>3. Len(SideWords(b, d)) < Len(SideWords(c, d))
    BY ONLY d \in Side, <2>1, <2>2, SideWordsFewer
  <2> QED BY <2>3 DEF b, c
<1>8. \A t \in DOMAIN all, e \in Side :
         /\ Len(SideWords(new[t], e)) <= Len(SideWords(all[t], e))
         /\ Len(SideWords(new[t], e)) \in Nat /\ Len(SideWords(all[t], e)) \in Nat
  <2> TAKE t \in DOMAIN all, e \in Side
  <2>1. Len(SideWords(new[t], e)) \in Nat /\ Len(SideWords(all[t], e)) \in Nat
    BY <1>5
  <2> QED BY <1>6, <1>7, <2>1
<1>9. \A t \in DOMAIN all : Len(BookWords(t, new[t])) <= Len(BookWords(t, all[t]))
  <2> TAKE t \in DOMAIN all
  <2>1. "Bid" \in Side /\ "Ask" \in Side
    BY DEF Side
  <2> QED BY <1>5, <1>8, <2>1
<1>10. Len(BookWords(s, new[s])) < Len(BookWords(s, all[s]))
  <2>1. "Bid" \in Side /\ "Ask" \in Side /\ (d = "Bid" \/ d = "Ask")
    BY DEF Side
  <2>2. \A e \in Side : e # d => Len(SideWords(new[s], e)) = Len(SideWords(all[s], e))
    BY <1>6
  <2> QED BY <1>5, <1>7, <1>8, <2>1, <2>2
<1>11. ChecksumWords(new) # ChecksumWords(all)
  <2>1. /\ BooksOK(all) /\ BooksOK(new) /\ IsFiniteSet(DOMAIN new)
        /\ DOMAIN all = DOMAIN new /\ s \in DOMAIN new
        /\ \A t \in DOMAIN new : Len(BookWords(t, new[t])) <= Len(BookWords(t, all[t]))
        /\ Len(BookWords(s, new[s])) < Len(BookWords(s, all[s]))
    BY <1>1, <1>9, <1>10
  <2> QED BY ONLY <2>1, ChecksumFewer
<1> QED BY <1>11 DEF new

(***************************************************************************)
(* Whatever orders rest, on however many levels and symbols: the checksum  *)
(* that the replay tests compare is taken over other words once an order   *)
(* is missing, has one share more, or has changed places with its          *)
(* neighbour.                                                              *)
(***************************************************************************)
THEOREM AlterationsAlwaysShow == Spec => []AlterationsShow
<1>1. IInv /\ BooksFinite => AlterationsShow
  <2> SUFFICES ASSUME IInv, BooksFinite, NEW s \in DOMAIN books, NEW d \in Side,
                      NEW p \in DOMAIN books[s][d],
                      NEW queue \in Alterations(books[s][d][p])
               PROVE  ChecksumWords([books EXCEPT ![s][d] = SettleLevel(@, p, queue)])
                        # ChecksumWords(books)
    BY Zenon DEF AlterationsShow
  <2> DEFINE old == books[s][d][p]
             all == books
  <2>1. BooksOK(all) /\ IsFiniteSet(DOMAIN all) /\ Issued \in Int
    BY SoundIsInvariant DEF IInv, TypeOK, BooksFinite, Issued, Calls
  <2>2. old \in Seq(Resting) /\ QueueSound(old, Issued)
    <3>1. LevelsOK(books[s][d])
      BY <2>1 DEF BooksOK, BookOK
    <3> QED BY <3>1 DEF LevelsOK, IInv, BookSound
  <2>3. queue \in Alterations(old)
    OBVIOUS
  <2>4. [books EXCEPT ![s][d] = SettleLevel(@, p, queue)] = Settled(all, s, d, p, queue)
    BY DEF Settled
  <2>5. s \in DOMAIN all /\ p \in DOMAIN all[s][d] /\ old = all[s][d][p] /\ old # <<>>
    BY <2>2 DEF QueueSound
  <2> HIDE DEF old, all
  <2>6. /\ queue \in Seq(Resting)
        /\ \/ Len(queue) = Len(old) - 1
           \/ Len(queue) = Len(old) /\ queue # old
    BY <2>1, <2>2, <2>3, AlterationsAre
  <2>7. ChecksumWords(Settled(all, s, d, p, queue)) # ChecksumWords(all)
    <3>1. CASE Len(queue) = Len(old) - 1
      <4>1. /\ BooksOK(all) /\ IsFiniteSet(DOMAIN all) /\ s \in DOMAIN all /\ d \in Side
            /\ p \in DOMAIN all[s][d] /\ queue \in Seq(Resting)
            /\ Len(queue) = Len(all[s][d][p]) - 1
        BY <2>1, <2>5, <2>6, <3>1
      <4> QED BY ONLY <4>1, RemovalShows
    <3>2. CASE Len(queue) = Len(old) /\ queue # old
      <4>1. /\ BooksOK(all) /\ IsFiniteSet(DOMAIN all) /\ s \in DOMAIN all /\ d \in Side
            /\ p \in DOMAIN all[s][d] /\ queue \in Seq(Resting)
            /\ all[s][d][p] # <<>>
            /\ Len(queue) = Len(all[s][d][p]) /\ queue # all[s][d][p]
        BY <2>1, <2>5, <2>6, <3>2
      <4> QED BY ONLY <4>1, ChangeShows
    <3> QED BY <2>6, <3>1, <3>2
  <2> QED BY <2>4, <2>7 DEF all
<1> QED BY <1>1, Invariance, BooksStayFinite, PTL
=============================================================================
