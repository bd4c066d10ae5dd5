----------------------------- MODULE BookViews ------------------------------
(***************************************************************************)
(* What the order book tells its users: best prices, levels, depth,        *)
(* imbalance and checksum (the const methods of src/OrderBook.cpp and      *)
(* include/map/OrderBook.hpp).  They change nothing, so they are operators *)
(* on the state of OrderBook, and the properties say that the separate     *)
(* loops agree with each other and with the set of open orders, between    *)
(* calls: the thread that asks is the thread that adds and cancels.        *)
(***************************************************************************)
EXTENDS OrderBook, Totals

CONSTANTS
    Rank,       \* the place of each symbol in the order of std::map
    NoPrice,    \* std::nullopt
    IntLimit,   \* an int lies in -IntLimit..IntLimit - 1: 2^31 in the code
    Whole       \* how many ticks of Prices make a price of 1

ASSUME RankAssumption ==
    /\ Rank \in [Symbols -> Int]
    /\ \A s, t \in Symbols : s # t => Rank[s] # Rank[t]

\* std::nullopt is not a price
ASSUME NoPriceAssumption == NoPrice \notin Int

\* Quantities are ints; a price is a double, and one beyond the range of int
\* has no defined conversion to it.
ASSUME WidthAssumption ==
    /\ IntLimit \in Nat \ {0}
    /\ Whole \in Nat \ {0}
    /\ \A qty \in OrderQtys : -IntLimit <= qty /\ qty < IntLimit
    /\ \A p \in Prices : -IntLimit * Whole < p /\ p < IntLimit * Whole

\* The int that an int sum leaves.  C++ does not define an overflow; what the
\* compilers emit wraps around.
Int32(n) == ((n + IntLimit) % (2 * IntLimit)) - IntLimit

\* The conversion of a price to an integer drops what follows the point.
Truncated(p) == IF p >= 0 THEN p \div Whole ELSE -((-p) \div Whole)

\* The keys of a std::map as its iterators pass them.  This is SetToSortSeq,
\* in a form that theorems can be proved about.
Ascending(S, key) ==
    CHOOSE seq \in [1..Cardinality(S) -> S] :
        \A i, j \in 1..Cardinality(S) : i < j => key[seq[i]] < key[seq[j]]

InRankOrder(all) == Ascending(DOMAIN all, Rank)

\* getBook: a symbol without a book and one with empty sides look the same.
BookOf(symbol) == IF symbol \in DOMAIN books THEN books[symbol] ELSE EmptyBook

\* getFirstBook, getFirstSymbol: the queries without a symbol ask this one.
FirstBook ==
    IF DOMAIN books = {} THEN EmptyBook ELSE books[InRankOrder(books)[1]]

\* bestBid, bestAsk
BestOf(book, side) ==
    IF DOMAIN book[side] = {} THEN NoPrice ELSE BestPrice(side, book[side])

\* The levels of a side in the order of its map
BestFirst(book, side) ==
    Ascending(DOMAIN book[side],
              [p \in DOMAIN book[side] |-> IF side = "Bid" THEN -p ELSE p])

Qtys(queue) == [i \in DOMAIN queue |-> queue[i].qty]

\* A loop that adds quantities to an int one by one
Added(start, qtys) ==
    LET upto[i \in 0..Len(qtys)] ==
            IF i = 0 THEN start ELSE Int32(upto[i - 1] + qtys[i])
    IN upto[Len(qtys)]

LevelTotal(queue) == Added(0, Qtys(queue))

Snapshot(book, side) ==
    LET prices == BestFirst(book, side) IN
    [i \in DOMAIN prices |->
        [price |-> prices[i], totalQty |-> LevelTotal(book[side][prices[i]])]]

\* The loop tests its limit before it adds the level, one level too early.
ReachedShort(n, maxLevels) == IF maxLevels > 0 THEN Least(maxLevels - 1, n) ELSE n

\* How many of n levels are visited: maxLevels, or all if that is not positive
Reached(n, maxLevels) == IF maxLevels > 0 THEN Least(maxLevels, n) ELSE n

\* totalDepth goes on in one int from level to level.
DepthUpto(book, side) ==
    LET prices == BestFirst(book, side)
        upto[i \in 0..Len(prices)] ==
            IF i = 0 THEN 0 ELSE Added(upto[i - 1], Qtys(book[side][prices[i]]))
    IN upto

TotalDepth(book, side, maxLevels) ==
    DepthUpto(book, side)[Reached(Len(BestFirst(book, side)), maxLevels)]

\* orderImbalance adds the same quantities in a double, which holds them all.
DepthSum(book, side, maxLevels) ==
    LET prices == BestFirst(book, side) IN
    Total([i \in 1..Reached(Len(prices), maxLevels) |->
              Total(Qtys(book[side][prices[i]]))])

\* The guard against an empty book left out: 0/0.
UnguardedImbalance(book, maxLevels) ==
    LET bid == DepthSum(book, "Bid", maxLevels)
        ask == DepthSum(book, "Ask", maxLevels)
    IN [num |-> bid - ask, den |-> bid + ask]

\* A quotient num / den
OrderImbalance(book, maxLevels) ==
    LET bid == DepthSum(book, "Bid", maxLevels)
        ask == DepthSum(book, "Ask", maxLevels)
    IN IF bid + ask <= 0 THEN [num |-> 0, den |-> 1]
                         ELSE [num |-> bid - ask, den |-> bid + ask]

\* The missing side's 0 is taken for a price.
NoFallback(book, side) ==
    LET own == BestOf(book, side)
    IN IF own = NoPrice THEN 0 ELSE Truncated(own) * Whole

\* Both best prices are converted to int.  A missing side counts as 0, and 0
\* as a missing side: then the bid as it is, if there is one, else the ask.
BestPriceBranchless(book, side) ==
    LET bid    == BestOf(book, "Bid")
        ask    == BestOf(book, "Ask")
        own    == BestOf(book, side)
        chosen == IF own = NoPrice THEN 0 ELSE Truncated(own)
    IN IF chosen # 0 THEN chosen * Whole
       ELSE IF bid # NoPrice THEN bid ELSE ask

\* The average of the converted prices, rounded down
MidBranchless(book) ==
    LET bid == BestOf(book, "Bid")
        ask == BestOf(book, "Ask")
        b   == Truncated(bid)
        a   == Truncated(ask)
    IN IF bid = NoPrice \/ ask = NoPrice THEN NoPrice
       ELSE Int32(b + (Int32(a - b) \div 2)) * Whole

OrderWordsNoQty(order) == <<order.id>>

OrderWords(order) == <<order.id, order.qty>>

LevelWords(px, queue) ==
    <<Truncated(px)>> \o FlattenSeq([i \in DOMAIN queue |-> OrderWords(queue[i])])

SideWords(book, side) ==
    LET prices == BestFirst(book, side) IN
    FlattenSeq([i \in DOMAIN prices |->
                   LevelWords(prices[i], book[side][prices[i]])])

BookWords(symbol, book) ==
    <<symbol>> \o SideWords(book, "Bid") \o SideWords(book, "Ask")

\* What checksum mixes into its hash, in this order.  The hash itself is
\* taken to tell different sequences apart.
ChecksumWords(all) ==
    LET symbols == InRankOrder(all) IN
    FlattenSeq([i \in DOMAIN symbols |-> BookWords(symbols[i], all[symbols[i]])])
-----------------------------------------------------------------------------

Crowd(s, d, k) ==
    {o \in OpenOrders :
        /\ o.symbol = s /\ o.side = d
        /\ \/ k <= 0
           \/ Cardinality({p \in DOMAIN BookOf(s)[d] : Precedes(d, p, o.px)}) < k}

\* One element for every share that is open
Shares(orders) == UNION {{o} \X (1..o.qty) : o \in orders}

(***************************************************************************)
(* totalDepth is the number of shares of the open orders with fewer than   *)
(* maxLevels better prices on their side, as far as an int can tell them   *)
(* apart: the order of the additions and the levels between them leave no  *)
(* trace when a sum passes the largest int.  The rows of snapshot, best    *)
(* price first, add up to the same depth level by level.                   *)
(***************************************************************************)
DepthsAgree == call = NoCall =>
    /\ \A s \in Symbols, d \in Side, k \in 0..3 :
          TotalDepth(BookOf(s), d, k) = Int32(Cardinality(Shares(Crowd(s, d, k))))
    /\ \A d \in Side :
          LET rows == Snapshot(FirstBook, d) IN
          /\ 1 \in DOMAIN rows => rows[1].price = BestOf(FirstBook, d)
          /\ \A i \in 1..(Len(rows) - 1) :
                Precedes(d, rows[i].price, rows[i + 1].price)
          /\ \A i \in DOMAIN rows :
                rows[i].totalQty = Int32(TotalDepth(FirstBook, d, i)
                    - (IF i = 1 THEN 0 ELSE TotalDepth(FirstBook, d, i - 1)))

(***************************************************************************)
(* orderImbalance stays within [-1, 1], has a denominator in every state,  *)
(* and is 1 or -1 exactly when one side alone is quoted.                   *)
(***************************************************************************)
ImbalanceSound == call = NoCall =>
    \A s \in Symbols, k \in 0..3 :
        LET imb == OrderImbalance(BookOf(s), k)
            has(d) == \E o \in OpenOrders : o.symbol = s /\ o.side = d
        IN /\ imb.den > 0
           /\ -imb.den <= imb.num /\ imb.num <= imb.den
           /\ imb.num = imb.den <=> has("Bid") /\ ~has("Ask")
           /\ imb.num = -imb.den <=> has("Ask") /\ ~has("Bid")

\* The price a column stands for: the best of its side, else of the other
Quoted(book, side) ==
    IF BestOf(book, side) # NoPrice THEN BestOf(book, side)
                                    ELSE BestOf(book, Opposite(side))

(***************************************************************************)
(* The two columns live_sim writes with bestPriceBranchless are at most    *)
(* the fraction of a price below the quote they stand for, also when one   *)
(* side is missing, a price is below 1 or both quotes fall within one      *)
(* unit, and are not crossed when both sides rest.  midBranchless is then  *)
(* below the ask and less than one unit below the bid.                     *)
(***************************************************************************)
QuotesInOrder == call = NoCall =>
    \A s \in Symbols :
        LET book      == BookOf(s)
            column(d) == BestPriceBranchless(book, d)
            bid       == BestOf(book, "Bid")
            ask       == BestOf(book, "Ask")
            mid       == MidBranchless(book)
        IN /\ \A d \in Side :
                 IF Quoted(book, d) = NoPrice THEN column(d) = NoPrice
                 ELSE /\ column(d) <= Quoted(book, d)
                      /\ Quoted(book, d) < column(d) + Whole
           /\ IF bid = NoPrice \/ ask = NoPrice THEN mid = NoPrice
              ELSE /\ column("Bid") <= column("Ask")
                   /\ bid < mid + Whole
                   /\ mid < ask

Alterations(queue) ==
    {RemoveAt(queue, i) : i \in DOMAIN queue} \cup
    {[queue EXCEPT ![i].qty = @ + 1] : i \in DOMAIN queue} \cup
    {[queue EXCEPT ![i] = queue[i + 1], ![i + 1] = queue[i]] :
        i \in 1..(Len(queue) - 1)}

(***************************************************************************)
(* The checksum that the replay tests compare takes in every order: a book *)
(* with one order missing, one share more, or two neighbours of a level    *)
(* exchanged has another sequence of hashed words.                         *)
(***************************************************************************)
AlterationsShow == call = NoCall =>
    \A s \in DOMAIN books, d \in Side : \A p \in DOMAIN books[s][d] :
        \A queue \in Alterations(books[s][d][p]) :
            ChecksumWords([books EXCEPT ![s][d] = SettleLevel(@, p, queue)])
                # ChecksumWords(books)
=============================================================================
