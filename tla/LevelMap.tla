------------------------------ MODULE LevelMap ------------------------------
(***************************************************************************)
(* One side of one symbol's book: std::map<Price, deque<Order>, Compare>   *)
(* (include/map/OrderBook.hpp:36-45).  A side is a partial function from   *)
(* prices to queues, and each queue holds records [id, qty]: symbol, side  *)
(* and price of an order are its place in the book.                        *)
(***************************************************************************)
EXTENDS Integers, SequencesExt

CONSTANT Prices     \* the limit prices orders may carry, in ticks

(***************************************************************************)
(* std::map keeps its keys sorted, so a map with a level has a begin().    *)
(* Every finite set of integers satisfies this.                            *)
(***************************************************************************)
ASSUME PricesAssumption ==
    /\ Prices \subseteq Int
    /\ \A S \in (SUBSET Prices) \ {{}} :
          /\ \E low \in S : \A p \in S : low <= p
          /\ \E high \in S : \A p \in S : p <= high

Side == {"Bid", "Ask"}

Opposite(side) == IF side = "Bid" THEN "Ask" ELSE "Bid"

(***************************************************************************)
(* The map's comparator: std::greater for bids, std::less for asks.        *)
(***************************************************************************)
Precedes(side, p, q) == IF side = "Bid" THEN p > q ELSE p < q

\* The incoming side stops one price too early when it only trades inside.
StrictCrosses(side, px, best) == IF side = "Bid" THEN px > best ELSE px < best

(***************************************************************************)
(* An incoming order of `side' at limit px trades with a level at `best'.  *)
(***************************************************************************)
Crosses(side, px, best) == IF side = "Bid" THEN px >= best ELSE px <= best

NoLevels == [p \in {} |-> <<>>]

\* begin() of the wrong end: the comparators of the two sides swapped.
WorstPrice(side, levels) ==
    CHOOSE p \in DOMAIN levels :
        \A q \in DOMAIN levels : q = p \/ Precedes(Opposite(side), p, q)

\* begin()->first of the side's map
BestPrice(side, levels) ==
    CHOOSE p \in DOMAIN levels :
        \A q \in DOMAIN levels : q = p \/ Precedes(side, p, q)

LevelAt(levels, px) == IF px \in DOMAIN levels THEN levels[px] ELSE <<>>

PutLevel(levels, px, queue) ==
    [p \in DOMAIN levels \cup {px} |-> IF p = px THEN queue ELSE levels[p]]

\* The emptied level is left in the map.
KeepEmptyLevel(levels, px, queue) == PutLevel(levels, px, queue)

\* The queue that is left at px: an emptied level is erased from the map.
SettleLevel(levels, px, queue) ==
    IF queue = <<>> THEN [p \in DOMAIN levels \ {px} |-> levels[p]]
                    ELSE PutLevel(levels, px, queue)

\* The new order jumps the queue of its level.
PushFront(levels, px, order) ==
    PutLevel(levels, px, <<order>> \o LevelAt(levels, px))

\* levels[px].push_back(order): operator[] creates the level it needs.
PushBack(levels, px, order) ==
    PutLevel(levels, px, Append(LevelAt(levels, px), order))

\* The head gives up `traded' and leaves the queue when nothing is left of it.
FillHead(queue, traded) ==
    LET left == Head(queue).qty - traded IN
    IF left <= 0 THEN Tail(queue)
                 ELSE [queue EXCEPT ![1].qty = left]

\* Where an order stands in its level, {} when it does not rest there.
PlacesOf(queue, id) == {i \in DOMAIN queue : queue[i].id = id}
=============================================================================
