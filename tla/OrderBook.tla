----------------------------- MODULE OrderBook ------------------------------
(***************************************************************************)
(* The price-time-priority matching engine of src/OrderBook.cpp, with the  *)
(* optional risk gate of its constructor.                                  *)
(*                                                                         *)
(* addOrder is a loop, and the loop is what can go wrong, so a call is a   *)
(* sequence of steps: AcceptOrder (or RejectOrder) enters it, each         *)
(* MatchStep is one iteration of the inner while of matchBid / matchAsk,   *)
(* and Rest is the code after the loop.  cancelOrder is one step.          *)
(***************************************************************************)
EXTENDS LevelMap, RiskLimits

CONSTANTS
    Symbols,        \* instrument names
    OrderQtys,      \* the quantities callers ask for, bad ones included
    RiskWired,      \* TRUE iff the constructor was given a RiskLimits*
    MaxOrders,      \* bound: the number of orders that get an id
    NoCall          \* no addOrder is running

ASSUME BookAssumption ==
    /\ OrderQtys \subseteq Int
    /\ RiskWired \in BOOLEAN
    /\ MaxOrders \in Nat
    /\ NoCall \notin [id : Nat, symbol : Symbols, side : Side,
                      px : Prices, remaining : Int]

VARIABLES
    books,      \* books_ : symbol -> [side -> levels], partial
    index,      \* index_ : order id -> where the order was put, partial
    nextId,     \* nextId_
    netQty,     \* the risk gate's netQty per symbol
    call,       \* the addOrder in progress: its newId, arguments, remaining
    ret         \* what the last finished call returned

vars == <<books, index, nextId, netQty, call, ret>>

-----------------------------------------------------------------------------
(* Helpers                                                                 *)

EmptyBook == [side \in Side |-> NoLevels]

GetOrCreateBook(symbol) ==
    IF symbol \in DOMAIN books THEN books
    ELSE [s \in DOMAIN books \cup {symbol} |->
              IF s = symbol THEN EmptyBook ELSE books[s]]

Least(a, b) == IF a <= b THEN a ELSE b

\* The loop condition of matchBid / matchAsk for the call in progress.
CanMatch ==
    LET levels == books[call.symbol][Opposite(call.side)] IN
    /\ call.remaining > 0
    /\ DOMAIN levels # {}
    /\ Crosses(call.side, call.px, BestPrice(Opposite(call.side), levels))

-----------------------------------------------------------------------------
(* addOrder                                                                *)

Accepted(symbol, side, qty) ==
    /\ qty > 0
    /\ RiskWired => CheckOrder(netQty[symbol], side, qty)

RejectOrder(symbol, side, px, qty) ==
    /\ call = NoCall
    /\ ~Accepted(symbol, side, qty)
    /\ ret' = [op |-> "add", id |-> 0, ok |-> FALSE]
    /\ UNCHANGED <<books, index, nextId, netQty, call>>

AcceptOrder(symbol, side, px, qty) ==
    /\ call = NoCall
    /\ nextId <= MaxOrders
    /\ Accepted(symbol, side, qty)
    /\ books' = GetOrCreateBook(symbol)
    /\ nextId' = nextId + 1
    /\ call' = [id |-> nextId, symbol |-> symbol, side |-> side,
                px |-> px, remaining |-> qty]
    /\ UNCHANGED <<index, netQty, ret>>

\* One share fewer than both sides have: the loop stops making progress.
StallingTrade(avail, need) == Least(avail, need) - 1

\* All of the maker, also when the taker needs less.
OverTrade(avail, need) == avail

TradedQty(avail, need) == Least(avail, need)

MatchStep ==
    /\ call # NoCall
    /\ CanMatch
    /\ LET opp    == Opposite(call.side)
           levels == books[call.symbol][opp]
           best   == BestPrice(opp, levels)
           queue  == levels[best]
           traded == TradedQty(Head(queue).qty, call.remaining)
       IN /\ netQty' = IF RiskWired
                       THEN [netQty EXCEPT ![call.symbol] =
                               OnTrade(OnTrade(@, call.side, traded),
                                       opp, traded)]
                       ELSE netQty
          /\ books' = [books EXCEPT ![call.symbol][opp] =
                         SettleLevel(levels, best, FillHead(queue, traded))]
          /\ call' = [call EXCEPT !.remaining = @ - traded]
    /\ UNCHANGED <<index, nextId, ret>>

IndexEntry == [symbol |-> call.symbol, side |-> call.side, px |-> call.px]

\* The remainder rests in the book but is never entered in index_.
RestUnindexed ==
    /\ call # NoCall
    /\ ~CanMatch
    /\ books' = IF call.remaining > 0
                THEN [books EXCEPT ![call.symbol][call.side] =
                        PushBack(@, call.px, [id  |-> call.id,
                                              qty |-> call.remaining])]
                ELSE books
    /\ call' = NoCall
    /\ ret' = [op |-> "add", id |-> call.id, ok |-> TRUE]
    /\ UNCHANGED <<index, nextId, netQty>>

Rest ==
    /\ call # NoCall
    /\ ~CanMatch
    /\ IF call.remaining > 0
       THEN /\ books' = [books EXCEPT ![call.symbol][call.side] =
                           PushBack(@, call.px, [id  |-> call.id,
                                                 qty |-> call.remaining])]
            \* emplace leaves an entry that is there alone
            /\ index' = [i \in DOMAIN index \cup {call.id} |->
                           IF i \in DOMAIN index THEN index[i] ELSE IndexEntry]
       ELSE UNCHANGED <<books, index>>
    /\ call' = NoCall
    /\ ret' = [op |-> "add", id |-> call.id, ok |-> TRUE]
    /\ UNCHANGED <<nextId, netQty>>

-----------------------------------------------------------------------------
(* cancelOrder                                                             *)

Unindex(id) == [i \in DOMAIN index \ {id} |-> index[i]]

CancelUnknown(id) ==
    /\ call = NoCall
    /\ id \notin DOMAIN index
    /\ ret' = [op |-> "cancel", id |-> id, ok |-> FALSE]
    /\ UNCHANGED <<books, index, nextId, netQty, call>>

\* The entry is stale: the level is gone, or the order is no longer in it.
CancelStale(id) ==
    /\ call = NoCall
    /\ id \in DOMAIN index
    /\ LET at == index[id]
           all == GetOrCreateBook(at.symbol)
       IN /\ PlacesOf(LevelAt(all[at.symbol][at.side], at.px), id) = {}
          /\ books' = all
    /\ index' = Unindex(id)
    /\ ret' = [op |-> "cancel", id |-> id, ok |-> FALSE]
    /\ UNCHANGED <<nextId, netQty, call>>

CancelResting(id) ==
    /\ call = NoCall
    /\ id \in DOMAIN index
    /\ LET at     == index[id]
           all    == GetOrCreateBook(at.symbol)
           levels == all[at.symbol][at.side]
           queue  == LevelAt(levels, at.px)
       IN \E i \in PlacesOf(queue, id) :
             /\ \A j \in PlacesOf(queue, id) : i <= j
             /\ books' = [all EXCEPT ![at.symbol][at.side] =
                            SettleLevel(levels, at.px, RemoveAt(queue, i))]
    /\ index' = Unindex(id)
    /\ ret' = [op |-> "cancel", id |-> id, ok |-> TRUE]
    /\ UNCHANGED <<nextId, netQty, call>>

CancelOrder(id) == CancelUnknown(id) \/ CancelStale(id) \/ CancelResting(id)
-----------------------------------------------------------------------------

Init ==
    /\ books  = [s \in {} |-> EmptyBook]
    /\ index  = [i \in {} |-> NoCall]
    /\ nextId = 1
    /\ netQty = [s \in Symbols |-> 0]
    /\ call   = NoCall
    /\ ret    = [op |-> "none", id |-> 0, ok |-> FALSE]

AddOrder ==
    \E symbol \in Symbols, side \in Side, px \in Prices, qty \in OrderQtys :
        \/ RejectOrder(symbol, side, px, qty)
        \/ AcceptOrder(symbol, side, px, qty)

Next ==
    \/ AddOrder
    \/ MatchStep
    \/ Rest
    \/ \E id \in 1..MaxOrders : CancelOrder(id)

\* The caller's thread runs the loop of addOrder to its end.
Spec == Init /\ [][Next]_vars /\ WF_vars(MatchStep \/ Rest)
-----------------------------------------------------------------------------
(* What the book promises                                                  *)

Resting == [id : 1..MaxOrders, qty : Int]
Places  == [symbol : Symbols, side : Side, px : Prices]
Calls   == [id : 1..MaxOrders, symbol : Symbols, side : Side,
            px : Prices, remaining : Nat]
Returns == [op : {"none", "add", "cancel"}, id : 0..MaxOrders, ok : BOOLEAN]

LevelsOK(levels) ==
    /\ DOMAIN levels \subseteq Prices
    /\ levels \in [DOMAIN levels -> Seq(Resting)]

BookOK(book) ==
    /\ book = [side \in Side |-> book[side]]
    /\ \A side \in Side : LevelsOK(book[side])

BooksOK(all) ==
    /\ DOMAIN all \subseteq Symbols
    /\ all = [s \in DOMAIN all |-> all[s]]
    /\ \A s \in DOMAIN all : BookOK(all[s])

TypeOK ==
    /\ BooksOK(books)
    /\ DOMAIN index \subseteq 1..MaxOrders
    /\ index \in [DOMAIN index -> Places]
    /\ nextId \in 1..(MaxOrders + 1)
    /\ netQty \in [Symbols -> Int]
    /\ call \in Calls \cup {NoCall}
    /\ ret \in Returns

\* Ids below this one have been handed out to orders that may rest.
Issued == IF call = NoCall THEN nextId ELSE call.id

QueueSound(queue, bound) ==
    /\ queue # <<>>
    /\ \A i \in DOMAIN queue : queue[i].qty > 0 /\ queue[i].id < bound
    /\ \A i, j \in DOMAIN queue : i < j => queue[i].id < queue[j].id

(***************************************************************************)
(* The book is well formed at every iteration of the matching loop: no     *)
(* empty level is left behind (best prices are read off the level map, so  *)
(* an empty level would be quoted), no order rests with nothing left, a    *)
(* level is in order of arrival, and only ids that were handed out rest.   *)
(***************************************************************************)
BookSound ==
    \A s \in DOMAIN books, d \in Side : \A p \in DOMAIN books[s][d] :
        QueueSound(books[s][d][p], Issued)

(***************************************************************************)
(* The book is never crossed, also while an order is being matched: no bid *)
(* rests at or above the price of a resting ask of the same symbol.        *)
(***************************************************************************)
NotCrossed ==
    \A s \in DOMAIN books :
        \A bid \in DOMAIN books[s]["Bid"], ask \in DOMAIN books[s]["Ask"] :
            bid < ask

(***************************************************************************)
(* index_ leads to every resting order, so cancelOrder can take out any    *)
(* order that rests, and an id rests in at most one level.                 *)
(***************************************************************************)
IndexCoversBook ==
    \A s \in DOMAIN books, d \in Side : \A p \in DOMAIN books[s][d] :
        \A i \in DOMAIN books[s][d][p] :
            LET id == books[s][d][p][i].id IN
            /\ id \in DOMAIN index
            /\ index[id] = [symbol |-> s, side |-> d, px |-> p]

\* The ids the running call and the index hold have been handed out.
IdsFresh ==
    /\ call # NoCall => call.id < nextId /\ call.symbol \in DOMAIN books
    /\ \A id \in DOMAIN index : id < Issued

\* The gate's positions never move, since every trade is booked to both of
\* its sides: its position limit refuses nothing (GatedBook).
NetFlat == \A s \in Symbols : netQty[s] = 0

\* The inductive invariant of the proofs
IInv == TypeOK /\ BookSound /\ NotCrossed /\ IndexCoversBook /\ IdsFresh

\* The book as a flat set of open orders
LevelPlaces ==
    {at \in Places : /\ at.symbol \in DOMAIN books
                     /\ at.px \in DOMAIN books[at.symbol][at.side]}

OpenAt(at) ==
    {[id |-> o.id, symbol |-> at.symbol, side |-> at.side,
      px |-> at.px, qty |-> o.qty] : o \in Range(books[at.symbol][at.side][at.px])}

OpenOrders == UNION {OpenAt(at) : at \in LevelPlaces}

Abstract == INSTANCE PriceTimeBook
    WITH open <- OpenOrders, taker <- call, position <- netQty

(***************************************************************************)
(* The levels, queues and index are one flat set of open orders on which   *)
(* trades follow price and time priority: the abstract book of             *)
(* PriceTimeBook, whose `open' is read off the book and whose `position'   *)
(* is the risk gate's.                                                     *)
(***************************************************************************)
ImplementsPriceTime == Abstract!Spec

(***************************************************************************)
(* addOrder returns: every iteration of the matching loop consumes the     *)
(* taker or a maker.                                                       *)
(***************************************************************************)
AddOrderReturns == (call # NoCall) ~> (call = NoCall)
=============================================================================
