--------------------------- MODULE PriceTimeBook ----------------------------
(***************************************************************************)
(* What an order book promises, with no levels, queues or index: a set of  *)
(* open orders, and an incoming order that trades with the best-priced,    *)
(* then oldest, open order it crosses until none is left or it is filled.  *)
(* With a risk gate, what is admitted depends on its size and on the net   *)
(* position of its symbol.  A trade moves the position of its own symbol   *)
(* and of no other; by how much it must move for the limit to mean         *)
(* anything is the promise of the gate, which GatedBook states.            *)
(***************************************************************************)
EXTENDS Integers

CONSTANTS Symbols, Prices, OrderQtys, MaxOrderQty, MaxPositionQty, RiskWired,
          MaxOrders, NoCall

VARIABLES open,     \* the open orders: records [id, symbol, side, px, qty]
          taker,    \* the incoming order, or NoCall
          position, \* the risk gate's net position of each symbol
          nextId,   \* the id the next accepted order gets
          ret       \* what the last finished call returned

vars == <<open, taker, position, nextId, ret>>

\* The position of the symbol after the order has traded in full
After(symbol, side, qty) ==
    position[symbol] + (IF side = "Bid" THEN qty ELSE -qty)

Admissible(symbol, side, qty) ==
    /\ qty > 0
    /\ RiskWired => /\ qty <= MaxOrderQty
                    /\ After(symbol, side, qty) <= MaxPositionQty
                    /\ -After(symbol, side, qty) <= MaxPositionQty

\* Order a gives incoming bids (asks) a better price than b, or the same
\* price for longer.
Before(a, b) ==
    \/ a.side = "Ask" /\ a.px < b.px
    \/ a.side = "Bid" /\ a.px > b.px
    \/ a.px = b.px /\ a.id < b.id

\* The open orders the taker may trade with at its limit.
Candidates ==
    {o \in open : /\ o.symbol = taker.symbol
                  /\ o.side # taker.side
                  /\ IF taker.side = "Bid" THEN o.px <= taker.px
                                           ELSE o.px >= taker.px}

Refuse(symbol, side, qty) ==
    /\ taker = NoCall
    /\ ~Admissible(symbol, side, qty)
    /\ ret' = [op |-> "add", id |-> 0, ok |-> FALSE]
    /\ UNCHANGED <<open, taker, position, nextId>>

Submit(symbol, side, px, qty) ==
    /\ taker = NoCall
    /\ nextId <= MaxOrders
    /\ Admissible(symbol, side, qty)
    /\ taker' = [id |-> nextId, symbol |-> symbol, side |-> side,
                 px |-> px, remaining |-> qty]
    /\ nextId' = nextId + 1
    /\ UNCHANGED <<open, position, ret>>

\* Both orders shrink by the same quantity, all that one of them has.
Trade ==
    /\ taker # NoCall
    /\ taker.remaining > 0
    /\ \E maker \in Candidates :
          /\ \A o \in Candidates : o = maker \/ Before(maker, o)
          /\ \E traded \in {maker.qty, taker.remaining} :
                /\ traded <= maker.qty /\ traded <= taker.remaining
                /\ open' = (open \ {maker}) \cup
                     IF traded = maker.qty THEN {}
                     ELSE {[maker EXCEPT !.qty = @ - traded]}
                /\ taker' = [taker EXCEPT !.remaining = @ - traded]
    /\ \A s \in Symbols : s # taker.symbol => position'[s] = position[s]
    /\ UNCHANGED <<nextId, ret>>

Settle ==
    /\ taker # NoCall
    /\ taker.remaining = 0 \/ Candidates = {}
    /\ open' = open \cup
         IF taker.remaining = 0 THEN {}
         ELSE {[id |-> taker.id, symbol |-> taker.symbol, side |-> taker.side,
                px |-> taker.px, qty |-> taker.remaining]}
    /\ taker' = NoCall
    /\ ret' = [op |-> "add", id |-> taker.id, ok |-> TRUE]
    /\ UNCHANGED <<position, nextId>>

\* TRUE exactly for an order that is open.
Cancel(id) ==
    /\ taker = NoCall
    /\ LET mine == {o \in open : o.id = id} IN
       /\ open' = open \ mine
       /\ ret' = [op |-> "cancel", id |-> id, ok |-> mine # {}]
    /\ UNCHANGED <<taker, position, nextId>>

Init ==
    /\ open = {}
    /\ taker = NoCall
    /\ position = [s \in Symbols |-> 0]
    /\ nextId = 1
    /\ ret = [op |-> "none", id |-> 0, ok |-> FALSE]

Next ==
    \/ \E symbol \in Symbols, side \in {"Bid", "Ask"}, qty \in OrderQtys :
          \/ Refuse(symbol, side, qty)
          \/ \E px \in Prices : Submit(symbol, side, px, qty)
    \/ Trade
    \/ Settle
    \/ \E id \in 1..MaxOrders : Cancel(id)

Spec == Init /\ [][Next]_vars
=============================================================================
