---- MODULE MCReplayViewer ----
EXTENDS ReplayViewer
New(side, px, qty) == [kind |-> "New", side |-> side, px |-> px, qty |-> qty]
MCLogs == {
    <<New("Bid", 1, 5), New("Ask", 7, 6), New("Bid", 3, 6)>>,
    <<New("Bid", 1, 51), New("Ask", 9, 20), [kind |-> "Cancel", id |-> 2], New("Ask", 7, 50)>>,
    <<New("Ask", 9, 5), [kind |-> "Trade", px |-> 9, qty |-> 5]>>,
    <<>>}
\* No order of these logs crosses another; the n-th new order has the id n.
Resting(events, side) ==
    LET orders == SelectSeq(events, LAMBDA e : e.kind = "New")
        gone == {e.id : e \in {x \in Range(events) : x.kind = "Cancel"}}
    IN {orders[i].px : i \in {n \in DOMAIN orders \ gone : orders[n].side = side}}
MCMid(events) ==
    LET bids == Resting(events, "Bid") asks == Resting(events, "Ask") IN
    IF bids = {} \/ asks = {} THEN None ELSE (Max(bids) + Min(asks)) \div 2
====
