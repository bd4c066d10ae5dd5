---- MODULE MCEventLog ----
EXTENDS EventLog
MCEvents == {
    [kind |-> "New", symbol |-> "ADA", px |-> 5, qty |-> 1, side |-> "Bid"],
    [kind |-> "Cancel", symbol |-> "ADA", id |-> 1],
    [kind |-> "Cancel", symbol |-> "ADA", id |-> 3],
    [kind |-> "Trade", symbol |-> "ADA", taker |-> 2, maker |-> 1,
     px |-> 5, qty |-> 1, side |-> "Ask"]}
Wired(both) == [k \in Kinds |-> IF k = "Trade" THEN <<"log">> ELSE both]
MCWirings == {Wired(<<"log", "book">>), Wired(<<"book", "log">>)}
====
