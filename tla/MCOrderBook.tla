---- MODULE MCOrderBook ----
EXTENDS OrderBook
MCQtys == {-1, 0, 1, 2, 3}
====
