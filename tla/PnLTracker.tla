----------------------------- MODULE PnLTracker -----------------------------
(***************************************************************************)
(* risk/PnLTracker.cpp: position, average price and realised profit of one *)
(* symbol, every order being filled at once.  The code's doubles are       *)
(* fractions here, in lowest terms, so that no rounding hides an error of  *)
(* the bookkeeping.                                                        *)
(***************************************************************************)
EXTENDS Integers, FiniteSetsExt

Abs(x) == IF x < 0 THEN -x ELSE x

Frac(n, d) ==
    LET g == Max({k \in 1..Abs(d) : n % k = 0 /\ d % k = 0})
        sign == IF d < 0 THEN -1 ELSE 1
    IN [num |-> sign * (n \div g), den |-> Abs(d) \div g]

Whole(n) == [num |-> n, den |-> 1]
Plus(a, b) == Frac(a.num * b.den + b.num * a.den, a.den * b.den)
Times(a, k) == Frac(a.num * k, a.den)
Minus(a, b) == Plus(a, Times(b, -1))
Less(a, b) == a.num * b.den < b.num * a.den

\* An average price is not negative.
Positions ==
    [position : Int, avgPrice : [num : Nat, den : Nat \ {0}],
     realizedPnL : [num : Int, den : Nat \ {0}]]

Flat == [position |-> 0, avgPrice |-> Whole(0), realizedPnL |-> Whole(0)]

SameSign(a, b) == (a > 0 /\ b > 0) \/ (a < 0 /\ b < 0)

\* A fill in the direction of the position, or from flat: the average moves.
Opened(st, px, signedQty) ==
    LET newPos == st.position + signedQty
        notional == Plus(Times(st.avgPrice, st.position), Whole(px * signedQty))
    IN [st EXCEPT !.position = newPos, !.avgPrice = Frac(notional.num, notional.den * newPos)]

\* What closing a part of the position at px realises
OnClose(st, px, signedQty) ==
    LET closeQty == Min({Abs(st.position), Abs(signedQty)})
        gain == Minus(Whole(px), st.avgPrice)
    IN Times(gain, IF st.position > 0 THEN closeQty ELSE -closeQty)

\* A flipped position keeps the average price of the old one.
ClosedKeepingAverage(st, px, signedQty) ==
    LET newPos == st.position + signedQty IN
    [position |-> newPos,
     realizedPnL |-> Plus(st.realizedPnL, OnClose(st, px, signedQty)),
     avgPrice |-> IF newPos = 0 THEN Whole(0) ELSE st.avgPrice]

Closed(st, px, signedQty) ==
    LET newPos == st.position + signedQty IN
    [position |-> newPos,
     realizedPnL |-> Plus(st.realizedPnL, OnClose(st, px, signedQty)),
     avgPrice |-> IF newPos = 0 THEN Whole(0)
                  ELSE IF SameSign(newPos, signedQty) THEN Whole(px) ELSE st.avgPrice]

onFill(st, side, px, q) ==
    LET signedQty == IF side = "Bid" THEN q ELSE -q IN
    IF q <= 0 THEN st
    ELSE IF st.position = 0 \/ SameSign(st.position, signedQty)
         THEN Opened(st, px, signedQty)
         ELSE Closed(st, px, signedQty)

\* The caller's mark: realised profit and (mid - avg) * position
TotalAt(st, mid) ==
    Plus(st.realizedPnL, Times(Minus(Whole(mid), st.avgPrice), st.position))
=============================================================================
