---------------------------- MODULE ImpactModel ----------------------------
(***************************************************************************)
(* risk/ImpactModel.cpp for one symbol, in half ticks.  The size of a      *)
(* trade's impact, a logistic function of imbalance, spread and volatility *)
(* times the size of the trade, is a parameter; that the temporary part is *)
(* four times the permanent one is live_sim.cpp's choice of coefficients.  *)
(* A tick's decay takes less than a half tick off the temporary impact.    *)
(***************************************************************************)
EXTENDS Integers

CONSTANT MaxImpact  \* maxImpactTicks, in half ticks

ASSUME ImpactAssumption == MaxImpact \in Nat

Impacts ==
    [temp : (-MaxImpact)..MaxImpact, perm : (-MaxImpact)..MaxImpact, lastSpread : Int]

NoImpact == [temp |-> 0, perm |-> 0, lastSpread |-> 0]

clampImpact(impact) ==
    IF impact > MaxImpact THEN MaxImpact
    ELSE IF impact < -MaxImpact THEN -MaxImpact ELSE impact

Toward0(x) == IF x > 0 THEN x - 1 ELSE IF x < 0 THEN x + 1 ELSE 0

\* onNewTick: what the tick may leave of the impact
AfterTick(st, spread) ==
    {[st EXCEPT !.temp = left, !.lastSpread = spread] : left \in {st.temp, Toward0(st.temp)}}

\* The permanent impact grows without a cap.
TradeUncapped(st, side, delta) ==
    LET dir == IF side = "Bid" THEN 1 ELSE -1 IN
    [st EXCEPT !.temp = clampImpact(@ + 4 * delta * dir), !.perm = @ + delta * dir]

onTrade(st, side, delta) ==
    LET dir == IF side = "Bid" THEN 1 ELSE -1 IN
    [st EXCEPT !.temp = clampImpact(@ + 4 * delta * dir),
               !.perm = clampImpact(@ + delta * dir)]

\* Each part is within the cap; their sum is cut again.
effectiveMid(st, rawMid) == rawMid + clampImpact(st.temp + st.perm)

\* Half a spread of whole ticks is that many half ticks.
executionPrice(st, side, rawMid) ==
    effectiveMid(st, rawMid) + IF side = "Bid" THEN st.lastSpread ELSE -st.lastSpread
=============================================================================
