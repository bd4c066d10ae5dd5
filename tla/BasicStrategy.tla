--------------------------- MODULE BasicStrategy ---------------------------
(***************************************************************************)
(* strategy/BasicStrategy.cpp with the external imbalance only, as         *)
(* live_sim sets it up.  An imbalance is the difference and the sum of the *)
(* two depths.  The code adds 1e-9 to the sum, so that the quotient lies   *)
(* just inside the exact one: where a value is rounded from below, half    *)
(* goes down, and a whole is not reached.                                  *)
(***************************************************************************)
EXTENDS Integers, FiniteSetsExt

Imbalance(bidDepth, askDepth) == [diff |-> bidDepth - askDepth, sum |-> bidDepth + askDepth]
Balanced == Imbalance(0, 0)

\* |imb| times the sum of the depths
Lean(imb) == IF imb.diff < 0 THEN -imb.diff ELSE imb.diff

\* The parameters main sets or leaves at their defaults
Parameters ==
    {p \in [basePrice : Int, clipSize : Nat \ {0}, ticksPerOrder : Nat \ {0}, mode : Nat,
            minClip : Nat \ {0}, maxClip : Nat \ {0}, minTicks : Nat, maxTicks : Nat,
            recalc : Nat \ {0}, lag : Nat \ {0}, lpOffset : Nat \ {0}] :
        p.minClip <= p.maxClip}

\* Twice the sensitivity of each aggressivenessMode
Sensitivity2(mode) == CASE mode = 0 -> 1 [] mode = 2 -> 3 [] OTHER -> 2

\* min(1, |imb| * sensitivity) as numerator and denominator
Magnitude(imb, mode) ==
    IF imb.sum = 0 THEN [num |-> 0, den |-> 1]
    ELSE [num |-> Min({Lean(imb) * Sensitivity2(mode), 2 * imb.sum}), den |-> 2 * imb.sum]

\* currentTicksPerOrder_
TicksPerOrder(p, imb) ==
    LET m == Magnitude(imb, p.mode)
        tt2 == 2 * (p.maxTicks * m.den - m.num * (p.maxTicks - p.minTicks)) + m.den
    IN Max({1, tt2 \div (2 * m.den)})

\* currentClip_
Clip(p, imb) ==
    LET m == Magnitude(imb, p.mode)
        c2 == 2 * (p.minClip * m.den + m.num * (p.maxClip - p.minClip)) + m.den - 1
    IN Max({1, c2 \div (2 * m.den)})

Imbalances == {imb \in [diff : Int, sum : Nat] : Lean(imb) <= imb.sum}

Intents == [imb : Imbalances, clip : Nat \ {0}, ticks : Nat \ {0}]

\* The constructor's
FirstIntent(p) == [imb |-> Balanced, clip |-> p.clipSize, ticks |-> p.ticksPerOrder]

Intent(p, imb) == [imb |-> imb, clip |-> Clip(p, imb), ticks |-> TicksPerOrder(p, imb)]

\* The lag is not applied.
IntentEveryTick(p, t, intent, imb) ==
    IF t % p.recalc = 0 THEN Intent(p, imb) ELSE intent

\* onTick's call of updateIntent
updateIntent(p, t, intent, imb) ==
    IF t % (p.lag * p.recalc) = 0 THEN Intent(p, imb) ELSE intent

Fires(t, intent) == t > 0 /\ t % intent.ticks = 0

\* |imb| > lpThreshold_, which is one fifth
Directional(imb) == 5 * Lean(imb) > imb.sum

\* The larger the imbalance, the closer to the mid
OffsetInward(p, imb) == p.lpOffset - (5 * Lean(imb) - 1) \div imb.sum

Offset(p, imb) == p.lpOffset + (5 * Lean(imb) - 1) \div imb.sum

Orders == [side : {"Bid", "Ask"}, px : Nat \ {0}, qty : Nat \ {0}]

\* fireOne: quote away from the heavy side; in balance, a coin decides.
Quote(p, imb, base, coin) ==
    LET midTicks == Max({1, base}) IN
    IF Directional(imb)
    THEN IF imb.diff > 0
         THEN [side |-> "Ask", px |-> midTicks + Offset(p, imb)]
         ELSE [side |-> "Bid", px |-> Max({1, midTicks - Offset(p, imb)})]
    ELSE [side |-> coin, px |-> Max({1, midTicks + IF coin = "Bid" THEN -1 ELSE 1})]

fireOne(p, intent, base, coin) ==
    LET q == Quote(p, intent.imb, base, coin)
    IN [side |-> q.side, px |-> q.px, qty |-> intent.clip]
=============================================================================
