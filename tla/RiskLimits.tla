----------------------------- MODULE RiskLimits -----------------------------
(***************************************************************************)
(* The pre-trade gate of src/risk/RiskLimits.cpp.  Its state is one signed *)
(* net quantity per symbol; a symbol that never traded reads as zero.      *)
(* totalNotional is written by onTrade and read by nothing, so it is left  *)
(* out.                                                                    *)
(***************************************************************************)
EXTENDS Integers

CONSTANTS MaxOrderQty,      \* RiskLimits::maxOrderQty(), 500 in the code
          MaxPositionQty    \* RiskLimits::maxPositionQty(), 1000 in the code

ASSUME LimitsAssumption ==
    /\ MaxOrderQty \in Nat \ {0}
    /\ MaxPositionQty \in Nat
    /\ MaxOrderQty <= MaxPositionQty

\* Bid = +qty, Ask = -qty
Signed(side, qty) == IF side = "Bid" THEN qty ELSE -qty

CheckOrder(netQty, side, qty) ==
    LET nextPos == netQty + Signed(side, qty) IN
    /\ qty > 0
    /\ qty <= MaxOrderQty
    /\ nextPos <= MaxPositionQty
    /\ -nextPos <= MaxPositionQty

OnTrade(netQty, side, qty) == netQty + Signed(side, qty)
=============================================================================
