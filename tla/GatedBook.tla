------------------------------ MODULE GatedBook -----------------------------
(***************************************************************************)
(* The order book behind its risk gate (README.md: the per-order and       *)
(* per-symbol limits of RiskLimits are used by OrderBook), with a history  *)
(* of what went through the gate.  checkOrder is asked about incoming      *)
(* orders, with their side, so the net position it limits is the one they  *)
(* build up.  No guard reads the history.                                  *)
(***************************************************************************)
EXTENDS OrderBook

VARIABLE taken      \* what the incoming orders of a symbol bought less what they sold

gatedVars == <<vars, taken>>

GatedInit == Init /\ taken = [s \in Symbols |-> 0]

Take ==
    /\ MatchStep
    /\ taken' = [taken EXCEPT ![call.symbol] =
                    @ + Signed(call.side, call.remaining - call'.remaining)]

GatedNext ==
    \/ Take
    \/ /\ AddOrder \/ Rest \/ \E id \in 1..MaxOrders : CancelOrder(id)
       /\ UNCHANGED taken

GatedSpec == GatedInit /\ [][GatedNext]_gatedVars
-----------------------------------------------------------------------------

(***************************************************************************)
(* The gate limits the position: whatever the orders that pass it trade,   *)
(* their net quantity stays within maxPositionQty on every symbol.  It     *)
(* does not: matchBid and matchAsk report each trade to onTrade for both   *)
(* of its sides, so the position that checkOrder looks at is always zero,  *)
(* and orders that are each within the limit pass it together.             *)
(***************************************************************************)
PositionLimited ==
    \A s \in Symbols : taken[s] \in -MaxPositionQty..MaxPositionQty
=============================================================================
