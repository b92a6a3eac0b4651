---------------------------- MODULE RiskManager ----------------------------
(***************************************************************************)
(* Pre-trade limits and the kill switch (src/cpp/include/execution/risk.hpp *)
(* and src/cpp/src/risk.cpp).                                              *)
(***************************************************************************)
EXTENDS Market

CONSTANTS
    MaxOrderQty,        \* RiskLimits::max_order_qty
    MaxPositionQty,     \* RiskLimits::max_position_qty
    MaxOrderNotional    \* RiskLimits::max_order_notional

ASSUME LimitsAssumption ==
    /\ MaxOrderQty \in Nat
    /\ MaxPositionQty \in Nat
    /\ MaxOrderNotional \in Nat

VARIABLE killed         \* RiskManager::killed_

\* Twice the price an order is sized at: its limit, or the quote it would
\* cross, and the midpoint when that is not positive.
DoubleRiskPrice(o, quote) ==
    LET own == IF o.type = "Limit" THEN o.limit
               ELSE IF o.side = "Buy" THEN quote.ask ELSE quote.bid
    IN  IF own > 0 THEN 2 * own ELSE DoubleMid(quote)

WithinLimits(o, net, quote) ==
    /\ o.qty > 0
    /\ o.qty <= MaxOrderQty
    /\ o.qty * DoubleRiskPrice(o, quote) <= 2 * MaxOrderNotional
    /\ Abs(net + SignedQty(o.side, o.qty)) <= MaxPositionQty

\* The position limit compared with the position before the order, not with
\* the one it would lead to.
CheckCurrentPosition(o, net, quote) ==
    /\ ~killed
    /\ o.qty \in 1 .. MaxOrderQty
    /\ o.qty * DoubleRiskPrice(o, quote) <= 2 * MaxOrderNotional
    /\ Abs(net) <= MaxPositionQty

\* The limits alone, without the kill switch.
CheckLimitsOnly(o, net, quote) == WithinLimits(o, net, quote)

\* RiskManager::check: may the order go out, given the net position?
Check(o, net, quote) == ~killed /\ WithinLimits(o, net, quote)

RiskInit == killed = FALSE

\* RiskManager::kill; nothing ever resets it.
Trip == killed' = TRUE
=============================================================================
