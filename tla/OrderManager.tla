---------------------------- MODULE OrderManager ----------------------------
(***************************************************************************)
(* The order pipeline: OrderManager (src/cpp/src/oms.cpp) over the risk    *)
(* manager, the paper matching engine (src/cpp/src/matching.cpp) and the   *)
(* portfolio.  A call to submit or flatten runs to completion on the       *)
(* engine's thread -- both gates, the match, every fill -- so each is one  *)
(* action.  The quote a call runs against is the caller's: any book of     *)
(* Books may be the current one.                                           *)
(***************************************************************************)
EXTENDS Portfolio, RiskManager, Functions, FiniteSetsExt, SequencesExt

CONSTANTS
    Signals,    \* what callers ask for
    Eps,        \* the tolerance on quantities (1e-12 in the code)
    MaxOrders   \* bound: no more orders than this are created

ASSUME OrderManagerAssumption ==
    /\ Signals \subseteq Signal
    /\ Eps \in Nat
    /\ MaxOrders \in Nat

VARIABLES
    orders,     \* OrderManager::orders_; the id of an order is its index
    fills       \* OrderManager::fills_

orderVars == <<orders, fills>>

vars == <<cash, position, closed, killed, orders, fills>>

Order == [symbol : Symbols, side : Sides, type : OrderTypes, qty : Nat,
          limit : Nat, filled : Nat, paid : Nat, status : OrderStatuses]

-----------------------------------------------------------------------------
(* The order state machine.                                                *)

Legal == {<<"New", "Sent">>, <<"New", "Rejected">>,
          <<"Sent", "PartiallyFilled">>, <<"Sent", "Filled">>,
          <<"Sent", "Cancelled">>, <<"Sent", "Rejected">>,
          <<"PartiallyFilled", "PartiallyFilled">>,
          <<"PartiallyFilled", "Filled">>, <<"PartiallyFilled", "Cancelled">>}

\* A state machine in which an order only fills after a partial fill.
TransitionNoDirectFill(o, to) ==
    IF <<o.status, to>> \in Legal \ {<<"Sent", "Filled">>}
    THEN [o EXCEPT !.status = to] ELSE o

\* An illegal transition leaves the order as it is; no caller looks.
Transition(o, to) ==
    IF <<o.status, to>> \in Legal THEN [o EXCEPT !.status = to] ELSE o

Leaves(o) == o.qty - o.filled

NewOrder(sig) ==
    [symbol |-> sig.symbol, side |-> sig.side, type |-> sig.type,
     qty |-> sig.qty, limit |-> sig.limit, filled |-> 0, paid |-> 0,
     status |-> "New"]

-----------------------------------------------------------------------------
(* Gate 1: account rules, long-only and no borrowing.                      *)

ReferencePrice(o, quote) ==
    IF o.type = "Limit" /\ o.limit > 0 THEN o.limit ELSE Touch(quote, o.side)

\* Buying power counts what the held symbol cost on top of the cash.
BusinessCountsBasis(o, quote) ==
    IF o.side = "Buy"
    THEN cash + position[o.symbol].basis >= o.qty * ReferencePrice(o, quote)
    ELSE NetQty(o.symbol) >= o.qty - Eps

\* Any open position may be sold from, whatever its size.
BusinessAllowsOversell(o, quote) ==
    IF o.side = "Buy" THEN cash >= o.qty * ReferencePrice(o, quote)
    ELSE NetQty(o.symbol) > 0

BusinessAllows(o, quote) ==
    IF o.side = "Buy" THEN cash >= o.qty * ReferencePrice(o, quote)
    ELSE NetQty(o.symbol) >= o.qty - Eps

Admitted(o, quote) ==
    BusinessAllows(o, quote) /\ Check(o, NetQty(o.symbol), quote)

-----------------------------------------------------------------------------
(* The paper matching engine.                                              *)

\* A limit against an empty opposite side: a buy is marketable at any price,
\* a sell never is.
Marketable(o, quote) ==
    o.type = "Limit" =>
        IF o.side = "Buy" THEN o.limit >= quote.ask ELSE o.limit <= quote.bid

\* A fill for the whole of what is left of order id, at the touch.
WholeFill(id, o, quote) ==
    [order |-> id, symbol |-> o.symbol, side |-> o.side, qty |-> Leaves(o),
     price |-> Touch(quote, o.side)]

\* A match that does not look whether there is a price at all.
MatchFillUnpriced(id, o, quote) ==
    IF Leaves(o) > 0 /\ Marketable(o, quote)
    THEN {WholeFill(id, o, quote)} ELSE {}

\* PaperMatchingEngine::fill, as the set of fills it returns: the whole of
\* what is left at the touch, or nothing.
MatchFill(id, o, quote) ==
    IF Leaves(o) > 0 /\ Touch(quote, o.side) > 0 /\ Marketable(o, quote)
    THEN {WholeFill(id, o, quote)} ELSE {}

-----------------------------------------------------------------------------
(* OrderManager::on_fill.                                                  *)

AddFill(o, f) ==
    LET paid   == [o EXCEPT !.paid = @ + f.qty * f.price]
        filled == [paid EXCEPT !.filled = @ + f.qty]
    IN  Transition(filled, IF Leaves(filled) <= Eps
                           THEN "Filled" ELSE "PartiallyFilled")

\* The fill finds the order it names among those stored and changes it where it
\* is; a fill for an order that is not there is dropped.
OnFill(stored, f) ==
    IF f.order \in DOMAIN stored
    THEN /\ orders' = [stored EXCEPT ![f.order] = AddFill(@, f)]
         /\ ApplyFill(f, Len(fills) + 1)
         /\ fills' = Append(fills, f)
    ELSE /\ orders' = stored
         /\ UNCHANGED <<portfolioVars, fills>>

\* The order is stored, and nothing came back for it.
Record(o) ==
    /\ orders' = Append(orders, o)
    /\ UNCHANGED <<portfolioVars, fills>>

-----------------------------------------------------------------------------
(* The operations.                                                         *)

Init ==
    /\ PortfolioInit
    /\ RiskInit
    /\ orders = <<>>
    /\ fills = <<>>

Rejected(sig, quote) ==
    /\ ~Admitted(NewOrder(sig), quote)
    /\ Record(Transition(NewOrder(sig), "Rejected"))

\* The venue answers before the order is stored: on_fill finds no order.
RoutedUnstored(sig, quote) ==
    /\ Admitted(NewOrder(sig), quote)
    /\ Record(Transition(NewOrder(sig), "Sent"))

\* Stored before it is matched, so that on_fill can find it.
Routed(sig, quote) ==
    LET sent    == Transition(NewOrder(sig), "Sent")
        stored  == Append(orders, sent)
        matched == MatchFill(Len(stored), sent, quote)
    IN  /\ Admitted(NewOrder(sig), quote)
        /\ \/ matched = {} /\ Record(sent)
           \/ \E f \in matched : OnFill(stored, f)

\* OrderManager::submit.  A signal without a size creates no order.
Submit(sig, quote) ==
    /\ sig.qty > 0
    /\ Len(orders) < MaxOrders
    /\ Rejected(sig, quote) \/ Routed(sig, quote)
    /\ UNCHANGED killed

\* The signal flatten makes: a market sale of the whole long position.
FlattenSignal(s) ==
    [symbol |-> s, side |-> "Sell", type |-> "Market", qty |-> NetQty(s),
     limit |-> 0]

\* OrderManager::flatten; nothing happens unless the position is long.
Flatten(s, quote) ==
    /\ NetQty(s) > Eps
    /\ Submit(FlattenSignal(s), quote)

\* The kill command of the engine.
Kill ==
    /\ Trip
    /\ UNCHANGED <<portfolioVars, orderVars>>

Next ==
    \/ \E sig \in Signals, quote \in Books : Submit(sig, quote)
    \/ \E s \in Symbols, quote \in Books : Flatten(s, quote)
    \/ Kill

Spec == Init /\ [][Next]_vars
-----------------------------------------------------------------------------
(* Properties.                                                             *)

\* Every variable has its type: quantities and prices of fills are positive,
\* and an order's status is one the code names (types.hpp:40).
TypeOK ==
    /\ cash \in Int
    /\ position \in [Symbols -> Position]
    /\ closed \in Seq(ClosedPosition)
    /\ killed \in BOOLEAN
    /\ orders \in Seq(Order)
    /\ fills \in Seq(Fill)

\* No sequence of orders, flattens and limit orders takes a position out of
\* [-Eps, MaxPositionQty]: long-only up to the tolerance the sell gate grants
\* (oms.cpp:61), and never above the limit risk.cpp:36-40 projects.
PositionsWithinLimits ==
    \A s \in Symbols : NetQty(s) >= -Eps /\ NetQty(s) <= MaxPositionQty

\* A limit buy that was filled above its limit.
BoughtAboveLimit(o) ==
    /\ o.type = "Limit"
    /\ o.side = "Buy"
    /\ o.paid > o.qty * o.limit

\* Buying power, checked per order against the reference price (oms.cpp:57-59),
\* keeps cash from going negative -- unless a limit order was filled above the
\* limit it was sized at, the one way the reference price and the fill price
\* can differ.
CashCoversPurchases ==
    cash < 0 => \E i \in DOMAIN orders : BoughtAboveLimit(orders[i])

\* Order o is Filled and agrees with fill f on symbol, side, size and money.
Explains(o, f) ==
    /\ o.status = "Filled"
    /\ o.symbol = f.symbol /\ o.side = f.side
    /\ o.qty = f.qty /\ o.filled = f.qty /\ o.paid = f.qty * f.price

EveryFillHasItsOrder ==
    \A k \in DOMAIN fills : /\ fills[k].order \in DOMAIN orders
                            /\ Explains(orders[fills[k].order], fills[k])

NoOrderFilledTwice ==
    \A j, k \in DOMAIN fills : j < k => fills[j].order < fills[k].order

EveryOrderIsSettled ==
    \A i \in DOMAIN orders :
        \/ \E k \in DOMAIN fills : fills[k].order = i
        \/ /\ orders[i].status \in {"Sent", "Rejected"}
           /\ orders[i].filled = 0 /\ orders[i].paid = 0

\* Orders and fills tell the same story.  Every fill belongs to one order that
\* is Filled, agrees with it and is its only one; an order without a fill holds
\* nothing and is resting or rejected, so no order is left in a status this
\* venue cannot produce (oms.cpp:81-85, 101-117).
OrdersAgreeWithFills ==
    EveryFillHasItsOrder /\ NoOrderFilledTwice /\ EveryOrderIsSettled

SignedQtys == [j \in DOMAIN fills |-> SignedQty(fills[j].side, fills[j].qty)]

\* Net quantity of s after the first k fills.
NetAfter(k, s) ==
    SumFunctionOnSet(SignedQtys, {j \in 1 .. k : fills[j].symbol = s})

\* The account is what its log of fills says it is: replaying the fills from the
\* funded account gives the cash and every net quantity (portfolio.hpp:52-61).
FillsExplainAccount ==
    /\ cash = InitialCapital
              - SumFunction([j \in DOMAIN fills |-> SignedQtys[j] * fills[j].price])
    /\ \A s \in Symbols : NetQty(s) = NetAfter(Len(fills), s)

\* The closed table has one row for every fill that took its symbol from open to
\* exactly flat, and no other (portfolio.hpp:63-67).
ClosedRowsAreRoundTrips ==
    /\ {closed[i].fill : i \in DOMAIN closed}
          = {k \in DOMAIN fills : NetAfter(k, fills[k].symbol) = 0}
    /\ \A i \in DOMAIN closed : closed[i].symbol = fills[closed[i].fill].symbol
    /\ \A i, j \in DOMAIN closed : i < j => closed[i].fill < closed[j].fill

\* The money identity behind every figure the terminal shows: whatever the
\* market does to the marks, total PnL (equity less capital) is realised plus
\* unrealised PnL (portfolio.hpp:70-92), through partial exits and flips.
PnlAddsUp ==
    \A marks \in [Symbols -> Marks] : TotalPnl(marks) = Realized + Unrealized(marks)

\* A step moves cash by exactly what it realises less what it ties up as cost,
\* in at most one position: no step creates or loses money (types.hpp:141-162,
\* portfolio.hpp:60-61).
Conserves(s) ==
    /\ \A t \in Symbols \ {s} : position'[t] = position[t]
    /\ cash' - cash = (position'[s].realized - position[s].realized)
                        - (position'[s].basis - position[s].basis)

MoneyConserved ==
    [][UNCHANGED <<cash, position>> \/ \E s \in Symbols : Conserves(s)]_vars

\* A partial exit leaves the average entry price alone (types.hpp:150-158): only
\* buying moves it.
AverageUnmovedByExit ==
    [][\A s \in Symbols :
          0 < position'[s].net /\ position'[s].net < position[s].net
            => position'[s].basis * position[s].net
                 = position[s].basis * position'[s].net]_vars

\* No fill the venue gives is lost on its way to the account: an order, also one
\* of flatten, is left Sent only where there is no price it accepts.  on_fill
\* drops what it cannot find an order for, so this rests on the order having been
\* stored before it is matched (oms.cpp:83).
NoFillIsLost ==
    [][LET last  == Last(orders')
           calls == Signals \cup {FlattenSignal(s) : s \in {t \in Symbols : NetQty(t) > Eps}}
       IN  orders' # orders /\ last.status = "Sent" =>
              \A sig \in calls, quote \in Books :
                  Submit(sig, quote) => MatchFill(Len(orders'), last, quote) = {}]_vars

\* Once the kill switch has been tripped it stays tripped, and no order, not
\* even a flatten, changes the account again (risk.hpp:39-41).
NothingTradesAfterKill ==
    [][killed => killed' /\ UNCHANGED <<portfolioVars, fills>>]_vars

\* The prices the quotes offer, and the account the pipeline implements.
TouchPrices == {Touch(quote, side) : quote \in Books, side \in Sides} \ {0}

NetQuantities == [s \in Symbols |-> NetQty(s)]

Account == INSTANCE PaperAccount
    WITH Prices <- TouchPrices, Capital <- InitialCapital, Tolerance <- Eps,
         net <- NetQuantities, halted <- killed

\* Every call, whatever it rejects, leaves partly done or flips, is for the
\* account either nothing, one whole trade at a touch price within the limits,
\* or the halt.
ImplementsPaperAccount == Account!Spec

-----------------------------------------------------------------------------
(* What the repository's comments promise and the code does not keep.      *)

\* "largest single order in quote ccy" (risk.hpp:19): no fill is worth more than
\* the notional limit.
NotionalLimitHolds ==
    \A k \in DOMAIN fills : fills[k].qty * fills[k].price <= MaxOrderNotional

\* "non-marketable limits rest" (matching.hpp:11): no limit buy is filled above
\* its limit.
LimitPriceHonoured == \A i \in DOMAIN orders : ~BoughtAboveLimit(orders[i])

\* "fully flatten a symbol at the current market" (oms.hpp:36-37): with a quote
\* and no kill, flatten leaves no position.
FlattenLeavesFlat ==
    [][\A s \in Symbols, quote \in Books :
          Flatten(s, quote) /\ ~killed /\ Touch(quote, "Sell") > 0
            => position'[s].net = 0]_vars

\* "pnl of this round trip only" (portfolio.hpp:32): once a symbol is flat, its
\* closed rows account for all it ever realised.
ClosedRowsHoldWholePnl ==
    \A s \in Symbols :
        NetQty(s) = 0 =>
            position[s].realized =
                MapThenSumSet(LAMBDA i : closed[i].pnl,
                              {i \in DOMAIN closed : closed[i].symbol = s})
=============================================================================
