------------------------- MODULE OrderManagerProofs -------------------------
(***************************************************************************)
(* Theorems about the order pipeline, for every set of symbols, quotes and *)
(* signals and every value of the limits.                                  *)
(*                                                                         *)
(* The argument: a step of the pipeline is the kill switch, an order that  *)
(* is stored without a fill, or one whole trade that both gates admitted   *)
(* (lemma StepCases).  Each invariant then has three cases, and only the   *)
(* trade is of interest.                                                   *)
(***************************************************************************)
EXTENDS OrderManager, TLAPS

-----------------------------------------------------------------------------
(* The three kinds of step.                                                *)

WithStatus(sig, status) == [NewOrder(sig) EXCEPT !.status = status]

\* An order is stored and nothing else happens.
NoTrade(o) ==
    /\ orders' = Append(orders, o)
    /\ UNCHANGED <<cash, position, closed, killed, fills>>

TradeFill(sig, quote) ==
    [order |-> Len(orders) + 1, symbol |-> sig.symbol, side |-> sig.side,
     qty |-> sig.qty, price |-> Touch(quote, sig.side)]

TradeOrder(sig, quote) ==
    [symbol |-> sig.symbol, side |-> sig.side, type |-> sig.type,
     qty |-> sig.qty, limit |-> sig.limit, filled |-> sig.qty,
     paid |-> sig.qty * Touch(quote, sig.side), status |-> "Filled"]

\* An order is admitted and filled whole at the touch.
Trade(sig, quote) ==
    /\ sig.qty > 0
    /\ Touch(quote, sig.side) > 0
    /\ Admitted(NewOrder(sig), quote)
    /\ ApplyFill(TradeFill(sig, quote), Len(fills) + 1)
    /\ fills' = Append(fills, TradeFill(sig, quote))
    /\ orders' = Append(orders, TradeOrder(sig, quote))
    /\ UNCHANGED killed

\* A touch price is a price, whichever side is empty.
LEMMA TouchType ==
    ASSUME NEW quote \in [bid : Nat, ask : Nat], NEW side
    PROVE  Touch(quote, side) \in Nat
BY DEF Touch

\* Storing the one fill the venue gives fills the order, in one legal
\* transition.
LEMMA FilledOrder ==
    ASSUME NEW sig \in Signal, NEW quote \in [bid : Nat, ask : Nat]
    PROVE  AddFill(WithStatus(sig, "Sent"), TradeFill(sig, quote))
             = TradeOrder(sig, quote)
<1>1. Touch(quote, sig.side) \in Nat
  BY TouchType
<1>. DEFINE price == Touch(quote, sig.side)
            sent == WithStatus(sig, "Sent")
            f == TradeFill(sig, quote)
            paid == [sent EXCEPT !.paid = @ + f.qty * f.price]
            filled == [paid EXCEPT !.filled = @ + f.qty]
<1>2. sent = [symbol |-> sig.symbol, side |-> sig.side, type |-> sig.type,
              qty |-> sig.qty, limit |-> sig.limit, filled |-> 0, paid |-> 0,
              status |-> "Sent"]
  BY DEF WithStatus, NewOrder
<1>3. sent.paid + f.qty * f.price = sig.qty * price
  BY <1>1, <1>2 DEF TradeFill, Signal
<1>4. paid = [symbol |-> sig.symbol, side |-> sig.side, type |-> sig.type,
              qty |-> sig.qty, limit |-> sig.limit, filled |-> 0,
              paid |-> sig.qty * price, status |-> "Sent"]
  <2>. HIDE DEF sent, price, f
  <2>. QED BY <1>2, <1>3
<1>5. paid.filled + f.qty = sig.qty
  <2>. HIDE DEF paid, price
  <2>. QED BY <1>4 DEF TradeFill, Signal
<1>6. filled = [symbol |-> sig.symbol, side |-> sig.side, type |-> sig.type,
                qty |-> sig.qty, limit |-> sig.limit, filled |-> sig.qty,
                paid |-> sig.qty * price, status |-> "Sent"]
  <2>. HIDE DEF paid, price, f
  <2>. QED BY <1>4, <1>5
<1>7. Leaves(filled) <= Eps
  <2>. HIDE DEF filled
  <2>. QED BY <1>6, OrderManagerAssumption DEF Leaves, Signal
<1>8. Transition(filled, "Filled") = TradeOrder(sig, quote)
  <2>. HIDE DEF filled
  <2>. QED BY <1>6 DEF Transition, Legal, TradeOrder
<1>. QED
  BY <1>7, <1>8 DEF AddFill

\* A fill for the order stored last finds it: looking it up by number and
\* changing it in place leaves every earlier order as it is.
LEMMA FillFindsNewest ==
    ASSUME NEW seq \in Seq(Order), NEW o \in Order, NEW p \in Order
    PROVE  LET stored == Append(seq, o)
           IN  /\ Len(stored) \in DOMAIN stored
               /\ stored[Len(stored)] = o
               /\ [stored EXCEPT ![Len(stored)] = p] = Append(seq, p)
<1>. DEFINE stored == Append(seq, o)
            changed == [stored EXCEPT ![Len(stored)] = p]
<1>1. /\ stored \in Seq(Order) /\ Len(stored) = Len(seq) + 1 /\ Len(seq) \in Nat
      /\ DOMAIN stored = 1 .. Len(seq) + 1
      /\ stored[Len(seq) + 1] = o
      /\ \A i \in 1 .. Len(seq) : stored[i] = seq[i]
  OBVIOUS
<1>2. /\ Append(seq, p) \in Seq(Order) /\ Len(Append(seq, p)) = Len(seq) + 1
      /\ DOMAIN Append(seq, p) = 1 .. Len(seq) + 1
      /\ Append(seq, p)[Len(seq) + 1] = p
      /\ \A i \in 1 .. Len(seq) : Append(seq, p)[i] = seq[i]
  OBVIOUS
<1>. HIDE DEF stored
<1>3. /\ changed \in Seq(Order) /\ Len(changed) = Len(seq) + 1
      /\ changed[Len(seq) + 1] = p
      /\ \A i \in 1 .. Len(seq) : changed[i] = seq[i]
  BY <1>1
<1>4. changed = Append(seq, p)
  <2>. HIDE DEF changed
  <2>. QED BY <1>2, <1>3
<1>. QED
  BY <1>1, <1>4 DEF stored

\* The fill the venue gives for the order just stored is for the whole of it, and
\* reaches the order, the portfolio and the log.
LEMMA FillReachesOrder ==
    ASSUME TypeOK, NEW sig \in Signal, NEW quote \in Books,
           NEW f \in MatchFill(Len(Append(orders, WithStatus(sig, "Sent"))),
                               WithStatus(sig, "Sent"), quote),
           OnFill(Append(orders, WithStatus(sig, "Sent")), f)
    PROVE  /\ f = TradeFill(sig, quote) /\ Touch(quote, sig.side) > 0
           /\ orders' = Append(orders, TradeOrder(sig, quote))
           /\ ApplyFill(f, Len(fills) + 1)
           /\ fills' = Append(fills, f)
<1>. DEFINE sent == WithStatus(sig, "Sent")
            stored == Append(orders, sent)
<1>1. /\ sent.symbol = sig.symbol /\ sent.side = sig.side
      /\ sent.qty = sig.qty /\ sent.filled = 0
  BY DEF WithStatus, NewOrder
<1>2. Leaves(sent) = sig.qty
  BY <1>1 DEF Leaves, Signal
<1>3. orders \in Seq(Order) /\ sent \in Order
  BY DEF TypeOK, Order, WithStatus, NewOrder, Signal, OrderStatuses
<1>4. Len(stored) = Len(orders) + 1
  BY <1>3
<1>5. f = TradeFill(sig, quote) /\ Touch(quote, sig.side) > 0
  <2>. HIDE DEF sent, stored
  <2>1. f \in MatchFill(Len(stored), sent, quote)
    BY DEF sent, stored
  <2>. QED BY <1>1, <1>2, <1>4, <2>1 DEF MatchFill, WholeFill, TradeFill
<1>6. f.order = Len(stored)
  BY <1>4, <1>5 DEF TradeFill
<1>7. quote \in [bid : Nat, ask : Nat]
  BY BooksAssumption
<1>8. AddFill(sent, f) = TradeOrder(sig, quote)
  BY <1>5, <1>7, FilledOrder
<1>9. /\ f.order \in DOMAIN stored
      /\ [stored EXCEPT ![f.order] = AddFill(@, f)]
            = Append(orders, TradeOrder(sig, quote))
  <2>1. Touch(quote, sig.side) \in Nat
    BY <1>7, TouchType
  <2>2. sig.qty * Touch(quote, sig.side) \in Nat
    BY <2>1 DEF Signal
  <2>3. TradeOrder(sig, quote) \in Order
    BY <2>2 DEF TradeOrder, Order, Signal, OrderStatuses
  <2>. HIDE DEF sent
  <2>. QED BY <1>3, <1>6, <1>8, <2>3, FillFindsNewest
<1>10. OnFill(stored, f)
  OBVIOUS
<1>. HIDE DEF stored
<1>. QED
  BY <1>5, <1>9, <1>10 DEF OnFill

\* A call of submit either stores an order or trades.
LEMMA SubmitCases ==
    ASSUME TypeOK, NEW sig \in Signal, NEW quote \in Books, Submit(sig, quote)
    PROVE  \/ \E status \in {"Sent", "Rejected"} : NoTrade(WithStatus(sig, status))
           \/ Trade(sig, quote)
<1>. DEFINE sent == WithStatus(sig, "Sent")
            stored == Append(orders, sent)
            matched == MatchFill(Len(stored), sent, quote)
<1>1. /\ Transition(NewOrder(sig), "Sent") = sent
      /\ Transition(NewOrder(sig), "Rejected") = WithStatus(sig, "Rejected")
  BY DEF Transition, Legal, NewOrder, WithStatus
<1>2. CASE Rejected(sig, quote)
  BY <1>1, <1>2 DEF Rejected, Record, NoTrade, Submit, portfolioVars
<1>3. CASE Routed(sig, quote)
  <2>1. CASE matched = {} /\ Record(sent)
    BY <2>1 DEF Record, NoTrade, Submit, portfolioVars
  <2>2. ASSUME NEW f \in matched, OnFill(stored, f)
        PROVE  Trade(sig, quote)
    <3>1. /\ f = TradeFill(sig, quote) /\ Touch(quote, sig.side) > 0
          /\ orders' = Append(orders, TradeOrder(sig, quote))
          /\ ApplyFill(f, Len(fills) + 1)
          /\ fills' = Append(fills, f)
      BY <2>2, FillReachesOrder
    <3>. QED
      BY <3>1, <1>3 DEF Trade, Routed, Submit
  <2>. QED
    BY <1>1, <1>3, <2>1, <2>2 DEF Routed
<1>. QED
  BY <1>2, <1>3 DEF Submit

LEMMA FlattenIsSignal ==
    ASSUME TypeOK, NEW s \in Symbols, NetQty(s) > Eps
    PROVE  FlattenSignal(s) \in Signal
<1>1. NetQty(s) \in Nat
  BY OrderManagerAssumption DEF NetQty, TypeOK, Position
<1>. QED
  BY <1>1 DEF FlattenSignal, Signal, Sides, OrderTypes

\* Flatten is a call of submit, so every step is one of the three kinds.
LEMMA StepCases ==
    ASSUME TypeOK, Next
    PROVE  \/ Kill
           \/ \E sig \in Signal, status \in {"Sent", "Rejected"} :
                 NoTrade(WithStatus(sig, status))
           \/ \E sig \in Signal, quote \in Books : Trade(sig, quote)
<1>1. ASSUME NEW sig \in Signals, NEW quote \in Books, Submit(sig, quote)
      PROVE  \/ \E status \in {"Sent", "Rejected"} : NoTrade(WithStatus(sig, status))
             \/ Trade(sig, quote)
  BY <1>1, SubmitCases, OrderManagerAssumption
<1>2. ASSUME NEW s \in Symbols, NEW quote \in Books, Flatten(s, quote)
      PROVE  /\ FlattenSignal(s) \in Signal
             /\ \/ \E status \in {"Sent", "Rejected"} :
                      NoTrade(WithStatus(FlattenSignal(s), status))
                \/ Trade(FlattenSignal(s), quote)
  <2>1. FlattenSignal(s) \in Signal
    BY <1>2, FlattenIsSignal DEF Flatten
  <2>. QED
    BY <1>2, <2>1, SubmitCases DEF Flatten
<1>. QED
  BY <1>1, <1>2, OrderManagerAssumption DEF Next

-----------------------------------------------------------------------------
(* Positions.                                                              *)

\* Whatever a fill does to a position -- extend, reduce, close, flip -- the net
\* moves by the signed size, and what is realised less what is tied up moves by
\* exactly the money that changed hands.
LEMMA ApplyToPosition ==
    ASSUME NEW p \in Position, NEW f \in Fill
    PROVE  LET after == PositionApply(p, f)
               sq    == SignedQty(f.side, f.qty)
           IN  /\ after \in Position
               /\ after.net = p.net + sq
               /\ (after.realized - p.realized) - (after.basis - p.basis)
                     = -(sq * f.price)
<1>. DEFINE sq == SignedQty(f.side, f.qty)
            price == f.price
<1>1. /\ sq \in Int /\ sq # 0 /\ price \in Nat /\ price \in Int
      /\ p.net \in Int /\ p.basis \in Int /\ p.realized \in Int
  BY DEF SignedQty, Fill, Sides, Position
<1>. HIDE DEF sq, price
<1>2. CASE Opening(p, sq)
  <2>1. PositionApply(p, f) = ExtendPosition(p, sq, price)
    BY <1>2 DEF PositionApply, sq, price
  <2>. QED
    BY <1>1, <2>1 DEF ExtendPosition, Position, sq, price
<1>3. CASE ~Opening(p, sq) /\ Abs(sq) > Abs(p.net)
  <2>1. PositionApply(p, f) = FlipPosition(p, sq, price)
    BY <1>3 DEF PositionApply, sq, price
  <2>. QED
    BY <1>1, <2>1 DEF FlipPosition, Position, sq, price
<1>4. CASE ~Opening(p, sq) /\ ~(Abs(sq) > Abs(p.net))
  <2>. DEFINE released == (p.basis * Abs(sq)) \div Abs(p.net)
  <2>1. PositionApply(p, f) = ReducePosition(p, sq, price)
    BY <1>4 DEF PositionApply, sq, price
  <2>2. released \in Int
    BY <1>1, <1>4 DEF Opening, Abs
  <2>3. PositionApply(p, f)
          = [net |-> p.net + sq, basis |-> p.basis - released,
             realized |-> p.realized - price * sq - released]
    BY <2>1 DEF ReducePosition
  <2>. HIDE DEF released
  <2>. QED
    BY <1>1, <2>2, <2>3 DEF Position, sq, price
<1>. QED
  BY <1>2, <1>3, <1>4

\* What a trade does to the account.
LEMMA TradeEffect ==
    ASSUME TypeOK, NEW sig \in Signal, NEW quote \in Books, Trade(sig, quote)
    PROVE  LET s     == sig.symbol
               sq    == SignedQty(sig.side, sig.qty)
               price == Touch(quote, sig.side)
           IN  /\ s \in Symbols /\ sq \in Int /\ price \in Nat \ {0}
               /\ TradeFill(sig, quote) \in Fill
               /\ cash' = cash - sq * price
               /\ position' \in [Symbols -> Position]
               /\ position'[s].net = position[s].net + sq
               /\ \A t \in Symbols \ {s} : position'[t] = position[t]
               /\ (position'[s].realized - position[s].realized)
                     - (position'[s].basis - position[s].basis) = -(sq * price)
               /\ closed' \in Seq(ClosedPosition)
<1>. DEFINE s == sig.symbol
            sq == SignedQty(sig.side, sig.qty)
            price == Touch(quote, sig.side)
            f == TradeFill(sig, quote)
            id == Len(fills) + 1
            before == position[s]
            after == PositionApply(before, f)
<1>1. price \in Nat \ {0}
  BY TouchType, BooksAssumption DEF Trade
<1>2. /\ s \in Symbols /\ sig.side \in Sides /\ sig.qty \in Nat \ {0}
      /\ sq \in Int
  BY DEF Signal, Trade, SignedQty
<1>3. id \in Nat \ {0} /\ Len(orders) + 1 \in Nat \ {0}
  BY DEF TypeOK
<1>4. /\ f \in Fill
      /\ f.symbol = s /\ f.side = sig.side /\ f.qty = sig.qty /\ f.price = price
  BY <1>1, <1>2, <1>3 DEF TradeFill, Fill
<1>5. before \in Position
  BY <1>2 DEF TypeOK
<1>6. /\ after \in Position
      /\ after.net = before.net + sq
      /\ (after.realized - before.realized) - (after.basis - before.basis)
           = -(sq * price)
  BY <1>4, <1>5, ApplyToPosition
<1>. HIDE DEF f, after
<1>7. /\ position' = [position EXCEPT ![s] = after]
      /\ cash' = cash - sq * price
      /\ closed' = IF EndsRoundTrip(before, after)
                   THEN Append(closed, RoundTrip(f, id, before, after))
                   ELSE closed
  BY <1>4 DEF Trade, ApplyFill, f, after
<1>8. /\ position' \in [Symbols -> Position]
      /\ position'[s] = after
      /\ \A t \in Symbols \ {s} : position'[t] = position[t]
  BY <1>2, <1>6, <1>7 DEF TypeOK
<1>9. RoundTrip(f, id, before, after) \in ClosedPosition
  <2>1. Abs(before.net) \in Nat /\ after.realized - before.realized \in Int
    BY <1>5, <1>6 DEF Position, Abs
  <2>. HIDE DEF id, before
  <2>. QED
    BY <1>2, <1>3, <1>4, <2>1 DEF RoundTrip, ClosedPosition
<1>10. closed' \in Seq(ClosedPosition)
  BY <1>7, <1>9 DEF TypeOK
<1>. QED
  BY <1>1, <1>2, <1>4, <1>6, <1>7, <1>8, <1>10 DEF f

LEMMA OrdersAreTyped ==
    ASSUME NEW sig \in Signal, NEW quote \in Books
    PROVE  /\ TradeOrder(sig, quote) \in Order
           /\ \A status \in {"Sent", "Rejected"} :
                /\ WithStatus(sig, status) \in Order
                /\ WithStatus(sig, status).paid = 0
                /\ WithStatus(sig, status).filled = 0
                /\ WithStatus(sig, status).status = status
<1>1. Touch(quote, sig.side) \in Nat
  BY TouchType, BooksAssumption
<1>2. sig.qty * Touch(quote, sig.side) \in Nat
  BY <1>1 DEF Signal
<1>. QED
  BY <1>2 DEF TradeOrder, Order, WithStatus, NewOrder, Signal, OrderStatuses

-----------------------------------------------------------------------------
(* Type correctness.                                                       *)

LEMMA TypeInit == Init => TypeOK
<1>. SUFFICES ASSUME Init PROVE TypeOK
  OBVIOUS
<1>1. Flat \in Position
  BY DEF Flat, Position
<1>2. cash \in Int
  BY CapitalAssumption DEF Init, PortfolioInit
<1>3. killed \in BOOLEAN
  BY DEF Init, RiskInit
<1>4. position \in [Symbols -> Position]
  BY <1>1 DEF Init, PortfolioInit
<1>5. closed \in Seq(ClosedPosition) /\ orders \in Seq(Order) /\ fills \in Seq(Fill)
  BY DEF Init, PortfolioInit
<1>. QED
  BY <1>2, <1>3, <1>4, <1>5 DEF TypeOK

LEMMA TypeStep == TypeOK /\ [Next]_vars => TypeOK'
<1>. SUFFICES ASSUME TypeOK, [Next]_vars PROVE TypeOK'
  OBVIOUS
<1>1. CASE Kill
  BY <1>1 DEF Kill, Trip, TypeOK, portfolioVars, orderVars
<1>2. ASSUME NEW sig \in Signal, NEW status \in {"Sent", "Rejected"},
             NoTrade(WithStatus(sig, status))
      PROVE  TypeOK'
  <2>1. WithStatus(sig, status) \in Order
    BY DEF Order, WithStatus, NewOrder, Signal, OrderStatuses
  <2>. QED
    BY <1>2, <2>1 DEF NoTrade, TypeOK
<1>3. ASSUME NEW sig \in Signal, NEW quote \in Books, Trade(sig, quote)
      PROVE  TypeOK'
  <2>1. TradeOrder(sig, quote) \in Order
    BY OrdersAreTyped
  <2>2. orders' \in Seq(Order) /\ fills' \in Seq(Fill) /\ killed' \in BOOLEAN
    BY <1>3, <2>1, TradeEffect DEF Trade, TypeOK
  <2>3. cash' \in Int /\ position' \in [Symbols -> Position]
        /\ closed' \in Seq(ClosedPosition)
    BY <1>3, TradeEffect DEF TypeOK
  <2>. QED
    BY <2>2, <2>3 DEF TypeOK
<1>4. CASE UNCHANGED vars
  BY <1>4 DEF vars, TypeOK
<1>. QED
  BY <1>1, <1>2, <1>3, <1>4, StepCases

\* Every reachable state is well typed: positive fills, known statuses, integer
\* money.
THEOREM TypeCorrect == Spec => []TypeOK
BY TypeInit, TypeStep, PTL DEF Spec

-----------------------------------------------------------------------------
(* Positions and cash stay within their bounds.                            *)

\* What the two gates establish about the order they let through.
LEMMA AdmittedTrade ==
    ASSUME TypeOK, NEW sig \in Signal, NEW quote \in Books, Trade(sig, quote)
    PROVE  LET net   == position[sig.symbol].net
               price == Touch(quote, sig.side)
           IN  /\ ~killed
               /\ Abs(net + SignedQty(sig.side, sig.qty)) <= MaxPositionQty
               /\ sig.side = "Sell" => net >= sig.qty - Eps
               /\ sig.side = "Buy" =>
                     \/ cash >= sig.qty * price
                     \/ /\ sig.type = "Limit" /\ sig.limit > 0
                        /\ cash >= sig.qty * sig.limit
<1>. DEFINE o == NewOrder(sig)
<1>1. /\ o.symbol = sig.symbol /\ o.side = sig.side /\ o.type = sig.type
      /\ o.qty = sig.qty /\ o.limit = sig.limit
  BY DEF NewOrder
<1>. HIDE DEF o
<1>2. BusinessAllows(o, quote) /\ Check(o, NetQty(o.symbol), quote)
  BY DEF Trade, Admitted, o
<1>3. /\ ~killed
      /\ Abs(NetQty(o.symbol) + SignedQty(o.side, o.qty)) <= MaxPositionQty
  BY <1>2 DEF Check, WithinLimits
<1>4. IF o.side = "Buy" THEN cash >= o.qty * ReferencePrice(o, quote)
      ELSE NetQty(o.symbol) >= o.qty - Eps
  BY <1>2 DEF BusinessAllows
<1>5. ReferencePrice(o, quote) =
         IF sig.type = "Limit" /\ sig.limit > 0 THEN sig.limit
         ELSE Touch(quote, sig.side)
  BY <1>1 DEF ReferencePrice
<1>. QED
  BY <1>1, <1>3, <1>4, <1>5 DEF NetQty

\* Net quantities only: what the gates imply for a signed change of position.
LEMMA LimitsPreserved ==
    ASSUME NEW net \in Int, NEW qty \in Nat \ {0}, NEW side \in Sides,
           net >= -Eps, net <= MaxPositionQty,
           Abs(net + SignedQty(side, qty)) <= MaxPositionQty,
           side = "Sell" => net >= qty - Eps
    PROVE  /\ net + SignedQty(side, qty) >= -Eps
           /\ net + SignedQty(side, qty) <= MaxPositionQty
BY OrderManagerAssumption, LimitsAssumption DEF SignedQty, Sides, Abs

LEMMA LimitsStep ==
    TypeOK /\ PositionsWithinLimits /\ [Next]_vars => PositionsWithinLimits'
<1>. SUFFICES ASSUME TypeOK, PositionsWithinLimits, [Next]_vars
              PROVE  PositionsWithinLimits'
  OBVIOUS
<1>1. CASE UNCHANGED position
  BY <1>1 DEF PositionsWithinLimits, NetQty
<1>2. ASSUME NEW sig \in Signal, NEW quote \in Books, Trade(sig, quote)
      PROVE  PositionsWithinLimits'
  <2>. DEFINE s == sig.symbol
              net == position[s].net
  <2>1. /\ s \in Symbols
        /\ position'[s].net = net + SignedQty(sig.side, sig.qty)
        /\ \A t \in Symbols \ {s} : position'[t] = position[t]
    BY <1>2, TradeEffect
  <2>2. /\ Abs(net + SignedQty(sig.side, sig.qty)) <= MaxPositionQty
        /\ sig.side = "Sell" => net >= sig.qty - Eps
    BY <1>2, AdmittedTrade
  <2>3. net \in Int /\ net >= -Eps /\ net <= MaxPositionQty
    BY <2>1 DEF TypeOK, Position, PositionsWithinLimits, NetQty
  <2>4. sig.qty \in Nat \ {0} /\ sig.side \in Sides
    BY <1>2 DEF Signal, Trade
  <2>5. position'[s].net >= -Eps /\ position'[s].net <= MaxPositionQty
    <3>. HIDE DEF net, s
    <3>. QED BY <2>1, <2>2, <2>3, <2>4, LimitsPreserved
  <2>. QED
    BY <2>1, <2>5 DEF PositionsWithinLimits, NetQty
<1>3. Kill \/ UNCHANGED vars => UNCHANGED position
  BY DEF Kill, portfolioVars, vars
<1>4. ASSUME NEW o, NoTrade(o) PROVE UNCHANGED position
  BY <1>4 DEF NoTrade
<1>. QED
  BY <1>1, <1>2, <1>3, <1>4, StepCases

\* No order, flatten or limit order ever takes a position short (beyond the
\* tolerance of the sell gate) or over the position limit.
THEOREM LongOnly == Spec => []PositionsWithinLimits
<1>1. Init => PositionsWithinLimits
  <2>. SUFFICES ASSUME Init, NEW s \in Symbols
                PROVE  NetQty(s) >= -Eps /\ NetQty(s) <= MaxPositionQty
    BY DEF PositionsWithinLimits
  <2>1. position[s] = Flat
    BY DEF Init, PortfolioInit
  <2>2. NetQty(s) = 0
    BY <2>1 DEF NetQty, Flat
  <2>3. Eps \in Nat /\ MaxPositionQty \in Nat
    BY OrderManagerAssumption, LimitsAssumption
  <2>. QED
    BY <2>2, <2>3
<1>. QED
  BY <1>1, LimitsStep, TypeCorrect, PTL DEF Spec

\* What appending to a sequence leaves and adds.
LEMMA AppendFacts ==
    ASSUME NEW S, NEW seq \in Seq(S), NEW x \in S
    PROVE  /\ DOMAIN Append(seq, x) = 1 .. Len(seq) + 1
           /\ DOMAIN seq = 1 .. Len(seq) /\ Len(seq) \in Nat
           /\ \A i \in DOMAIN seq : Append(seq, x)[i] = seq[i]
           /\ Append(seq, x)[Len(seq) + 1] = x
OBVIOUS

LEMMA CashStep ==
    TypeOK /\ CashCoversPurchases /\ [Next]_vars => CashCoversPurchases'
<1>. SUFFICES ASSUME TypeOK, CashCoversPurchases, [Next]_vars, cash' < 0
              PROVE  \E i \in DOMAIN orders' : BoughtAboveLimit(orders'[i])
  BY DEF CashCoversPurchases, BoughtAboveLimit
<1>1. ASSUME cash' >= cash,
             NEW o \in Order, orders' = Append(orders, o) \/ orders' = orders
      PROVE  \E i \in DOMAIN orders' : BoughtAboveLimit(orders'[i])
  <2>1. cash < 0
    BY <1>1, TypeStep DEF TypeOK
  <2>2. PICK i \in DOMAIN orders : BoughtAboveLimit(orders[i])
    BY <2>1 DEF CashCoversPurchases
  <2>3. i \in DOMAIN orders' /\ orders'[i] = orders[i]
    <3>1. orders \in Seq(Order)
      BY DEF TypeOK
    <3>. QED BY <1>1, <2>2, <3>1, AppendFacts
  <2>. QED
    BY <2>2, <2>3
<1>2. ASSUME NEW sig \in Signal, NEW quote \in Books, Trade(sig, quote)
      PROVE  \E i \in DOMAIN orders' : BoughtAboveLimit(orders'[i])
  <2>. DEFINE price == Touch(quote, sig.side)
              o == TradeOrder(sig, quote)
  <2>1. /\ orders' = Append(orders, o) /\ o \in Order
        /\ cash' = cash - SignedQty(sig.side, sig.qty) * price
        /\ price \in Nat \ {0} /\ sig.qty \in Nat /\ sig.limit \in Nat
    BY <1>2, TradeEffect, OrdersAreTyped DEF Trade, Signal
  <2>2. CASE sig.side = "Sell"
    <3>. HIDE DEF o, price
    <3>1. cash' = cash + sig.qty * price
      BY <2>1, <2>2 DEF SignedQty, TypeOK
    <3>2. sig.qty * price >= 0
      BY <2>1
    <3>3. cash' >= cash
      BY <2>1, <3>1, <3>2 DEF TypeOK
    <3>. QED BY <1>1, <2>1, <3>3
  <2>3. CASE sig.side = "Buy"
    <3>1. cash' = cash - sig.qty * price
      BY <2>1, <2>3 DEF SignedQty
    <3>2. cash < sig.qty * price
      BY <2>1, <3>1 DEF TypeOK
    <3>3. sig.type = "Limit" /\ cash >= sig.qty * sig.limit
      BY <1>2, <2>1, <2>3, <3>2, AdmittedTrade DEF TypeOK
    <3>4. BoughtAboveLimit(o)
      <4>1. /\ o.type = "Limit" /\ o.side = "Buy"
            /\ o.paid = sig.qty * price /\ o.qty * o.limit = sig.qty * sig.limit
        BY <2>3, <3>3 DEF TradeOrder
      <4>2. sig.qty * price \in Int /\ sig.qty * sig.limit \in Int /\ cash \in Int
        BY <2>1 DEF TypeOK
      <4>. HIDE DEF o, price
      <4>. QED BY <3>2, <3>3, <4>1, <4>2 DEF BoughtAboveLimit
    <3>5. /\ Len(orders) + 1 \in DOMAIN orders'
          /\ orders'[Len(orders) + 1] = o
      BY <2>1 DEF TypeOK
    <3>. QED
      BY <3>4, <3>5
  <2>. QED
    BY <2>2, <2>3 DEF Signal, Sides
<1>3. ASSUME NEW sig \in Signal, NEW status \in {"Sent", "Rejected"},
             NoTrade(WithStatus(sig, status))
      PROVE  \E i \in DOMAIN orders' : BoughtAboveLimit(orders'[i])
  <2>1. WithStatus(sig, status) \in Order
    BY DEF Order, WithStatus, NewOrder, Signal, OrderStatuses
  <2>. QED
    BY <1>1, <1>3, <2>1 DEF NoTrade, TypeOK
<1>4. CASE Kill \/ UNCHANGED vars
  BY <1>4 DEF Kill, portfolioVars, orderVars, vars, CashCoversPurchases
<1>. QED
  BY <1>2, <1>3, <1>4, StepCases

\* Cash only goes negative through a limit order that was filled above its
\* limit: with market orders alone the account can never be overdrawn.
THEOREM NeverOverdrawn == Spec => []CashCoversPurchases
<1>1. Init => CashCoversPurchases
  BY CapitalAssumption DEF Init, PortfolioInit, CashCoversPurchases
<1>. QED
  BY <1>1, CashStep, TypeCorrect, PTL DEF Spec

-----------------------------------------------------------------------------
(* Orders and fills.                                                       *)

LEMMA AgreeStep ==
    TypeOK /\ OrdersAgreeWithFills /\ [Next]_vars => OrdersAgreeWithFills'
<1>. SUFFICES ASSUME TypeOK, OrdersAgreeWithFills, [Next]_vars
              PROVE  OrdersAgreeWithFills'
  OBVIOUS
<1>1. orders \in Seq(Order) /\ fills \in Seq(Fill)
  BY DEF TypeOK
<1>2. EveryFillHasItsOrder /\ NoOrderFilledTwice /\ EveryOrderIsSettled
  BY DEF OrdersAgreeWithFills
<1>3. CASE UNCHANGED orderVars
  BY <1>2, <1>3
  DEF orderVars, OrdersAgreeWithFills, EveryFillHasItsOrder,
      NoOrderFilledTwice, EveryOrderIsSettled
<1>4. ASSUME NEW sig \in Signal, NEW status \in {"Sent", "Rejected"},
             NoTrade(WithStatus(sig, status))
      PROVE  OrdersAgreeWithFills'
  <2>. DEFINE o == WithStatus(sig, status)
  <2>1. /\ orders' = Append(orders, o) /\ fills' = fills
        /\ o \in Order
        /\ o.status \in {"Sent", "Rejected"} /\ o.filled = 0 /\ o.paid = 0
    BY <1>4 DEF NoTrade, Order, WithStatus, NewOrder, Signal, OrderStatuses
  <2>. HIDE DEF o
  <2>2. /\ DOMAIN orders' = 1 .. Len(orders) + 1
        /\ DOMAIN orders = 1 .. Len(orders) /\ Len(orders) \in Nat
        /\ \A i \in DOMAIN orders : orders'[i] = orders[i]
        /\ orders'[Len(orders) + 1] = o
    BY <1>1, <2>1, AppendFacts
  <2>3. EveryFillHasItsOrder'
    BY <1>2, <2>1, <2>2 DEF EveryFillHasItsOrder
  <2>4. NoOrderFilledTwice'
    BY <1>2, <2>1 DEF NoOrderFilledTwice
  <2>5. EveryOrderIsSettled'
    BY <1>2, <2>1, <2>2 DEF EveryOrderIsSettled
  <2>. QED
    BY <2>3, <2>4, <2>5 DEF OrdersAgreeWithFills
<1>5. ASSUME NEW sig \in Signal, NEW quote \in Books, Trade(sig, quote)
      PROVE  OrdersAgreeWithFills'
  <2>. DEFINE o == TradeOrder(sig, quote)
              f == TradeFill(sig, quote)
  <2>1. /\ orders' = Append(orders, o) /\ fills' = Append(fills, f)
        /\ o \in Order /\ f \in Fill
    BY <1>5, OrdersAreTyped, TradeEffect DEF Trade
  <2>2. Explains(o, f) /\ f.order = Len(orders) + 1
    BY DEF Explains, TradeOrder, TradeFill
  <2>. HIDE DEF o, f
  <2>3. /\ DOMAIN orders' = 1 .. Len(orders) + 1
        /\ DOMAIN orders = 1 .. Len(orders) /\ Len(orders) \in Nat
        /\ \A i \in DOMAIN orders : orders'[i] = orders[i]
        /\ orders'[Len(orders) + 1] = o
    BY <1>1, <2>1, AppendFacts
  <2>4. /\ DOMAIN fills' = 1 .. Len(fills) + 1
        /\ DOMAIN fills = 1 .. Len(fills) /\ Len(fills) \in Nat
        /\ \A i \in DOMAIN fills : fills'[i] = fills[i]
        /\ fills'[Len(fills) + 1] = f
    BY <1>1, <2>1, AppendFacts
  <2>5. EveryFillHasItsOrder'
    <3>. SUFFICES ASSUME NEW k \in DOMAIN fills'
                  PROVE  /\ fills'[k].order \in DOMAIN orders'
                         /\ Explains(orders'[fills'[k].order], fills'[k])
      BY DEF EveryFillHasItsOrder, Explains
    <3>1. CASE k \in DOMAIN fills
      BY <1>2, <2>3, <2>4, <3>1 DEF EveryFillHasItsOrder
    <3>2. CASE k = Len(fills) + 1
      BY <2>2, <2>3, <2>4, <3>2
    <3>. QED
      BY <2>4, <3>1, <3>2
  <2>6. NoOrderFilledTwice'
    <3>. SUFFICES ASSUME NEW j \in DOMAIN fills', NEW k \in DOMAIN fills', j < k
                  PROVE  fills'[j].order < fills'[k].order
      BY DEF NoOrderFilledTwice
    <3>1. j \in DOMAIN fills /\ fills'[j] = fills[j]
      BY <2>4
    <3>2. CASE k \in DOMAIN fills
      BY <1>2, <2>4, <3>1, <3>2 DEF NoOrderFilledTwice
    <3>3. CASE k = Len(fills) + 1
      <4>1. fills[j].order \in 1 .. Len(orders)
        BY <1>2, <2>3, <3>1 DEF EveryFillHasItsOrder
      <4>. QED
        BY <2>2, <2>3, <2>4, <3>1, <3>3, <4>1
    <3>. QED
      BY <2>4, <3>2, <3>3
  <2>7. EveryOrderIsSettled'
    <3>. SUFFICES ASSUME NEW i \in DOMAIN orders'
                  PROVE  \/ \E k \in DOMAIN fills' : fills'[k].order = i
                         \/ /\ orders'[i].status \in {"Sent", "Rejected"}
                            /\ orders'[i].filled = 0 /\ orders'[i].paid = 0
      BY DEF EveryOrderIsSettled
    <3>1. CASE i \in DOMAIN orders
      BY <1>2, <2>3, <2>4, <3>1 DEF EveryOrderIsSettled
    <3>2. CASE i = Len(orders) + 1
      BY <2>2, <2>4, <3>2
    <3>. QED
      BY <2>3, <3>1, <3>2
  <2>. QED
    BY <2>5, <2>6, <2>7 DEF OrdersAgreeWithFills
<1>6. Kill \/ UNCHANGED vars => UNCHANGED orderVars
  BY DEF Kill, vars, orderVars
<1>. QED
  BY <1>3, <1>4, <1>5, <1>6, StepCases

\* Every fill is the only fill of an order that is Filled and agrees with it;
\* every other order is resting or rejected and holds nothing.
THEOREM OrdersAndFillsAgree == Spec => []OrdersAgreeWithFills
<1>1. Init => OrdersAgreeWithFills
  BY DEF Init, OrdersAgreeWithFills, EveryFillHasItsOrder, NoOrderFilledTwice,
         EveryOrderIsSettled
<1>. QED
  BY <1>1, AgreeStep, TypeCorrect, PTL DEF Spec

-----------------------------------------------------------------------------
(* What a step may do.                                                     *)

LEMMA ConservesStep ==
    TypeOK /\ [Next]_vars =>
        UNCHANGED <<cash, position>> \/ \E s \in Symbols : Conserves(s)
<1>. SUFFICES ASSUME TypeOK, [Next]_vars
              PROVE  UNCHANGED <<cash, position>> \/ \E s \in Symbols : Conserves(s)
  OBVIOUS
<1>1. ASSUME NEW sig \in Signal, NEW quote \in Books, Trade(sig, quote)
      PROVE  \E s \in Symbols : Conserves(s)
  <2>. DEFINE s == sig.symbol
              moved == SignedQty(sig.side, sig.qty) * Touch(quote, sig.side)
              gained == (position'[s].realized - position[s].realized)
                          - (position'[s].basis - position[s].basis)
  <2>1. /\ s \in Symbols /\ moved \in Int
        /\ cash' = cash - moved
        /\ gained = -moved
        /\ \A t \in Symbols \ {s} : position'[t] = position[t]
    BY <1>1, TradeEffect
  <2>2. cash' - cash = gained
    <3>. HIDE DEF moved, gained
    <3>. QED BY <2>1 DEF TypeOK
  <2>. QED
    BY <2>1, <2>2 DEF Conserves
<1>2. Kill \/ UNCHANGED vars => UNCHANGED <<cash, position>>
  BY DEF Kill, portfolioVars, vars
<1>3. ASSUME NEW o, NoTrade(o) PROVE UNCHANGED <<cash, position>>
  BY <1>3 DEF NoTrade
<1>. QED
  BY <1>1, <1>2, <1>3, StepCases

\* No step creates or loses money: cash moves by what is realised less what is
\* newly tied up in the one position that changes.
THEOREM MoneyIsConserved == Spec => MoneyConserved
BY ConservesStep, TypeCorrect, PTL DEF Spec, MoneyConserved

LEMMA KilledStep ==
    TypeOK /\ [Next]_vars =>
        (killed => killed' /\ UNCHANGED <<portfolioVars, fills>>)
<1>. SUFFICES ASSUME TypeOK, [Next]_vars, killed
              PROVE  killed' /\ UNCHANGED <<portfolioVars, fills>>
  OBVIOUS
<1>1. ASSUME NEW sig \in Signal, NEW quote \in Books, Trade(sig, quote)
      PROVE  FALSE
  BY <1>1, AdmittedTrade
<1>2. CASE Kill
  BY <1>2 DEF Kill, Trip, orderVars
<1>3. CASE UNCHANGED vars
  BY <1>3 DEF vars, portfolioVars
<1>4. ASSUME NEW o, NoTrade(o)
      PROVE  killed' /\ UNCHANGED <<portfolioVars, fills>>
  BY <1>4 DEF NoTrade, portfolioVars
<1>. QED
  BY <1>1, <1>2, <1>3, <1>4, StepCases

\* After the kill switch nothing changes the account, ever.
THEOREM KillIsFinal == Spec => NothingTradesAfterKill
BY KilledStep, TypeCorrect, PTL DEF Spec, NothingTradesAfterKill

\* A fill names the order stored last, so on_fill finds it and the order is Filled:
\* one that stays Sent got none.
LEMMA SentWithoutFill ==
    ASSUME TypeOK, NEW sig \in Signal, NEW quote \in Books, Submit(sig, quote),
           Last(orders').status = "Sent"
    PROVE  MatchFill(Len(orders'), Last(orders'), quote) = {}
<1>. DEFINE sent == WithStatus(sig, "Sent")
            stored == Append(orders, sent)
            matched == MatchFill(Len(stored), sent, quote)
<1>1. /\ Transition(NewOrder(sig), "Sent") = sent
      /\ Transition(NewOrder(sig), "Rejected") = WithStatus(sig, "Rejected")
  BY DEF Transition, Legal, NewOrder, WithStatus
<1>2. ASSUME NEW o, orders' = Append(orders, o)
      PROVE  Last(orders') = o
  BY <1>2 DEF TypeOK, Last
<1>3. CASE Rejected(sig, quote)
  <2>1. Last(orders') = WithStatus(sig, "Rejected")
    BY <1>1, <1>2, <1>3 DEF Rejected, Record
  <2>. QED
    BY <2>1 DEF WithStatus, NewOrder
<1>4. CASE Routed(sig, quote)
  <2>1. CASE matched = {} /\ Record(sent)
    <3>1. orders' = stored /\ Last(orders') = sent
      BY <1>2, <2>1 DEF Record
    <3>. QED
      BY <2>1, <3>1
  <2>2. ASSUME NEW f \in matched, OnFill(stored, f)
        PROVE  FALSE
    <3>1. orders' = Append(orders, TradeOrder(sig, quote))
      BY <2>2, FillReachesOrder
    <3>2. Last(orders') = TradeOrder(sig, quote)
      BY <1>2, <3>1
    <3>. QED
      BY <3>2 DEF TradeOrder
  <2>. QED
    BY <1>1, <1>4, <2>1, <2>2 DEF Routed
<1>. QED
  BY <1>3, <1>4 DEF Submit

\* No fill is dropped for want of its order: an order is left Sent only where the
\* venue gave nothing for it, for any signal, quote and history (oms.cpp:83,
\* 102-106).
THEOREM FillsReachOrders == Spec => NoFillIsLost
<1>. DEFINE calls == Signals \cup {FlattenSignal(s) : s \in {t \in Symbols : NetQty(t) > Eps}}
            Reached == orders' # orders /\ Last(orders').status = "Sent" =>
                          \A sig \in calls, quote \in Books :
                             Submit(sig, quote)
                               => MatchFill(Len(orders'), Last(orders'), quote) = {}
<1>1. TypeOK => Reached
  <2>1. TypeOK => calls \subseteq Signal
    BY FlattenIsSignal, OrderManagerAssumption
  <2>. HIDE DEF calls
  <2>. QED
    BY <2>1, SentWithoutFill
<1>2. TypeOK => [Reached]_vars
  BY <1>1
<1>3. [][Reached]_vars => NoFillIsLost
  BY DEF NoFillIsLost
<1>. QED
  BY <1>2, <1>3, TypeCorrect, PTL DEF Spec

-----------------------------------------------------------------------------
(* Refinement.                                                             *)

\* The mapped state follows the position that a trade changes.
LEMMA NetAfterTrade ==
    ASSUME TypeOK, NEW sig \in Signal, NEW quote \in Books, Trade(sig, quote)
    PROVE  NetQuantities' = [NetQuantities EXCEPT ![sig.symbol] =
                                 @ + SignedQty(sig.side, sig.qty)]
<1>1. /\ sig.symbol \in Symbols
      /\ position'[sig.symbol].net
           = position[sig.symbol].net + SignedQty(sig.side, sig.qty)
      /\ \A t \in Symbols \ {sig.symbol} : position'[t] = position[t]
  BY TradeEffect
<1>. QED
  BY <1>1 DEF NetQuantities, NetQty

LEMMA AccountInit == Init => Account!Init
<1>. SUFFICES ASSUME Init PROVE Account!Init
  OBVIOUS
<1>1. \A s \in Symbols : position[s].net = 0
  BY DEF Init, PortfolioInit, Flat
<1>2. NetQuantities = [s \in Symbols |-> 0]
  BY <1>1 DEF NetQuantities, NetQty
<1>3. cash = InitialCapital /\ killed = FALSE
  BY DEF Init, PortfolioInit, RiskInit
<1>. QED
  BY <1>2, <1>3 DEF Account!Init

LEMMA AccountStep ==
    TypeOK /\ PositionsWithinLimits /\ [Next]_vars
        => [Account!Next]_<<cash, NetQuantities, killed>>
<1>. SUFFICES ASSUME TypeOK, PositionsWithinLimits, [Next]_vars
              PROVE  Account!Next \/ UNCHANGED <<cash, NetQuantities, killed>>
  OBVIOUS
<1>1. ASSUME NEW sig \in Signal, NEW quote \in Books, Trade(sig, quote)
      PROVE  Account!Next
  <2>. DEFINE s == sig.symbol
              qty == sig.qty
              price == Touch(quote, sig.side)
              net == position[s].net
  <2>1. /\ s \in Symbols /\ qty \in Nat \ {0} /\ sig.side \in Sides
        /\ price \in Nat \ {0} /\ net \in Int /\ cash \in Int
        /\ cash' = cash - SignedQty(sig.side, qty) * price
        /\ UNCHANGED killed
    <3>1. /\ s \in Symbols /\ price \in Nat \ {0}
          /\ cash' = cash - SignedQty(sig.side, qty) * price
      BY <1>1, TradeEffect
    <3>2. qty \in Nat \ {0} /\ sig.side \in Sides
      BY <1>1 DEF Trade, Signal
    <3>3. UNCHANGED killed
      BY <1>1 DEF Trade
    <3>4. net \in Int /\ cash \in Int
      BY <3>1 DEF TypeOK, Position
    <3>. QED
      BY <3>1, <3>2, <3>3, <3>4
  <2>2. price \in TouchPrices
    BY <2>1 DEF TouchPrices
  <2>3. /\ ~killed
        /\ Abs(net + SignedQty(sig.side, qty)) <= MaxPositionQty
        /\ sig.side = "Sell" => net >= qty - Eps
    BY <1>1, AdmittedTrade
  <2>4. net >= -Eps /\ net <= MaxPositionQty
    BY <2>1 DEF PositionsWithinLimits, NetQty
  <2>5. NetQuantities[s] = net
    BY <2>1 DEF NetQuantities, NetQty
  <2>6. NetQuantities' = [NetQuantities EXCEPT ![s] = @ + SignedQty(sig.side, qty)]
    BY <1>1, NetAfterTrade
  <2>. HIDE DEF s, qty, price, net
  <2>7. CASE sig.side = "Buy"
    <3>1. qty \in Account!Sizes /\ NetQuantities[s] + qty <= MaxPositionQty
      BY <2>1, <2>3, <2>4, <2>5, <2>7, OrderManagerAssumption, LimitsAssumption
      DEF SignedQty, Abs, Account!Sizes
    <3>2. Account!Buy(s, qty, price)
      BY <2>1, <2>3, <2>6, <2>7, <3>1 DEF Account!Buy, SignedQty
    <3>. QED
      BY <2>1, <2>2, <3>1, <3>2 DEF Account!Next
  <2>8. CASE sig.side = "Sell"
    <3>1. qty \in Account!Sizes /\ NetQuantities[s] - qty >= -Eps
      BY <2>1, <2>3, <2>4, <2>5, <2>8, OrderManagerAssumption, LimitsAssumption
      DEF SignedQty, Account!Sizes
    <3>2. /\ cash' = cash + qty * price
          /\ NetQuantities' = [NetQuantities EXCEPT ![s] = @ - qty]
      <4>1. SignedQty(sig.side, qty) = -qty
        BY <2>8 DEF SignedQty
      <4>2. NetQuantities[s] + (-qty) = NetQuantities[s] - qty
        BY <2>1, <2>5
      <4>3. cash - (-qty) * price = cash + qty * price
        BY <2>1
      <4>. QED
        BY <2>1, <2>6, <4>1, <4>2, <4>3
    <3>3. Account!Sell(s, qty, price)
      BY <2>1, <2>3, <3>1, <3>2 DEF Account!Sell
    <3>. QED
      BY <2>1, <2>2, <3>1, <3>3 DEF Account!Next
  <2>. QED
    BY <2>1, <2>7, <2>8 DEF Sides
<1>2. CASE Kill
  BY <1>2 DEF Kill, Trip, portfolioVars, Account!Next, Account!Halt,
              NetQuantities, NetQty
<1>3. CASE UNCHANGED vars
  BY <1>3 DEF vars, NetQuantities, NetQty
<1>4. ASSUME NEW o, NoTrade(o)
      PROVE  UNCHANGED <<cash, NetQuantities, killed>>
  BY <1>4 DEF NoTrade, NetQuantities, NetQty
<1>. QED
  BY <1>1, <1>2, <1>3, <1>4, StepCases

\* The pipeline of orders, gates, matching and cost accounting is, seen from
\* outside, the account PaperAccount specifies.
THEOREM RefinesPaperAccount == Spec => ImplementsPaperAccount
BY AccountInit, AccountStep, TypeCorrect, LongOnly, PTL
DEF Spec, ImplementsPaperAccount, Account!Spec
=============================================================================
