--------------------------- MODULE MCOrderManager ---------------------------
(* A small account for TLC: two symbols, quotes on both, one or no side of   *)
(* the book, and orders that meet every limit.                               *)
EXTENDS OrderManager

CONSTANTS A, B

Unit == 3600        \* money units per price tick: partial exits divide evenly

Tick(bid, ask) == [bid |-> bid * Unit, ask |-> ask * Unit]

MCSymbols == {A, B}

MCBooks == {Tick(1, 2), Tick(2, 3), Tick(3, 0), Tick(0, 2), Tick(0, 0)}

MCMarks == {0, Unit}

MCMarket(s, side, qty) ==
    [symbol |-> s, side |-> side, type |-> "Market", qty |-> qty, limit |-> 0]

MCLimit(s, side, qty, price) ==
    [symbol |-> s, side |-> side, type |-> "Limit", qty |-> qty,
     limit |-> price * Unit]

MCSignals ==
    {MCMarket(A, "Buy", 2), MCMarket(A, "Buy", 3), MCMarket(A, "Buy", 4),
     MCMarket(A, "Sell", 2), MCMarket(A, "Sell", 3),
     MCLimit(A, "Buy", 2, 1), MCLimit(A, "Sell", 2, 2),
     MCMarket(B, "Buy", 2), MCMarket(B, "Sell", 3)}

MCInitialCapital == 9 * Unit

MCMaxOrderNotional == 6 * Unit
=============================================================================
