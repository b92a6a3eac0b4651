----------------------------- MODULE MCTerminal -----------------------------
(* A small desk for TLC: one crypto pair watched from the start, one symbol  *)
(* that the feed's universe brings, that the user may type first, and that   *)
(* the user may also list as a stock.                                        *)
EXTENDS Terminal

CONSTANTS A, B

Unit == 6

Tick(bid, ask) == [bid |-> bid * Unit, ask |-> ask * Unit]

MCSymbols == {A, B}

MCBooks == {Tick(1, 2), Tick(3, 0)}

MCSignals ==
    {[symbol |-> s, side |-> side, type |-> "Market", qty |-> qty, limit |-> 0] :
        s \in Symbols, side \in Sides, qty \in 1 .. 6}

MCInitialSymbols == <<A>>

MCFeedUniverse == <<A, B>>

MCCryptoListed == {A}

MCStockListed == {B}

MCNotionals == {6 * Unit}

MCQuantities == {2}

MCInitialCapital == 9 * Unit
=============================================================================
