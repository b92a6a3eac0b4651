------------------------------- MODULE Market -------------------------------
(***************************************************************************)
(* The value types every part of the execution layer shares: sides, order  *)
(* statuses, quotes, fills and the price of a quote                        *)
(* (src/cpp/include/execution/types.hpp).                                  *)
(*                                                                         *)
(* Prices and quantities are doubles in the code and integers here, in     *)
(* units of the smallest price and size that occur.  The midpoint is kept  *)
(* doubled, so that it stays an integer; whatever is compared with it is   *)
(* doubled too.  Timestamps, sizes and free text carry no decision and are *)
(* left out.                                                               *)
(***************************************************************************)
EXTENDS Integers, FiniteSets

CONSTANTS
    Symbols,    \* the instruments that may be traded
    Books       \* the top-of-book states an order may meet, [bid, ask];
                \* 0 means that side of the book is empty

ASSUME SymbolsAssumption == IsFiniteSet(Symbols)

ASSUME BooksAssumption == Books \subseteq [bid : Nat, ask : Nat]

Sides == {"Buy", "Sell"}

OrderTypes == {"Market", "Limit"}

OrderStatuses ==
    {"New", "Sent", "PartiallyFilled", "Filled", "Cancelled", "Rejected"}

Abs(n) == IF n < 0 THEN -n ELSE n

SignedQty(side, qty) == IF side = "Buy" THEN qty ELSE -qty

\* Twice Quote::mid().
DoubleMid(quote) == quote.bid + quote.ask

\* The price an order on `side` crosses at: the opposite quote, or the own
\* side's quote when that one is empty.  The code's last resort, mid(), is
\* reached with both sides empty, when it is 0 as well.
Touch(quote, side) ==
    LET primary   == IF side = "Buy" THEN quote.ask ELSE quote.bid
        secondary == IF side = "Buy" THEN quote.bid ELSE quote.ask
    IN  IF primary > 0 THEN primary ELSE secondary

\* What a caller asks for (types.hpp Signal) and what comes back from the
\* matching engine.  A fill names its order by id.
Signal == [symbol : Symbols, side : Sides, type : OrderTypes,
           qty : Nat, limit : Nat]

Fill == [order : Nat \ {0}, symbol : Symbols, side : Sides,
         qty : Nat \ {0}, price : Nat \ {0}]
=============================================================================
