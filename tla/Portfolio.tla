----------------------------- MODULE Portfolio -----------------------------
(***************************************************************************)
(* Cash and positions (src/cpp/include/execution/portfolio.hpp and         *)
(* Position in types.hpp).                                                 *)
(*                                                                         *)
(* The code keeps an average entry price per position.  The model keeps    *)
(* basis = average price * net quantity, the money the open position cost  *)
(* (negative when short), which is an integer as long as a partial exit    *)
(* releases a whole number of money units.                                 *)
(***************************************************************************)
EXTENDS Market, Sequences, FiniteSetsExt

CONSTANTS
    InitialCapital,     \* what Portfolio::fund() is given
    Marks               \* the mark prices PnL figures are checked at

ASSUME CapitalAssumption == InitialCapital \in Nat /\ Marks \subseteq Int

VARIABLES
    cash,       \* Portfolio::cash_
    position,   \* Portfolio::positions_; a symbol never traded is flat
    closed      \* Portfolio::closed_, the completed round trips

portfolioVars == <<cash, position, closed>>

Position == [net : Int, basis : Int, realized : Int]

ClosedPosition == [symbol : Symbols, fill : Nat \ {0}, qty : Nat, pnl : Int]

Flat == [net |-> 0, basis |-> 0, realized |-> 0]

NetQty(s) == position[s].net

-----------------------------------------------------------------------------
(* Position::apply.                                                        *)

\* A fill on the position's side, or from flat: the cost is averaged in.
ExtendPosition(p, sq, price) ==
    [net |-> p.net + sq, basis |-> p.basis + price * sq,
     realized |-> p.realized]

\* The cost released is what the sale brings, not what the part sold had cost.
ReduceAtFillPrice(p, sq, price) ==
    LET released == (p.basis * Abs(sq)) \div Abs(p.net)
    IN  [net |-> p.net + sq, basis |-> p.basis + price * sq,
         realized |-> p.realized - price * sq - released]

\* A fill that takes part or all of the position back: the closed part's cost
\* is released at the average price and the difference realised.
ReducePosition(p, sq, price) ==
    LET released == (p.basis * Abs(sq)) \div Abs(p.net)
    IN  [net |-> p.net + sq, basis |-> p.basis - released,
         realized |-> p.realized - price * sq - released]

\* FlipPosition that leaves the average price of the closed side in place.
FlipKeepsAverage(p, sq, price) ==
    [net |-> p.net + sq, basis |-> (p.basis * (p.net + sq)) \div p.net,
     realized |-> p.realized + price * p.net - p.basis]

\* A fill larger than the position: all of it is realised, and what is left
\* opens on the other side at the fill price.
FlipPosition(p, sq, price) ==
    [net |-> p.net + sq, basis |-> price * (p.net + sq),
     realized |-> p.realized + price * p.net - p.basis]

Opening(p, sq) == p.net = 0 \/ (p.net > 0) = (sq > 0)

\* Averaging the cost on every fill, exits included.
ApplyAlwaysAverages(p, f) ==
    ExtendPosition(p, SignedQty(f.side, f.qty), f.price)

PositionApply(p, f) ==
    LET sq == SignedQty(f.side, f.qty) IN
    IF Opening(p, sq) THEN ExtendPosition(p, sq, f.price)
    ELSE IF Abs(sq) > Abs(p.net) THEN FlipPosition(p, sq, f.price)
    ELSE ReducePosition(p, sq, f.price)

-----------------------------------------------------------------------------
(* Portfolio::apply.                                                       *)

\* A round trip recorded on every exit.
EveryExitEndsRoundTrip(before, after) == Abs(after.net) < Abs(before.net)

\* A fill that takes the position from open to exactly flat ends a round trip.
EndsRoundTrip(before, after) == before.net # 0 /\ after.net = 0

\* The record holds the size the last fill closed and what that fill realised.
RoundTrip(f, id, before, after) ==
    [symbol |-> f.symbol, fill |-> id, qty |-> Abs(before.net),
     pnl |-> after.realized - before.realized]

\* Cash moved by the last paid price times the size, without the side.
ApplyFillUnsigned(f, id) ==
    LET after == PositionApply(position[f.symbol], f) IN
    /\ position' = [position EXCEPT ![f.symbol] = after]
    /\ cash' = cash - f.qty * f.price
    /\ UNCHANGED closed

\* Applies fill number id.
ApplyFill(f, id) ==
    LET before == position[f.symbol]
        after  == PositionApply(before, f)
    IN  /\ position' = [position EXCEPT ![f.symbol] = after]
        /\ cash' = cash - SignedQty(f.side, f.qty) * f.price
        /\ closed' = IF EndsRoundTrip(before, after)
                     THEN Append(closed, RoundTrip(f, id, before, after))
                     ELSE closed

PortfolioInit ==
    /\ cash = InitialCapital
    /\ position = [s \in Symbols |-> Flat]
    /\ closed = <<>>

-----------------------------------------------------------------------------
(* The figures the terminal shows, at a mark price per symbol.  The engine   *)
(* marks every symbol it has ever seen a quote for, so every symbol held.    *)

PositionsValue(marks) ==
    SumFunction([s \in Symbols |-> NetQty(s) * marks[s]])

Realized == SumFunction([s \in Symbols |-> position[s].realized])

\* (mark - average price) * net quantity, summed.
Unrealized(marks) ==
    SumFunction([s \in Symbols |-> NetQty(s) * marks[s] - position[s].basis])

Equity(marks) == cash + PositionsValue(marks)

TotalPnl(marks) == Equity(marks) - InitialCapital
=============================================================================
