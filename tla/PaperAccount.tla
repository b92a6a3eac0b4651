---------------------------- MODULE PaperAccount ----------------------------
(***************************************************************************)
(* What the order pipeline promises its caller, without orders, gates or   *)
(* cost bases: an account of cash and net quantities that only changes by  *)
(* whole trades at a quoted price, stays long-only (up to a tolerance) and *)
(* under the position limit, and never changes again once halted.          *)
(***************************************************************************)
EXTENDS Integers

CONSTANTS
    Symbols,
    Prices,             \* the prices a trade may be done at
    Capital,
    Tolerance,          \* how far below zero a sale may end
    MaxPositionQty

VARIABLES cash, net, halted

Init ==
    /\ cash = Capital
    /\ net = [s \in Symbols |-> 0]
    /\ halted = FALSE

\* Size 0 is no trade; the largest possible one goes from one end of the
\* allowed range to the other.
Sizes == 1 .. MaxPositionQty + Tolerance

Buy(s, qty, price) ==
    /\ ~halted
    /\ net[s] + qty <= MaxPositionQty
    /\ net' = [net EXCEPT ![s] = @ + qty]
    /\ cash' = cash - qty * price
    /\ UNCHANGED halted

Sell(s, qty, price) ==
    /\ ~halted
    /\ net[s] - qty >= -Tolerance
    /\ net' = [net EXCEPT ![s] = @ - qty]
    /\ cash' = cash + qty * price
    /\ UNCHANGED halted

Halt == halted' = TRUE /\ UNCHANGED <<cash, net>>

Next ==
    \/ \E s \in Symbols, qty \in Sizes, price \in Prices :
          Buy(s, qty, price) \/ Sell(s, qty, price)
    \/ Halt

Spec == Init /\ [][Next]_<<cash, net, halted>>
=============================================================================
