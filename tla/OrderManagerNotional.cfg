SPECIFICATION Spec
CONSTANTS
    A = A
    B = B
    Symbols <- MCSymbols
    Books <- MCBooks
    Marks <- MCMarks
    Signals <- MCSignals
    InitialCapital <- MCInitialCapital
    MaxOrderNotional <- MCMaxOrderNotional
    MaxOrderQty = 3
    MaxPositionQty = 5
    Eps = 1
    MaxOrders = 4
INVARIANT
    NotionalLimitHolds
